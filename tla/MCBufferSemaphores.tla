------------------------- MODULE MCBufferSemaphores --------------------------
(***************************************************************************)
(* Instances of BufferSemaphores for TLC.                                  *)
(***************************************************************************)
EXTENDS BufferSemaphores, TLC

\* Eight threads, functions[i % 4] as in main (test case 10).
MCThreads == 0..7

FunctionOf == <<"prodEven", "prodOdd", "consEven", "consOdd">>

MCKindOf == [t \in MCThreads |-> FunctionOf[(t % 4) + 1]]

\* Test cases 1 to 10 of main.
MCTestCases ==
  {{0}, {1}, {2}, {3}, {0, 1}, {2, 3}, {0, 2}, {1, 3}, 0..3, 0..7}

=============================================================================
