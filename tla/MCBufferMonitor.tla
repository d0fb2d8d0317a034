---------------------------- MODULE MCBufferMonitor --------------------------
(***************************************************************************)
(* Instances of BufferMonitor for TLC.                                  *)
(***************************************************************************)
EXTENDS BufferMonitor, TLC

\* functions[i % 4] as in main; six threads of the eight of test case 10:
\* two of each producer and one of each consumer.
MCThreads == 0..5

FunctionOf == <<"prodEven", "prodOdd", "consEven", "consOdd">>

MCKindOf == [t \in MCThreads |-> FunctionOf[(t % 4) + 1]]

\* Test cases 1 to 10 of main.
MCTestCases ==
  {{0}, {1}, {2}, {3}, {0, 1}, {2, 3}, {0, 2}, {1, 3}, 0..3, 0..5}

=============================================================================
