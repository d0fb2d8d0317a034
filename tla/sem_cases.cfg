\* All ten test cases of lab 3, small thresholds.
SPECIFICATION LiveSpec
CONSTANTS
  MaxEven = 3
  MinForEven = 2
  MinForOdd = 4
  PreFill = 4
  Threads <- MCThreads
  KindOf <- MCKindOf
  TestCases <- MCTestCases
INVARIANTS
  OneBaton
  WaitingExact
  NoLostWakeup
  HaltsOnlyWhenDone
  BufferBounded
PROPERTIES
  RefinesParityBuffer
  ReadyWaiterServed
CHECK_DEADLOCK FALSE
