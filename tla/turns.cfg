\* The test of lab 2: processes in endless loops, one in A, one in B, two in C.
SPECIFICATION SpecTest
CONSTANTS
  a1 = a1
  b1 = b1
  c1 = c1
  c2 = c2
  Users <- MCUsers
  GroupOf <- MCGroupOf
  InitProc = a1
  SchedRate = 6
  Disturbances = {}
  MaxLateTicks = 1
PROPERTIES
  EveryoneRuns
  TurnLengths
