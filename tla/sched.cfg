\* The scheduler of lab 2 with every kind of disturbance.
SPECIFICATION LiveSpec
CONSTANTS
  u1 = u1
  u2 = u2
  Users <- MCUsers
  InitProc = u1
  SchedRate = 2
  Disturbances <- AllDisturbances
  MaxLateTicks = 1
INVARIANTS
  QuantumRestored
  NoInterruptLost
  RunningIsBilled
PROPERTY
  HeadMovesOn
