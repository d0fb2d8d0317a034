\* The process table of lab 1 with INIT and four more slots.
SPECIFICATION Spec
CONSTANT NR_PROCS = 6
INVARIANTS
  IsTree
  MostFound
  WaitersServed
CHECK_DEADLOCK FALSE
