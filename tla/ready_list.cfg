\* The ready list of lab 2 against the queue it stands for.
SPECIFICATION Spec
CONSTANTS
  u1 = u1
  u2 = u2
  u3 = u3
  u4 = u4
  NIL = NIL
  Users <- MCUsers
  InitProc = u1
INVARIANT
  ExactlyRunnable
PROPERTY
  RefinesUserQueue
SYMMETRY Slots
