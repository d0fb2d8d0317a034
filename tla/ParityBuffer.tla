---------------------------- MODULE ParityBuffer -----------------------------
(***************************************************************************)
(* What the synchronized programs of labs 3 and 4 promise: the buffer only *)
(* changes by whole operations, and an operation only happens when the     *)
(* condition of its kind holds of the buffer it is applied to.             *)
(***************************************************************************)
CONSTANTS
  Kinds,           \* the kinds of operations
  InitialBuffers,  \* the buffers main may start with
  Can(_, _),       \* the condition of a kind on a buffer
  Operate(_, _)    \* the buffer after an operation of a kind

VARIABLE buffer

Init == buffer \in InitialBuffers

Do(kind) ==
  /\ Can(kind, buffer)
  /\ buffer' = Operate(kind, buffer)

Next == \E kind \in Kinds : Do(kind)

Spec == Init /\ [][Next]_buffer

=============================================================================
