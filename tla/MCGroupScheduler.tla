--------------------------- MODULE MCGroupScheduler ---------------------------
(***************************************************************************)
(* An instance of GroupScheduler for TLC, in which everything may happen.  *)
(***************************************************************************)
EXTENDS GroupScheduler, TLC

CONSTANTS u1, u2

MCUsers == {u1, u2}

AllDisturbances == Disturbance

=============================================================================
