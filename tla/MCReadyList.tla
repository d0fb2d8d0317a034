----------------------------- MODULE MCReadyList ------------------------------
(***************************************************************************)
(* An instance of ReadyList for TLC: INIT and three more slots.            *)
(***************************************************************************)
EXTENDS ReadyList, TLC

CONSTANTS u1, u2, u3, u4

MCUsers == {u1, u2, u3, u4}

\* The slots other than INIT's are interchangeable.
Slots == Permutations(MCUsers \ {u1})

=============================================================================
