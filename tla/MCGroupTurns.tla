----------------------------- MODULE MCGroupTurns -----------------------------
(***************************************************************************)
(* Instances of GroupTurns for TLC.                                        *)
(***************************************************************************)
EXTENDS GroupTurns, TLC

CONSTANTS a1, b1, c1, c2

MCUsers == {a1, b1, c1, c2}

MCGroupOf == [u \in MCUsers |-> CASE u = a1 -> 0 [] u = b1 -> 1 [] OTHER -> 2]

ASSUME TestAssumption ==
  /\ EndlessLoops
  /\ \A g \in Groups : \E u \in Users : GroupOf[u] = g

=============================================================================
