----------------------------- MODULE MCAlgorithmD -----------------------------
(***************************************************************************)
(* AlgorithmD on a small instance.                                         *)
(***************************************************************************)
EXTENDS AlgorithmD

\* Both keys start at slot 1, where the second one's probe wraps.
MCHash == [k \in Keys |-> 1]
=============================================================================
