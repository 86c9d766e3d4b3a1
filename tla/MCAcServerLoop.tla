-------------------------- MODULE MCAcServerLoop --------------------------
(* AcServerLoop on a small instance: more connections than the scaled-down *)
(* arrays hold, so that both arrays fill up.                               *)
EXTENDS AcServerLoop, TLC

ConnSymmetry == Permutations(Conns)
=============================================================================
