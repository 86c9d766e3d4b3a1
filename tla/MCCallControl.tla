--------------------------- MODULE MCCallControl ---------------------------
(* CallControl on a small instance, where every user plays the same part. *)
EXTENDS CallControl, TLC

UserSymmetry == Permutations(Users)
=============================================================================
