----------------------------- MODULE MCRetention -----------------------------
(* Small instances of Retention for TLC. *)
EXTENDS Retention, TLC

CONSTANTS m1, m2

\* The first meeting expires while the clock runs, the others as it stops.
TwoExpiries == m1 :> 1 @@ m2 :> 2

SweepSymmetry == Permutations(Sweepers) \cup Permutations(Users)
=============================================================================
