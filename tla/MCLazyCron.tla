----------------------------- MODULE MCLazyCron -----------------------------
(* Instances of LazyCron for TLC.  Liveness is checked: no symmetry.        *)
EXTENDS LazyCron

ThreeStarts == {"start-1", "start-2", "start-3"}
=============================================================================
