-------------------------- MODULE MCWorkAdmission --------------------------
(* Instances of WorkAdmission for TLC.                                     *)
EXTENDS WorkAdmission, TLC

ChainSymmetry == Permutations(Chains)
=============================================================================
