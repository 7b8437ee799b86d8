------------------------------ MODULE MCRunFlow ------------------------------
(* Instances of RunFlow for TLC: the runs are interchangeable, and so are the *)
(* versions of the credentials.                                              *)
EXTENDS RunFlow, TLC

RunSymmetry == Permutations(Runs) \cup Permutations(Versions)
=============================================================================
