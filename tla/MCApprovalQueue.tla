-------------------------- MODULE MCApprovalQueue --------------------------
(* Instances of ApprovalQueue for TLC: the calls are interchangeable. *)
EXTENDS ApprovalQueue, TLC

CallSymmetry == Permutations(Calls)
=============================================================================
