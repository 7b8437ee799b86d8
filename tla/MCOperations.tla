---------------------------- MODULE MCOperations ----------------------------
(* Instances of Operations for TLC.  The calls of one agent meet under one *)
(* key and under one ID; a second agent uses the same ID.                  *)
EXTENDS Operations, TLC

CONSTANTS a1, a2, i1, i2, k1

MCSubmissions ==
  {[kind |-> "use", agent |-> a1, id |-> i1, key |-> k1],
   [kind |-> "use", agent |-> a1, id |-> i2, key |-> k1],
   [kind |-> "access", agent |-> a1, id |-> i1, key |-> NoKey],
   [kind |-> "once", agent |-> a1, id |-> i2, key |-> NoKey],
   [kind |-> "change", agent |-> a2, id |-> i1, key |-> NoKey]}

\* A use of a credential only.
MCUses == {[kind |-> "use", agent |-> a1, id |-> i1, key |-> k1]}

MCUntracked == {[kind |-> "use", agent |-> a1]}

MCQuestions ==
  {[kind |-> "cancel", agent |-> a1, id |-> i1],
   [kind |-> "cancel", agent |-> a1, id |-> i2],
   [kind |-> "status", agent |-> a1, id |-> i1],
   [kind |-> "cancel", agent |-> a2, id |-> i1]}

OperationsSymmetry == Permutations(Calls) \cup Permutations(Inquiries)
=============================================================================
