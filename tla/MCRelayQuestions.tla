-------------------------- MODULE MCRelayQuestions --------------------------
(* RelayQuestions for TLC. *)
EXTENDS RelayQuestions

CONSTANT d1

SignedAs(d, t, choice) == [device |-> d, time |-> t, choice |-> choice]

\* A correction, and an approval that was signed before it.
TwoAnswers == {SignedAs(d1, 2, "correct"), SignedAs(d1, 1, "approved")}
=============================================================================
