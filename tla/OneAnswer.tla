------------------------------ MODULE OneAnswer ------------------------------
(***************************************************************************)
(* What the approval queue promises about each question, without its       *)
(* threads and locks: a question waits once, gets at most one answer, and  *)
(* the answer starts at most one call; nothing brings back a question or   *)
(* an answer that ended.                                                   *)
(***************************************************************************)
CONSTANTS Ids, Calls

VARIABLES
  status,   \* of each question
  takers    \* the calls that got the answer to each question

States == {"unasked", "waiting", "answered", "taken", "ended"}

Init ==
  /\ status = [id \in Ids |-> "unasked"]
  /\ takers = [id \in Ids |-> {}]

\* A new question; the one that it replaces ends with it.
Ask(id, old) ==
  /\ status[id] = "unasked"
  /\ \A o \in old : status[o] = "waiting"
  /\ status' = [i \in Ids |-> IF i = id THEN "waiting"
                              ELSE IF i \in old THEN "ended" ELSE status[i]]
  /\ UNCHANGED takers

Answer(id) ==
  /\ status[id] = "waiting"
  /\ status' = [status EXCEPT ![id] = "answered"]
  /\ UNCHANGED takers

Take(id, c) ==
  /\ status[id] = "answered"
  /\ \A i \in Ids : c \notin takers[i]
  /\ status' = [status EXCEPT ![id] = "taken"]
  /\ takers' = [takers EXCEPT ![id] = {c}]

\* Questions end without an answer, or their answers become void.
End(S) ==
  /\ \A id \in S : status[id] \in {"waiting", "answered"}
  /\ status' = [id \in Ids |-> IF id \in S THEN "ended" ELSE status[id]]
  /\ UNCHANGED takers

Next ==
  \/ \E id \in Ids : \E old \in SUBSET (Ids \ {id}) : Ask(id, old)
  \/ \E id \in Ids : Answer(id)
  \/ \E id \in Ids, c \in Calls : Take(id, c)
  \/ \E S \in SUBSET Ids : End(S)

Spec == Init /\ [][Next]_<<status, takers>>
=============================================================================
