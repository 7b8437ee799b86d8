------------------------ MODULE ApprovalQueueProofs ------------------------
(***************************************************************************)
(* Proofs about the approval queue for any number of calls, agents,        *)
(* sessions, requests, credentials and devices.                            *)
(***************************************************************************)
EXTENDS ApprovalQueue, FiniteSetTheorems, TLAPS

(***************************************************************************)
(* The helpers on maps.                                                    *)
(***************************************************************************)

\* Put adds or changes one entry (the insert of a BTreeMap).
LEMMA PutFacts ==
  ASSUME NEW f, NEW id, NEW v
  PROVE  /\ DOMAIN Put(f, id, v) = DOMAIN f \cup {id}
         /\ Put(f, id, v)[id] = v
         /\ \A i \in DOMAIN f \ {id} : Put(f, id, v)[i] = f[i]
BY DEF Put

\* Without removes entries and keeps the others (retain and remove).
LEMMA WithoutFacts ==
  ASSUME NEW f, NEW S
  PROVE  /\ DOMAIN Without(f, S) = DOMAIN f \ S
         /\ \A i \in DOMAIN f \ S : Without(f, S)[i] = f[i]
BY DEF Without, Restrict

\* Put keeps the type of the values of a map.
LEMMA PutType ==
  ASSUME NEW T, NEW f, f \in [DOMAIN f -> T], NEW id, NEW v \in T
  PROVE  Put(f, id, v) \in [DOMAIN Put(f, id, v) -> T]
BY DEF Put

\* Without keeps the type of the values of a map.
LEMMA WithoutType ==
  ASSUME NEW T, NEW f, f \in [DOMAIN f -> T], NEW S
  PROVE  Without(f, S) \in [DOMAIN Without(f, S) -> T]
BY DEF Without, Restrict

\* The empty map is a part of every map (clear).
LEMMA EmptySubmap ==
  ASSUME NEW f
  PROVE  /\ DOMAIN <<>> \subseteq DOMAIN f
         /\ \A i \in DOMAIN <<>> : <<>>[i] = f[i]
<1>1. DOMAIN <<>> = {}
  OBVIOUS
<1> QED BY <1>1

\* The keys of a map stay run IDs.
LEMMA KeysInNat ==
  ASSUME NEW f, DOMAIN f \in SUBSET Nat, NEW S, NEW id \in Nat, NEW v
  PROVE  /\ DOMAIN Without(f, S) \in SUBSET Nat
         /\ DOMAIN Put(f, id, v) \in SUBSET Nat
<1>1. DOMAIN Without(f, S) = DOMAIN f \ S
  BY WithoutFacts
<1>2. DOMAIN Put(f, id, v) = DOMAIN f \cup {id}
  BY PutFacts
<1> QED BY <1>1, <1>2

(***************************************************************************)
(* Type correctness.                                                       *)
(***************************************************************************)

\* note_end keeps only ends of runs.
LEMMA NoteEndsType ==
  ASSUME TypeOK, NEW S, NEW outcome \in Outcomes, NoteEnds(S, outcome)
  PROVE  ended' \in SUBSET [id : Nat, outcome : Outcomes]
BY DEF NoteEnds, TypeOK

\* Runs that leave the queue keep the types of what is left.
LEMMA WithdrawType ==
  ASSUME TypeOK, NEW S, Withdraw(S)
  PROVE  /\ pending' \in SUBSET Nat
         /\ DOMAIN questions' \in SUBSET Nat
         /\ questions' \in [DOMAIN questions' -> Questions]
         /\ DOMAIN answerDevices' \in SUBSET Nat
         /\ answerDevices' \in [DOMAIN answerDevices' -> Devices]
<1>1. /\ DOMAIN questions' = DOMAIN questions \ S
      /\ DOMAIN answerDevices' = DOMAIN answerDevices \ S
  BY WithoutFacts DEF Withdraw
<1>2. questions' \in [DOMAIN questions' -> Questions]
  BY WithoutType DEF Withdraw, TypeOK
<1>3. answerDevices' \in [DOMAIN answerDevices' -> Devices]
  BY WithoutType DEF Withdraw, TypeOK
<1> QED BY <1>1, <1>2, <1>3 DEF Withdraw, TypeOK

\* A call that returns has a typed result.
LEMMA ReturnType ==
  ASSUME TypeOK, NEW c \in Calls,
         NEW outcome \in Outcomes \cup {"none", "busy", "superseded"},
         NEW of \in Asks \cup {NoAsk}, Return(c, outcome, of)
  PROVE  /\ pc' \in [Calls -> {"idle", "look", "check", "invalid", "done"}]
         /\ result' \in [Calls ->
              [outcome : Outcomes \cup {"none", "busy", "superseded"},
               of : Asks \cup {NoAsk}]]
BY DEF Return, TypeOK

\* An answer is kept with a typed decision about the question that waits.
LEMMA SettleType ==
  ASSUME TypeOK, QueueCoherent, NEW id \in pending, NEW answer \in Answers,
         NEW by \in Devices \cup {Mac}, Settle(id, answer, by)
  PROVE  /\ pending' \in SUBSET Nat
         /\ DOMAIN questions' \in SUBSET Nat
         /\ questions' \in [DOMAIN questions' -> Questions]
         /\ DOMAIN answerDevices' \in SUBSET Nat
         /\ answerDevices' \in [DOMAIN answerDevices' -> Devices]
         /\ DOMAIN decisions' \in SUBSET Nat
         /\ decisions' \in [DOMAIN decisions' -> Decisions]
         /\ ended' \in SUBSET [id : Nat, outcome : Outcomes]
<1> DEFINE d == [answer |-> answer, of |-> questions[id].of,
                 answeredOn |-> IF id \in DOMAIN answerDevices
                                  THEN answerDevices[id] ELSE Mac,
                 by |-> by]
<1>1. questions[id].of \in Asks
  BY DEF TypeOK, QueueCoherent, Questions
<1>2. (IF id \in DOMAIN answerDevices THEN answerDevices[id] ELSE Mac)
        \in Devices \cup {Mac}
  BY DEF TypeOK
<1>3. d \in Decisions
  BY <1>1, <1>2 DEF Decisions
<1>4. decisions' = Put(decisions, id, d)
  BY DEF Settle
<1> HIDE DEF d
<1>5. decisions' \in [DOMAIN decisions' -> Decisions]
  BY <1>3, <1>4, PutType DEF TypeOK
<1>6. DOMAIN decisions' \in SUBSET Nat
  <2>1. DOMAIN decisions' = DOMAIN decisions \cup {id}
    BY <1>4, PutFacts
  <2> QED BY <2>1 DEF TypeOK
<1>7. answer \in Outcomes
  BY DEF Answers, Outcomes
<1> QED BY <1>5, <1>6, <1>7, WithdrawType, NoteEndsType DEF Settle

LEMMA InitInv == Init => QueueInv
BY ConstantsAssumption DEF Init, QueueInv, TypeOK, QueueCoherent,
  OneQuestionPerAgent, TicketsMatch, AnswersUsed, OneAnswerOneRun,
  AnswerCoversCall, Waiting, IdleWorker, NoTicket, NoResult, Answers, Outcomes

\* Entering the queue keeps the types: wait() up to its loop.
LEMMA EnterType ==
  ASSUME TypeOK, QueueCoherent, NEW c \in Calls, NEW q \in Asks, Enter(c, q)
  PROVE  TypeOK'
<1> DEFINE new == [of |-> q, turn |-> 0, due |-> FALSE]
<1>1. new \in Questions
  BY DEF Questions
<1>2. nextId \in Nat /\ nextId + 1 \in Nat /\ generation \in Nat
  BY DEF TypeOK
<1>3. CASE EnterRefused(c, q)
  BY <1>3, ReturnType DEF EnterRefused, TypeOK, queueVars, Outcomes
<1>4. CASE EnterBusy(c, q)
  BY <1>4, ReturnType DEF EnterBusy, TypeOK, queueVars
<1>5. ASSUME NEW id \in Nat, NEW turn \in Nat, Waits(c, q, id, turn)
      PROVE  /\ pc' \in [Calls -> {"idle", "look", "check", "invalid", "done"}]
             /\ ask' \in [Calls -> Asks \cup {NoAsk}]
             /\ ticket' \in [Calls -> [id : Nat, turn : Nat, generation : Nat]]
  BY <1>2, <1>5 DEF Waits, TypeOK
<1>6. CASE Join(c, q)
  <2>1. PICK id \in AskedBy(q.agent) :
          /\ questions' = [questions EXCEPT ![id].turn = @ + 1]
          /\ Waits(c, q, id, questions[id].turn + 1)
    BY <1>6 DEF Join
  <2>2. id \in DOMAIN questions /\ id \in Nat
    BY DEF AskedBy, TypeOK
  <2>3. questions[id] \in Questions
    BY <2>2 DEF TypeOK
  <2>4. questions[id].turn + 1 \in Nat
    BY <2>3 DEF Questions
  <2>5. questions' \in [DOMAIN questions' -> Questions]
        /\ DOMAIN questions' = DOMAIN questions
    BY <2>1, <2>2, <2>3, <2>4 DEF TypeOK, Questions
  <2> QED BY <1>5, <1>6, <2>1, <2>2, <2>4, <2>5 DEF Join, Waits, TypeOK
<1>7. CASE AskNew(c, q)
  <2>1. questions' = Put(questions, nextId + 1, new)
    BY <1>7 DEF AskNew
  <2>2. questions' \in [DOMAIN questions' -> Questions]
    BY <1>1, <2>1, PutType DEF TypeOK
  <2>3. DOMAIN questions' \in SUBSET Nat
    BY <1>2, <2>1, KeysInNat DEF TypeOK
  <2> QED BY <1>2, <1>5, <1>7, <2>2, <2>3 DEF AskNew, Waits, TypeOK
<1>8. CASE Replace(c, q)
  <2>1. PICK old \in AskedBy(q.agent) :
          /\ NoteEnds({old}, "invalidated")
          /\ pending' = (pending \ {old}) \cup {nextId + 1}
          /\ questions' = Put(Without(questions, {old}), nextId + 1, new)
          /\ answerDevices' = Without(answerDevices, {old})
          /\ replaced' = replaced \cup {old}
    BY <1>8 DEF Replace
  <2>2. Without(questions, {old})
          \in [DOMAIN Without(questions, {old}) -> Questions]
    BY WithoutType DEF TypeOK
  <2>3. questions' \in [DOMAIN questions' -> Questions]
    BY <1>1, <2>1, <2>2, PutType
  <2>4. /\ DOMAIN questions' \in SUBSET Nat
        /\ DOMAIN answerDevices' \in SUBSET Nat
    <3>1. DOMAIN Without(questions, {old}) \in SUBSET Nat
      BY KeysInNat DEF TypeOK
    <3> QED BY <1>2, <2>1, <3>1, KeysInNat DEF TypeOK
  <2>5. answerDevices' \in [DOMAIN answerDevices' -> Devices]
    BY <2>1, WithoutType DEF TypeOK
  <2>6. ended' \in SUBSET [id : Nat, outcome : Outcomes]
    BY <2>1, NoteEndsType DEF Outcomes
  <2>7. old \in Nat
    BY DEF AskedBy, TypeOK
  <2>8. /\ pc' \in [Calls -> {"idle", "look", "check", "invalid", "done"}]
        /\ ask' \in [Calls -> Asks \cup {NoAsk}]
        /\ ticket' \in [Calls -> [id : Nat, turn : Nat, generation : Nat]]
    BY <1>2, <1>5, <1>8 DEF Replace
  <2> QED
    BY <1>2, <1>8, <2>1, <2>3, <2>4, <2>5, <2>6, <2>7, <2>8
    DEF Replace, Waits, TypeOK
<1> QED BY <1>3, <1>4, <1>6, <1>7, <1>8 DEF Enter

\* The turns of a waiting call keep the types.
LEMMA CallStepsType ==
  ASSUME TypeOK, QueueCoherent, NEW c \in Calls, CallSteps(c)
  PROVE  TypeOK'
<1> USE DEF Outcomes
<1>1. ASSUME Void(c) PROVE TypeOK'
  <2>1. decisions' \in [DOMAIN decisions' -> Decisions]
    BY <1>1, WithoutType DEF Void, TypeOK
  <2>2. DOMAIN decisions' \in SUBSET Nat
    <3>1. decisions' = Without(decisions, {ticket[c].id})
      BY <1>1 DEF Void
    <3> QED BY <3>1, KeysInNat DEF TypeOK
  <2> QED BY <1>1, <2>1, <2>2, ReturnType, WithdrawType, NoteEndsType
          DEF Void, Forget, TypeOK
<1>2. CASE LookReplaced(c)
  BY <1>2, ReturnType DEF LookReplaced, TypeOK
<1>3. CASE LookSuperseded(c)
  BY <1>3, ReturnType DEF LookSuperseded, TypeOK, queueVars
<1>4. CASE LookTake(c)
  <2> DEFINE d == decisions[ticket[c].id]
  <2>1. d \in Decisions
    BY <1>4 DEF LookTake, TypeOK
  <2>2. /\ d.answer \in Outcomes \cup {"none", "busy", "superseded"}
        /\ d.of \in Asks \cup {NoAsk}
    BY <2>1 DEF Decisions, Answers
  <2>3. Return(c, d.answer, d.of)
    BY <1>4 DEF LookTake
  <2>4. decisions' \in [DOMAIN decisions' -> Decisions]
    BY <1>4, WithoutType DEF LookTake, TypeOK
  <2>5. DOMAIN decisions' \in SUBSET Nat
    <3>1. decisions' = Without(decisions, {ticket[c].id})
      BY <1>4 DEF LookTake
    <3> QED BY <3>1, KeysInNat DEF TypeOK
  <2>6. /\ pc' \in [Calls -> {"idle", "look", "check", "invalid", "done"}]
        /\ result' \in [Calls ->
             [outcome : Outcomes \cup {"none", "busy", "superseded"},
              of : Asks \cup {NoAsk}]]
    <3> HIDE DEF d
    <3> QED BY <2>2, <2>3, ReturnType
  <2> QED BY <1>4, <2>4, <2>5, <2>6 DEF LookTake, TypeOK
<1>5. CASE LookGone(c)
  BY <1>5, ReturnType DEF LookGone, TypeOK, queueVars
<1>6. CASE LookTimedOut(c)
  BY <1>6, ReturnType, WithdrawType, NoteEndsType
  DEF LookTimedOut, Forget, TypeOK
<1>7. CASE LookWaits(c)
  BY <1>7 DEF LookWaits, TypeOK, queueVars
<1>8. ASSUME NEW valid \in BOOLEAN, Revalidate(c, valid)
      PROVE  TypeOK'
  BY <1>8 DEF Revalidate, TypeOK, queueVars
<1>9. CASE InvalidSuperseded(c)
  BY <1>9, ReturnType DEF InvalidSuperseded, TypeOK
<1> QED BY <1>1, <1>2, <1>3, <1>4, <1>5, <1>6, <1>7, <1>8, <1>9
        DEF CallSteps, Look, LookInvalidated, InvalidEnds

\* The owner and the questions worker keep the types.
LEMMA OwnerType ==
  ASSUME TypeOK, QueueCoherent, OwnerNext
  PROVE  TypeOK'
<1> USE DEF Answers
<1>1. ASSUME NEW id \in pending, NEW s \in Sessions, MacApproves(id, s)
      PROVE  TypeOK'
  BY <1>1, SettleType DEF MacApproves, Approve, TypeOK, callVars
<1>2. ASSUME NEW id \in pending, MacDenies(id)
      PROVE  TypeOK'
  BY <1>2, SettleType DEF MacDenies, Deny, TypeOK, callVars
<1>3. ASSUME NEW id \in 1..nextId, NEW d \in Devices, NoteAnswerDevice(id, d)
      PROVE  TypeOK'
  <2>1. id \in Nat
    BY DEF TypeOK
  <2>2. /\ answerDevices' \in [DOMAIN answerDevices' -> Devices]
        /\ DOMAIN answerDevices' \in SUBSET Nat
    <3>1. CASE id \in pending
      <4>1. answerDevices' = Put(answerDevices, id, d)
        BY <1>3, <3>1 DEF NoteAnswerDevice
      <4> QED BY <2>1, <4>1, PutType, KeysInNat DEF TypeOK
    <3>2. CASE id \notin pending
      BY <1>3, <3>2 DEF NoteAnswerDevice, TypeOK
    <3> QED BY <3>1, <3>2
  <2> QED BY <1>3, <2>1, <2>2 DEF NoteAnswerDevice, TypeOK, callVars
<1>4. ASSUME NEW s \in Sessions, WorkerAnswers(s)
      PROVE  TypeOK'
  <2>1. /\ worker.id \in pending
        /\ worker.device \in Devices \cup {Mac}
        /\ \/ Settle(worker.id, "approved", worker.device)
           \/ Settle(worker.id, "denied", worker.device)
    BY <1>4 DEF WorkerAnswers, Approve, Deny, TypeOK
  <2>2. worker' \in [at : {"idle", "noted", "answered"}, id : Nat,
                     device : Devices \cup {Mac}]
    BY <1>4 DEF WorkerAnswers, TypeOK
  <2> QED BY <1>4, <2>1, <2>2, SettleType DEF WorkerAnswers, TypeOK, callVars
<1>5. CASE ForgetAnswerDevice
  <2>1. answerDevices' \in [DOMAIN answerDevices' -> Devices]
    BY <1>5, WithoutType DEF ForgetAnswerDevice, TypeOK
  <2>2. DOMAIN answerDevices' \in SUBSET Nat
    <3>1. answerDevices' = Without(answerDevices, {worker.id})
      BY <1>5 DEF ForgetAnswerDevice
    <3> QED BY <3>1, KeysInNat DEF TypeOK
  <2> QED BY <1>5, <2>1, <2>2
          DEF ForgetAnswerDevice, TypeOK, callVars, IdleWorker
<1>6. CASE TakeEnded
  BY <1>6 DEF TakeEnded, TypeOK, callVars
<1> QED BY <1>1, <1>2, <1>3, <1>4, <1>5, <1>6 DEF OwnerNext

\* A lock, a stop, a cancel and a deadline keep the types.
LEMMA SystemType ==
  ASSUME TypeOK, SystemNext
  PROVE  TypeOK'
<1>1. ASSUME EndEverything, stopper' \in {"open", "closing", "closed"}
      PROVE  TypeOK'
  <2>1. decisions' = <<>> /\ DOMAIN decisions' = {}
    BY <1>1 DEF EndEverything
  <2>2. decisions' \in [DOMAIN decisions' -> Decisions]
    BY <2>1
  <2> QED BY <1>1, <2>1, <2>2, WithdrawType, NoteEndsType
          DEF EndEverything, TypeOK, callVars, Outcomes
<1>2. CASE InvalidateAll
  BY <1>1, <1>2 DEF InvalidateAll, TypeOK
<1>3. CASE CloseFlag
  BY <1>3 DEF CloseFlag, TypeOK, callVars
<1>4. CASE CloseInvalidates
  BY <1>1, <1>4 DEF CloseInvalidates
<1>5. ASSUME NEW c \in Calls, Cancel(c) \/ OperationInvalidated(c)
      PROVE  TypeOK'
  BY <1>5 DEF Cancel, OperationInvalidated, TypeOK, callVars, queueVars
<1>6. ASSUME NEW id \in DOMAIN questions, DeadlinePasses(id)
      PROVE  TypeOK'
  <2>1. questions' = [questions EXCEPT ![id].due = TRUE]
    BY <1>6 DEF DeadlinePasses
  <2>2. questions[id] \in Questions
    BY DEF TypeOK
  <2>3. [questions[id] EXCEPT !.due = TRUE] \in Questions
    BY <2>2 DEF Questions
  <2>4. /\ questions' \in [DOMAIN questions' -> Questions]
        /\ DOMAIN questions' = DOMAIN questions
    BY <2>1, <2>3 DEF TypeOK
  <2> QED BY <1>6, <2>4 DEF DeadlinePasses, TypeOK, callVars
<1> QED BY <1>2, <1>3, <1>4, <1>5, <1>6 DEF SystemNext

(***************************************************************************)
(* The safety part of the invariant.  Most steps only take runs out of the *)
(* queue and let calls return without an answer; one lemma covers them.    *)
(***************************************************************************)

SafeInv ==
  /\ QueueCoherent
  /\ OneQuestionPerAgent
  /\ TicketsMatch
  /\ AnswersUsed
  /\ OneAnswerOneRun
  /\ AnswerCoversCall

\* Nothing enters the queue, and what stays is about the same calls.
QueueShrinks ==
  /\ nextId' = nextId
  /\ pending' \subseteq pending
  /\ DOMAIN questions' = pending'
  /\ \A i \in pending' : questions'[i].of = questions[i].of
  /\ DOMAIN decisions' \subseteq DOMAIN decisions
  /\ \A i \in DOMAIN decisions' : decisions'[i].of = decisions[i].of
  /\ replaced' \subseteq replaced

\* No call starts to wait, and no call gets or loses an answer.
NoAnswerGiven ==
  \A c \in Calls :
    /\ ticket'[c] = ticket[c]
    /\ Waiting(c)' => Waiting(c) /\ ask'[c] = ask[c]
    /\ result'[c].outcome \in Answers \/ result[c].outcome \in Answers =>
         result'[c] = result[c] /\ pc'[c] = pc[c] /\ ask'[c] = ask[c]

Shrinks == QueueShrinks /\ NoAnswerGiven

\* A step that only shrinks the queue and answers nobody keeps the invariant.
LEMMA ShrinkSafe ==
  ASSUME TypeOK, SafeInv, Shrinks
  PROVE  SafeInv'
<1> USE DEF SafeInv, Shrinks, QueueShrinks, NoAnswerGiven
<1>1. QueueCoherent'
  BY DEF QueueCoherent
<1>2. OneQuestionPerAgent'
  BY DEF OneQuestionPerAgent, QueueCoherent
<1>3. TicketsMatch'
  BY DEF TicketsMatch, QueueCoherent
<1>4. AnswersUsed'
  BY DEF AnswersUsed
<1>5. OneAnswerOneRun'
  BY DEF OneAnswerOneRun
<1>6. AnswerCoversCall'
  BY DEF AnswerCoversCall
<1> QED BY <1>1, <1>2, <1>3, <1>4, <1>5, <1>6

\* Runs that leave the queue only shrink it.
LEMMA WithdrawShrinks ==
  ASSUME SafeInv, NEW S, Withdraw(S), nextId' = nextId,
         replaced' \subseteq replaced,
         \/ decisions' = decisions
         \/ decisions' = <<>>
         \/ \E T : decisions' = Without(decisions, T)
  PROVE  QueueShrinks
<1>1. /\ DOMAIN questions' = DOMAIN questions \ S
      /\ \A i \in DOMAIN questions \ S : questions'[i] = questions[i]
  BY WithoutFacts DEF Withdraw
<1> DEFINE part == /\ DOMAIN decisions' \subseteq DOMAIN decisions
                   /\ \A i \in DOMAIN decisions' : decisions'[i] = decisions[i]
<1>2. part
  <2>1. CASE decisions' = decisions
    BY <2>1
  <2>2. CASE decisions' = <<>>
    BY <2>2, EmptySubmap
  <2>3. ASSUME NEW T, decisions' = Without(decisions, T)
        PROVE  part
    <3>1. /\ DOMAIN Without(decisions, T) = DOMAIN decisions \ T
          /\ \A i \in DOMAIN decisions \ T :
               Without(decisions, T)[i] = decisions[i]
      BY WithoutFacts
    <3> QED BY <2>3, <3>1
  <2> QED BY <2>1, <2>2, <2>3
<1> QED BY <1>1, <1>2 DEF QueueShrinks, Withdraw, SafeInv, QueueCoherent

\* A call that returns without an answer gives none.
LEMMA ReturnNoAnswer ==
  ASSUME TypeOK, NEW c \in Calls, NEW outcome, NEW of,
         outcome \notin Answers, result[c].outcome \notin Answers,
         Return(c, outcome, of), ticket' = ticket,
         \A d \in Calls \ {c} : ask'[d] = ask[d]
  PROVE  NoAnswerGiven
BY DEF NoAnswerGiven, Return, TypeOK, Waiting

\* A call gets its answer: the answer leaves the queue.
LEMMA TakeSafe ==
  ASSUME TypeOK, SafeInv, NEW c \in Calls, LookTake(c)
  PROVE  SafeInv'
<1> USE DEF Answers
<1> DEFINE id == ticket[c].id
           d == decisions[id]
<1>1. /\ Waiting(c) /\ pc[c] = "look"
      /\ id \in DOMAIN decisions
  BY DEF LookTake, Current, NotReplaced, Waiting
<1>2. /\ d.of = ask[c] /\ id \in 1..nextId
  BY <1>1 DEF SafeInv, TicketsMatch
<1>3. /\ pc' = [pc EXCEPT ![c] = "done"]
      /\ result'[c].of = d.of
      /\ \A x \in Calls \ {c} : result'[x] = result[x]
      /\ UNCHANGED <<nextId, pending, questions, replaced, ask, ticket>>
  BY DEF LookTake, Return, TypeOK
<1>4. /\ DOMAIN decisions' = DOMAIN decisions \ {id}
      /\ \A i \in DOMAIN decisions \ {id} : decisions'[i] = decisions[i]
  BY WithoutFacts DEF LookTake
<1>5. /\ pc'[c] = "done"
      /\ \A x \in Calls \ {c} : pc'[x] = pc[x]
  BY <1>3 DEF TypeOK
<1> HIDE DEF d
<1>6. QueueCoherent'
  BY <1>3, <1>4 DEF SafeInv, QueueCoherent
<1>7. OneQuestionPerAgent'
  BY <1>3 DEF SafeInv, OneQuestionPerAgent
<1>8. TicketsMatch'
  BY <1>3, <1>4, <1>5 DEF SafeInv, TicketsMatch, Waiting
<1>9. id \notin pending
  BY <1>1 DEF SafeInv, QueueCoherent
<1>10. AnswersUsed'
  BY <1>2, <1>3, <1>4, <1>5, <1>9 DEF SafeInv, AnswersUsed
<1>11. OneAnswerOneRun'
  BY <1>1, <1>3 DEF SafeInv, OneAnswerOneRun, AnswersUsed
<1>12. AnswerCoversCall'
  BY <1>2, <1>3 DEF SafeInv, AnswerCoversCall
<1> QED BY <1>6, <1>7, <1>8, <1>10, <1>11, <1>12 DEF SafeInv

\* Any other turn of a waiting call only shrinks the queue.
LEMMA CallStepsShrink ==
  ASSUME TypeOK, SafeInv, NEW c \in Calls, CallSteps(c), ~LookTake(c)
  PROVE  Shrinks
<1> USE DEF Answers, Shrinks
<1>0. ASSUME UNCHANGED <<nextId, pending, questions, decisions>>,
             replaced' \subseteq replaced
      PROVE  QueueShrinks
  BY <1>0 DEF QueueShrinks, SafeInv, QueueCoherent
<1>1. result[c].outcome \notin Answers
  BY DEF CallSteps, Look, LookReplaced, LookInvalidated, LookSuperseded,
         LookTake, LookGone, LookTimedOut, LookWaits, Revalidate,
         InvalidSuperseded, InvalidEnds, StillAsks, Current, NotReplaced,
         SafeInv, AnswersUsed
<1>2. CASE Void(c)
  <2>1. QueueShrinks
    BY <1>2, WithdrawShrinks DEF Void, Forget
  <2>2. NoAnswerGiven
    BY <1>1, <1>2, ReturnNoAnswer DEF Void
  <2> QED BY <2>1, <2>2
<1>3. CASE LookReplaced(c)
  BY <1>0, <1>1, <1>3, ReturnNoAnswer DEF LookReplaced
<1>4. CASE LookSuperseded(c)
  BY <1>0, <1>1, <1>4, ReturnNoAnswer DEF LookSuperseded, queueVars
<1>5. CASE LookGone(c)
  BY <1>0, <1>1, <1>5, ReturnNoAnswer DEF LookGone, queueVars
<1>6. CASE LookTimedOut(c)
  <2>1. QueueShrinks
    BY <1>6, WithdrawShrinks DEF LookTimedOut, Forget
  <2>2. NoAnswerGiven
    BY <1>1, <1>6, ReturnNoAnswer DEF LookTimedOut
  <2> QED BY <2>1, <2>2
<1>7. CASE LookWaits(c)
  <2>1. NoAnswerGiven
    BY <1>1, <1>7 DEF LookWaits, NoAnswerGiven, TypeOK, Waiting, StillAsks,
                      Current, NotReplaced
  <2> QED BY <1>0, <1>7, <2>1 DEF LookWaits, queueVars
<1>8. ASSUME NEW valid \in BOOLEAN, Revalidate(c, valid)
      PROVE  Shrinks
  <2>1. NoAnswerGiven
    BY <1>1, <1>8 DEF Revalidate, NoAnswerGiven, TypeOK, Waiting
  <2> QED BY <1>0, <1>8, <2>1 DEF Revalidate, queueVars
<1>9. CASE InvalidSuperseded(c)
  BY <1>0, <1>1, <1>9, ReturnNoAnswer DEF InvalidSuperseded
<1> QED BY <1>2, <1>3, <1>4, <1>5, <1>6, <1>7, <1>8, <1>9
        DEF CallSteps, Look, LookInvalidated, InvalidEnds

\* An answer of the owner moves one run from the queue to the decisions.
LEMMA SettleSafe ==
  ASSUME TypeOK, SafeInv, NEW id \in pending, NEW answer, NEW by,
         Settle(id, answer, by), UNCHANGED <<nextId, replaced, callVars>>
  PROVE  SafeInv'
<1>1. /\ pending' = pending \ {id}
      /\ DOMAIN questions' = DOMAIN questions \ {id}
      /\ \A i \in DOMAIN questions \ {id} : questions'[i] = questions[i]
  BY WithoutFacts DEF Settle, Withdraw
<1>2. /\ DOMAIN decisions' = DOMAIN decisions \cup {id}
      /\ \A i \in DOMAIN decisions \ {id} : decisions'[i] = decisions[i]
      /\ decisions'[id].of = questions[id].of
  <2> DEFINE d == [answer |-> answer, of |-> questions[id].of,
                   answeredOn |-> IF id \in DOMAIN answerDevices
                                    THEN answerDevices[id] ELSE Mac,
                   by |-> by]
  <2>1. decisions' = Put(decisions, id, d) /\ d.of = questions[id].of
    BY DEF Settle
  <2> HIDE DEF d
  <2>2. /\ DOMAIN Put(decisions, id, d) = DOMAIN decisions \cup {id}
        /\ \A i \in DOMAIN decisions \ {id} :
             Put(decisions, id, d)[i] = decisions[i]
        /\ Put(decisions, id, d)[id] = d
    BY DEF Put
  <2> QED BY <2>1, <2>2
<1>3. id \notin DOMAIN decisions /\ id \notin replaced /\ id \in 1..nextId
  BY DEF SafeInv, QueueCoherent
<1>4. UNCHANGED <<nextId, replaced, pc, ask, ticket, result>>
  BY DEF callVars
<1>5. QueueCoherent'
  BY <1>1, <1>2, <1>3, <1>4 DEF SafeInv, QueueCoherent
<1>6. OneQuestionPerAgent'
  BY <1>1 DEF SafeInv, OneQuestionPerAgent
<1>7. TicketsMatch'
  BY <1>1, <1>2, <1>3, <1>4 DEF SafeInv, TicketsMatch, Waiting, QueueCoherent
<1>8. AnswersUsed'
  BY <1>1, <1>2, <1>4 DEF SafeInv, AnswersUsed
<1>9. OneAnswerOneRun' /\ AnswerCoversCall'
  BY <1>4 DEF SafeInv, OneAnswerOneRun, AnswerCoversCall
<1> QED BY <1>5, <1>6, <1>7, <1>8, <1>9 DEF SafeInv

\* The owner's or a device's answer to one run.
Settles ==
  \E id \in pending, answer \in Answers : \E by :
    /\ Settle(id, answer, by)
    /\ UNCHANGED <<nextId, replaced, callVars>>

\* The owner and the questions worker answer one run or touch none.
LEMMA OwnerKinds ==
  ASSUME TypeOK, SafeInv, OwnerNext
  PROVE  Settles \/ Shrinks
<1> USE DEF Answers
<1>1. ASSUME UNCHANGED <<nextId, pending, questions, decisions, replaced,
                         callVars>>
      PROVE  Shrinks
  BY <1>1 DEF Shrinks, QueueShrinks, NoAnswerGiven, SafeInv, QueueCoherent,
              Waiting, callVars
<1>2. ASSUME NEW id \in pending, NEW s \in Sessions, MacApproves(id, s)
      PROVE  Settles
  BY <1>2 DEF MacApproves, Approve, Settles
<1>3. ASSUME NEW id \in pending, MacDenies(id)
      PROVE  Settles
  BY <1>3 DEF MacDenies, Deny, Settles
<1>4. ASSUME NEW id, NEW d, NoteAnswerDevice(id, d)
      PROVE  Shrinks
  BY <1>1, <1>4 DEF NoteAnswerDevice
<1>5. ASSUME NEW s \in Sessions, WorkerAnswers(s)
      PROVE  Settles
  BY <1>5 DEF WorkerAnswers, Approve, Deny, Settles
<1>6. CASE ForgetAnswerDevice
  BY <1>1, <1>6 DEF ForgetAnswerDevice
<1>7. CASE TakeEnded
  BY <1>1, <1>7 DEF TakeEnded
<1> QED BY <1>2, <1>3, <1>4, <1>5, <1>6, <1>7 DEF OwnerNext

\* A lock, a stop, a cancel and a deadline only shrink the queue.
LEMMA SystemShrinks ==
  ASSUME TypeOK, SafeInv, SystemNext
  PROVE  Shrinks
<1> USE DEF Shrinks
<1>1. ASSUME UNCHANGED callVars
      PROVE  NoAnswerGiven
  BY <1>1 DEF NoAnswerGiven, Waiting, callVars
<1>2. ASSUME EndEverything
      PROVE  Shrinks
  <2>1. QueueShrinks
    BY <1>2, WithdrawShrinks DEF EndEverything
  <2>2. NoAnswerGiven
    BY <1>1, <1>2 DEF EndEverything
  <2> QED BY <2>1, <2>2
<1>3. CASE InvalidateAll
  BY <1>2, <1>3 DEF InvalidateAll
<1>4. CASE CloseFlag
  <2>1. QueueShrinks
    BY <1>4 DEF CloseFlag, QueueShrinks, SafeInv, QueueCoherent
  <2>2. NoAnswerGiven
    BY <1>1, <1>4 DEF CloseFlag
  <2> QED BY <2>1, <2>2
<1>5. CASE CloseInvalidates
  BY <1>2, <1>5 DEF CloseInvalidates
<1>6. ASSUME NEW c \in Calls, Cancel(c) \/ OperationInvalidated(c)
      PROVE  Shrinks
  <2>1. QueueShrinks
    BY <1>6 DEF Cancel, OperationInvalidated, queueVars, QueueShrinks,
                SafeInv, QueueCoherent
  <2>2. NoAnswerGiven
    BY <1>1, <1>6 DEF Cancel, OperationInvalidated
  <2> QED BY <2>1, <2>2
<1>7. ASSUME NEW id \in DOMAIN questions, DeadlinePasses(id)
      PROVE  Shrinks
  <2>1. /\ DOMAIN questions' = DOMAIN questions
        /\ \A i \in DOMAIN questions : questions'[i].of = questions[i].of
    <3>1. \A i \in DOMAIN questions : questions[i] \in Questions
      BY DEF TypeOK
    <3> QED BY <1>7, <3>1 DEF DeadlinePasses, Questions
  <2>2. QueueShrinks
    BY <1>7, <2>1 DEF DeadlinePasses, QueueShrinks, SafeInv, QueueCoherent
  <2>3. NoAnswerGiven
    BY <1>1, <1>7 DEF DeadlinePasses
  <2> QED BY <2>2, <2>3
<1> QED BY <1>3, <1>4, <1>5, <1>6, <1>7 DEF SystemNext

\* A call asks with an ID that nobody has seen, in place of the questions old.
Asked(c, q, old) ==
  /\ nextId' = nextId + 1
  /\ old \subseteq pending
  /\ pending' = (pending \ old) \cup {nextId + 1}
  /\ DOMAIN questions' = (DOMAIN questions \ old) \cup {nextId + 1}
  /\ questions'[nextId + 1].of = q /\ questions'[nextId + 1].turn = 0
  /\ \A i \in DOMAIN questions \ old :
       questions'[i] = questions[i] /\ questions[i].of.agent # q.agent
  /\ replaced' = replaced \cup old
  /\ Waits(c, q, nextId + 1, 0)

\* A new question, or one with changed credentials, is asked.
LEMMA EnterAsks ==
  ASSUME TypeOK, SafeInv, NEW c \in Calls, NEW q \in Asks,
         AskNew(c, q) \/ Replace(c, q)
  PROVE  \E old \in SUBSET Nat : Asked(c, q, old)
<1>1. nextId \in Nat /\ nextId + 1 \notin DOMAIN questions
  BY DEF TypeOK, SafeInv, QueueCoherent
<1> DEFINE new == [of |-> q, turn |-> 0, due |-> FALSE]
<1>2. new.of = q /\ new.turn = 0
  OBVIOUS
<1> HIDE DEF new
<1>3. CASE AskNew(c, q)
  <2>1. questions' = Put(questions, nextId + 1, new)
    BY <1>3 DEF AskNew, new
  <2>2. /\ DOMAIN questions' = DOMAIN questions \cup {nextId + 1}
        /\ questions'[nextId + 1] = new
        /\ \A i \in DOMAIN questions \ {nextId + 1} : questions'[i] = questions[i]
    <3> DEFINE id == nextId + 1
    <3> HIDE DEF id
    <3>1. /\ DOMAIN Put(questions, id, new) = DOMAIN questions \cup {id}
          /\ Put(questions, id, new)[id] = new
          /\ \A i \in DOMAIN questions \ {id} :
               Put(questions, id, new)[i] = questions[i]
      BY DEF Put
    <3> QED BY <2>1, <3>1 DEF id
  <2>3. \A i \in DOMAIN questions : questions[i].of.agent # q.agent
    BY <1>3 DEF AskNew, AskedBy
  <2>4. Asked(c, q, {})
    BY <1>1, <1>2, <1>3, <2>2, <2>3 DEF AskNew, Asked
  <2> QED BY <2>4
<1>4. CASE Replace(c, q)
  <2>1. PICK old \in AskedBy(q.agent) :
          /\ pending' = (pending \ {old}) \cup {nextId + 1}
          /\ questions' = Put(Without(questions, {old}), nextId + 1, new)
          /\ replaced' = replaced \cup {old}
    BY <1>4 DEF Replace, new
  <2>2. /\ old \in DOMAIN questions /\ old \in Nat /\ old \in pending
        /\ questions[old].of.agent = q.agent
    BY DEF AskedBy, TypeOK, SafeInv, QueueCoherent
  <2>3. /\ DOMAIN Without(questions, {old}) = DOMAIN questions \ {old}
        /\ \A i \in DOMAIN questions \ {old} :
             Without(questions, {old})[i] = questions[i]
    BY WithoutFacts
  <2>4. /\ DOMAIN questions' = (DOMAIN questions \ {old}) \cup {nextId + 1}
        /\ questions'[nextId + 1] = new
        /\ \A i \in DOMAIN questions \ {old} : questions'[i] = questions[i]
    <3> DEFINE id == nextId + 1
               left == Without(questions, {old})
    <3> HIDE DEF id, left
    <3>1. /\ DOMAIN Put(left, id, new) = DOMAIN left \cup {id}
          /\ Put(left, id, new)[id] = new
          /\ \A i \in DOMAIN left \ {id} : Put(left, id, new)[i] = left[i]
      BY DEF Put
    <3> QED BY <1>1, <2>1, <2>3, <3>1 DEF id, left
  <2>5. \A i \in DOMAIN questions \ {old} : questions[i].of.agent # q.agent
    BY <2>2 DEF SafeInv, OneQuestionPerAgent
  <2>6. nextId' = nextId + 1 /\ Waits(c, q, nextId + 1, 0)
    BY <1>4 DEF Replace
  <2>7. Asked(c, q, {old})
    BY <1>2, <2>1, <2>2, <2>4, <2>5, <2>6 DEF Asked
  <2> QED BY <2>2, <2>7
<1> QED BY <1>3, <1>4

\* A call that waits with a new ticket changes no other call.
LEMMA WaitsFacts ==
  ASSUME TypeOK, NEW c \in Calls, NEW q, NEW id, NEW turn, Waits(c, q, id, turn)
  PROVE  /\ pc'[c] = "look" /\ ask'[c] = q /\ ticket'[c].id = id
         /\ \A d \in Calls \ {c} : /\ pc'[d] = pc[d] /\ ask'[d] = ask[d]
                                  /\ ticket'[d] = ticket[d]
         /\ result' = result /\ decisions' = decisions
BY DEF Waits, TypeOK

\* Its ticket is of the question, of its turn and of the generation.
LEMMA WaitsTicket ==
  ASSUME TypeOK, NEW c \in Calls, NEW q, NEW id, NEW turn, Waits(c, q, id, turn)
  PROVE  ticket'[c] = [id |-> id, turn |-> turn, generation |-> generation]
BY DEF Waits, TypeOK

\* A new question keeps the invariant.
LEMMA AskedSafe ==
  ASSUME TypeOK, SafeInv, NEW c \in Calls, NEW q \in Asks,
         NEW old \in SUBSET Nat, result[c].outcome \notin Answers,
         Asked(c, q, old)
  PROVE  SafeInv'
<1> USE DEF Asked
<1>1. nextId \in Nat
  BY DEF TypeOK
<1>2. /\ pc'[c] = "look" /\ ask'[c] = q /\ ticket'[c].id = nextId + 1
      /\ \A d \in Calls \ {c} : /\ pc'[d] = pc[d] /\ ask'[d] = ask[d]
                               /\ ticket'[d] = ticket[d]
      /\ result' = result /\ decisions' = decisions
  BY WaitsFacts
<1>3. /\ nextId + 1 \notin pending \cup DOMAIN decisions \cup replaced
      /\ 1..(nextId + 1) = (1..nextId) \cup {nextId + 1}
  BY <1>1 DEF SafeInv, QueueCoherent
<1>4. \A d \in Calls : result[d].outcome \in Answers =>
        ticket[d].id # nextId + 1
  BY <1>1 DEF SafeInv, AnswersUsed
<1>5. QueueCoherent'
  <2>1. /\ DOMAIN questions' = pending'
        /\ pending' \cap DOMAIN decisions' = {}
    BY <1>2, <1>3 DEF SafeInv, QueueCoherent
  <2>2. replaced' \cap (pending' \cup DOMAIN decisions') = {}
    BY <1>2, <1>3 DEF SafeInv, QueueCoherent
  <2>3. pending' \cup DOMAIN decisions' \cup replaced' \subseteq 1..nextId'
    BY <1>2, <1>3 DEF SafeInv, QueueCoherent
  <2> QED BY <2>1, <2>2, <2>3 DEF QueueCoherent
<1>6. OneQuestionPerAgent'
  BY DEF SafeInv, OneQuestionPerAgent
<1>7. \A d \in Calls : Waiting(d) => ticket[d].id # nextId + 1
  BY <1>1 DEF SafeInv, TicketsMatch
<1>8. TicketsMatch'
  BY <1>2, <1>3, <1>7 DEF SafeInv, TicketsMatch, Waiting
<1>9. AnswersUsed'
  BY <1>2, <1>3, <1>4 DEF SafeInv, AnswersUsed
<1>10. OneAnswerOneRun' /\ AnswerCoversCall'
  BY <1>2 DEF SafeInv, OneAnswerOneRun, AnswerCoversCall
<1> QED BY <1>5, <1>6, <1>8, <1>9, <1>10 DEF SafeInv

\* A call that joins the question that waits keeps the invariant.
LEMMA JoinSafe ==
  ASSUME TypeOK, SafeInv, NEW c \in Calls, NEW q \in Asks,
         result[c].outcome \notin Answers, Join(c, q)
  PROVE  SafeInv'
<1>1. PICK id \in AskedBy(q.agent) :
        /\ SameRun(id, q)
        /\ questions[id].of.baseline = q.baseline
        /\ questions' = [questions EXCEPT ![id].turn = @ + 1]
        /\ Waits(c, q, id, questions[id].turn + 1)
  BY DEF Join
<1>2. /\ pc'[c] = "look" /\ ask'[c] = q /\ ticket'[c].id = id
      /\ \A d \in Calls \ {c} : /\ pc'[d] = pc[d] /\ ask'[d] = ask[d]
                               /\ ticket'[d] = ticket[d]
      /\ result' = result /\ decisions' = decisions
  BY <1>1, WaitsFacts
<1>3. id \in DOMAIN questions /\ questions[id].of.agent = q.agent
  BY DEF AskedBy
<1>4. \A i \in DOMAIN questions : questions[i] \in Questions
  BY DEF TypeOK
<1>5. questions[id].of = q
  BY <1>1, <1>3, <1>4 DEF SameRun, Questions, Asks
<1>6. /\ DOMAIN questions' = DOMAIN questions
      /\ \A i \in DOMAIN questions : questions'[i].of = questions[i].of
  BY <1>1, <1>4 DEF Questions
<1>7. UNCHANGED <<nextId, pending, replaced>>
  BY DEF Join
<1>8. QueueCoherent' /\ OneQuestionPerAgent'
  BY <1>2, <1>6, <1>7 DEF SafeInv, QueueCoherent, OneQuestionPerAgent
<1>9. id \in 1..nextId /\ id \notin DOMAIN decisions
  BY <1>3 DEF SafeInv, QueueCoherent
<1>10. TicketsMatch'
  BY <1>2, <1>3, <1>5, <1>6, <1>7, <1>9 DEF SafeInv, TicketsMatch, Waiting
<1>11. AnswersUsed'
  BY <1>2, <1>7 DEF SafeInv, AnswersUsed
<1>12. OneAnswerOneRun' /\ AnswerCoversCall'
  BY <1>2 DEF SafeInv, OneAnswerOneRun, AnswerCoversCall
<1> QED BY <1>8, <1>10, <1>11, <1>12 DEF SafeInv

\* A call that enters has no answer yet.
LEMMA EnterUnanswered ==
  ASSUME SafeInv, NEW c \in Calls, NEW q, Enter(c, q)
  PROVE  result[c].outcome \notin Answers
BY DEF Enter, EnterRefused, EnterBusy, Join, AskNew, Replace, Admitted,
       SafeInv, AnswersUsed

\* A call that the queue refuses, or that finds another question of its agent,
\* leaves the queue alone.
LEMMA RefusedShrinks ==
  ASSUME TypeOK, SafeInv, NEW c \in Calls, NEW q \in Asks,
         EnterRefused(c, q) \/ EnterBusy(c, q)
  PROVE  Shrinks
<1>1. QueueShrinks
  BY DEF EnterRefused, EnterBusy, queueVars, QueueShrinks, SafeInv, QueueCoherent
<1>2. result[c].outcome \notin Answers
  BY EnterUnanswered DEF Enter
<1>3. NoAnswerGiven
  BY <1>2, ReturnNoAnswer DEF EnterRefused, EnterBusy, Answers, TypeOK
<1> QED BY <1>1, <1>3 DEF Shrinks

\* The kinds of steps, as far as the runs and the answers go.
LEMMA StepKinds ==
  ASSUME TypeOK, SafeInv, Next
  PROVE  \/ Shrinks
         \/ Settles
         \/ \E c \in Calls : LookTake(c)
         \/ \E c \in Calls, q \in Asks :
              result[c].outcome \notin Answers /\ Join(c, q)
         \/ \E c \in Calls, q \in Asks, old \in SUBSET Nat :
              result[c].outcome \notin Answers /\ Asked(c, q, old)
<1>1. ASSUME NEW c \in Calls, NEW q \in Asks, Enter(c, q)
      PROVE  \/ Shrinks
             \/ result[c].outcome \notin Answers /\ Join(c, q)
             \/ \E old \in SUBSET Nat :
                  result[c].outcome \notin Answers /\ Asked(c, q, old)
  BY <1>1, EnterUnanswered, RefusedShrinks, EnterAsks DEF Enter
<1>2. ASSUME NEW c \in Calls, CallSteps(c)
      PROVE  Shrinks \/ LookTake(c)
  BY <1>2, CallStepsShrink
<1> QED BY <1>1, <1>2, OwnerKinds, SystemShrinks DEF Next

-----------------------------------------------------------------------------

\* Every step keeps the invariant, and so does a step that changes nothing.
LEMMA StepInv == QueueInv /\ [Next]_vars => QueueInv'
<1> SUFFICES ASSUME QueueInv, [Next]_vars PROVE QueueInv'
  OBVIOUS
<1>1. TypeOK /\ SafeInv /\ QueueCoherent
  BY DEF QueueInv, SafeInv
<1>2. CASE Next
  <2>1. TypeOK'
    BY <1>1, <1>2, EnterType, CallStepsType, OwnerType, SystemType DEF Next
  <2>2. Settles => SafeInv'
    BY <1>1, SettleSafe DEF Settles
  <2>3. SafeInv'
    BY <1>1, <1>2, <2>2, StepKinds, ShrinkSafe, TakeSafe, JoinSafe, AskedSafe
  <2> QED BY <2>1, <2>3 DEF QueueInv, SafeInv
<1>3. CASE UNCHANGED vars
  BY <1>1, <1>3 DEF vars, queueVars, callVars, QueueInv, TypeOK, QueueCoherent,
    OneQuestionPerAgent, TicketsMatch, AnswersUsed, OneAnswerOneRun,
    AnswerCoversCall, Waiting
<1> QED BY <1>2, <1>3

\* The state of the queue and of its calls keeps its types, whoever steps in
\* which order (approvals.rs, all of ApprovalQueue).
THEOREM TypeCorrect == Spec => []TypeOK
<1>1. QueueInv => TypeOK
  BY DEF QueueInv
<1> QED BY <1>1, InitInv, StepInv, PTL DEF Spec

\* One answer of the owner starts at most one run, for any number of calls
\* that join, replace, cancel and time out (wait_for_question).
THEOREM OneAnswer1Run == Spec => []OneAnswerOneRun
<1>1. QueueInv => OneAnswerOneRun
  BY DEF QueueInv
<1> QED BY <1>1, InitInv, StepInv, PTL DEF Spec

\* The call that gets an answer is, in its agent, session, request and
\* credentials, the call that the owner's question was about (join, settle).
THEOREM AnswerCovers == Spec => []AnswerCoversCall
<1>1. QueueInv => AnswerCoversCall
  BY DEF QueueInv
<1> QED BY <1>1, InitInv, StepInv, PTL DEF Spec

\* An agent never has two waiting questions (ADR 0025, wait).
THEOREM OneQuestion == Spec => []OneQuestionPerAgent
<1>1. QueueInv => OneQuestionPerAgent
  BY DEF QueueInv
<1> QED BY <1>1, InitInv, StepInv, PTL DEF Spec

\* The maps of the queue agree after every critical section (settle, forget).
THEOREM Coherent == Spec => []QueueCoherent
<1>1. QueueInv => QueueCoherent
  BY DEF QueueInv
<1> QED BY <1>1, InitInv, StepInv, PTL DEF Spec

(***************************************************************************)
(* The queue keeps its promise: each kind of step is a step of OneAnswer   *)
(* or leaves its state alone.                                              *)
(***************************************************************************)

\* The promise is about IDs of runs.
LEMMA IdsInNat == Ids \subseteq Nat /\ Cardinality(Calls) \in Nat
<1>1. Cardinality(Calls) \in Nat
  BY FS_CardinalityType, ConstantsAssumption
<1> QED BY <1>1 DEF Ids

\* The state of a question, before and after a step.
LEMMA StatusFacts ==
  ASSUME nextId \in Nat, nextId' \in Nat, NEW id \in Nat
  PROVE  /\ id > nextId => Status(id) = "unasked"
         /\ id <= nextId /\ id \in pending => Status(id) = "waiting"
         /\ id <= nextId /\ id \notin pending /\ id \in DOMAIN decisions =>
              Status(id) = "answered"
         /\ id <= nextId /\ id \notin pending \cup DOMAIN decisions =>
              Status(id) = IF Takers(id) # {} THEN "taken" ELSE "ended"
         /\ id > nextId' => Status(id)' = "unasked"
         /\ id <= nextId' /\ id \in pending' => Status(id)' = "waiting"
         /\ id <= nextId' /\ id \notin pending' /\ id \in DOMAIN decisions' =>
              Status(id)' = "answered"
         /\ id <= nextId' /\ id \notin pending' \cup DOMAIN decisions' =>
              Status(id)' = IF Takers(id)' # {} THEN "taken" ELSE "ended"
BY DEF Status

\* Nobody got an answer to a question that waits, that is answered, or that
\* was not asked.
LEMMA NoTakersYet ==
  ASSUME TypeOK, SafeInv, NEW id \in Nat,
         id > nextId \/ id \in pending \cup DOMAIN decisions
  PROVE  Takers(id) = {}
BY DEF Takers, SafeInv, AnswersUsed, TypeOK

\* Runs that leave the queue end, and nothing else changes.
LEMMA ShrinkKeepsPromise ==
  ASSUME TypeOK, TypeOK', SafeInv, Shrinks
  PROVE  Promise!Next
<1> USE DEF Shrinks, QueueShrinks
<1> DEFINE S == {id \in Ids : Status(id)' # Status(id)}
<1>1. nextId \in Nat /\ nextId' \in Nat
  BY DEF TypeOK
<1>2. ASSUME NEW id \in Ids PROVE Takers(id)' = Takers(id)
  BY DEF Takers, NoAnswerGiven
<1>3. ASSUME NEW id \in Ids, Status(id)' # Status(id)
      PROVE  Status(id) \in {"waiting", "answered"} /\ Status(id)' = "ended"
  <2>1. id \in Nat
    BY IdsInNat
  <2>2. id <= nextId
    BY <1>1, <1>3, <2>1, StatusFacts
  <2>3. id \in pending \cup DOMAIN decisions
    BY <1>1, <1>2, <1>3, <2>1, <2>2, StatusFacts
  <2>4. Takers(id)' = {}
    BY <1>2, <2>1, <2>3, NoTakersYet
  <2>5. pending \cap DOMAIN decisions = {}
    BY DEF SafeInv, QueueCoherent
  <2> QED BY <1>1, <1>3, <2>1, <2>2, <2>3, <2>4, <2>5, StatusFacts
<1>4. Promise!End(S)
  BY <1>2, <1>3 DEF Promise!End
<1> QED BY <1>4 DEF Promise!Next

\* An answer of the owner answers the question.
LEMMA SettleKeepsPromise ==
  ASSUME TypeOK, TypeOK', SafeInv, NEW id \in pending, NEW answer, NEW by,
         Settle(id, answer, by), UNCHANGED <<nextId, replaced, callVars>>
  PROVE  \/ Promise!Next
         \/ UNCHANGED <<[i \in Ids |-> Status(i)], [i \in Ids |-> Takers(i)]>>
<1>1. /\ nextId \in Nat /\ nextId' = nextId /\ id \in Nat /\ id <= nextId
      /\ id \notin DOMAIN decisions
  BY DEF TypeOK, SafeInv, QueueCoherent
<1>2. pending' = pending \ {id}
  BY DEF Settle, Withdraw
<1>3. DOMAIN decisions' = DOMAIN decisions \cup {id}
  BY PutFacts DEF Settle
<1>4. \A i \in Ids : Takers(i)' = Takers(i)
  BY DEF Takers, callVars
<1>5. \A i \in Ids \ {id} : Status(i)' = Status(i)
  BY <1>1, <1>2, <1>3, <1>4, StatusFacts, IdsInNat
<1>6. Status(id) = "waiting" /\ Status(id)' = "answered"
  BY <1>1, <1>2, <1>3, StatusFacts
<1>7. CASE id \in Ids
  <2>1. Promise!Answer(id)
    BY <1>4, <1>5, <1>6, <1>7 DEF Promise!Answer
  <2> QED BY <1>7, <2>1 DEF Promise!Next
<1>8. CASE id \notin Ids
  BY <1>4, <1>5, <1>8
<1> QED BY <1>7, <1>8

\* The call that gets the answer is its only taker.
LEMMA TakeKeepsPromise ==
  ASSUME TypeOK, TypeOK', SafeInv, NEW c \in Calls, LookTake(c)
  PROVE  \/ Promise!Next
         \/ UNCHANGED <<[i \in Ids |-> Status(i)], [i \in Ids |-> Takers(i)]>>
<1>0. PICK id : id = ticket[c].id
  OBVIOUS
<1> DEFINE d == decisions[id]
<1>1. /\ pc[c] = "look" /\ id \in DOMAIN decisions
      /\ result[c].outcome \notin Answers
  BY <1>0 DEF LookTake, Current, NotReplaced, SafeInv, AnswersUsed
<1>2. /\ nextId \in Nat /\ nextId' = nextId /\ id \in Nat /\ id <= nextId
      /\ id \notin pending /\ pending' = pending
  BY <1>1 DEF LookTake, TypeOK, SafeInv, QueueCoherent
<1>3. DOMAIN decisions' = DOMAIN decisions \ {id}
  BY <1>0, WithoutFacts DEF LookTake
<1>4. /\ result'[c].outcome \in Answers
      /\ \A x \in Calls \ {c} : result'[x] = result[x]
      /\ ticket' = ticket
  <2>1. d.answer \in Answers
    BY <1>1 DEF TypeOK, Decisions
  <2> QED BY <1>0, <2>1 DEF LookTake, Return, TypeOK
<1> HIDE DEF d
<1>5. Takers(id) = {}
  BY <1>1, <1>2, NoTakersYet
<1>6. Takers(id)' = {c}
  BY <1>0, <1>4, <1>5 DEF Takers
<1>7. \A i \in Ids \ {id} : Takers(i)' = Takers(i)
  BY <1>0, <1>1, <1>4 DEF Takers
<1>8. \A i \in Ids : c \notin Takers(i)
  BY <1>1 DEF Takers
<1>9. \A i \in Ids \ {id} : Status(i)' = Status(i)
  BY <1>2, <1>3, <1>7, StatusFacts, IdsInNat
<1>10. Status(id) = "answered" /\ Status(id)' = "taken"
  BY <1>1, <1>2, <1>3, <1>6, StatusFacts
<1>11. CASE id \in Ids
  <2>1. Promise!Take(id, c)
    BY <1>6, <1>7, <1>8, <1>9, <1>10, <1>11 DEF Promise!Take
  <2> QED BY <1>11, <2>1 DEF Promise!Next
<1>12. CASE id \notin Ids
  BY <1>7, <1>9, <1>12
<1> QED BY <1>11, <1>12

\* A call that joins or asks has no answer, so the takers stay.
LEMMA WaitsKeepsTakers ==
  ASSUME TypeOK, NEW c \in Calls, NEW q, NEW id, NEW turn,
         result[c].outcome \notin Answers, Waits(c, q, id, turn)
  PROVE  \A i : Takers(i)' = Takers(i)
BY WaitsFacts DEF Takers

\* A call that joins changes no question.
LEMMA JoinKeepsPromise ==
  ASSUME TypeOK, TypeOK', SafeInv, NEW c \in Calls, NEW q \in Asks,
         result[c].outcome \notin Answers, Join(c, q)
  PROVE  UNCHANGED <<[i \in Ids |-> Status(i)], [i \in Ids |-> Takers(i)]>>
<1>1. PICK id, turn : Waits(c, q, id, turn)
  BY DEF Join
<1>2. \A i : Takers(i)' = Takers(i)
  BY <1>1, WaitsKeepsTakers
<1>3. /\ nextId \in Nat
      /\ nextId' = nextId /\ pending' = pending /\ decisions' = decisions
  BY <1>1 DEF TypeOK, Join, Waits
<1>4. \A i \in Ids : Status(i)' = Status(i)
  BY <1>2, <1>3, StatusFacts, IdsInNat
<1> QED BY <1>2, <1>4

\* A new question waits, and the ones it replaces end with it.  An ID beyond
\* the promise leaves only these ends.
LEMMA AskedKeepsPromise ==
  ASSUME TypeOK, TypeOK', SafeInv, NEW c \in Calls, NEW q \in Asks,
         NEW old \in SUBSET Nat, result[c].outcome \notin Answers,
         Asked(c, q, old)
  PROVE  Promise!Next
<1>0. PICK new : new = nextId + 1
  OBVIOUS
<1>1. /\ nextId \in Nat /\ nextId' \in Nat /\ new \in Nat /\ nextId' = new
      /\ pending' = (pending \ old) \cup {new} /\ old \subseteq pending
  BY <1>0 DEF TypeOK, Asked
<1>2. /\ \A i : Takers(i)' = Takers(i)
      /\ decisions' = decisions
  BY WaitsKeepsTakers, WaitsFacts DEF Asked
<1>3. /\ pending \cap DOMAIN decisions = {}
      /\ pending \cup DOMAIN decisions \subseteq 1..nextId
  BY DEF SafeInv, QueueCoherent
<1>4. Status(new) = "unasked" /\ Status(new)' = "waiting"
  BY <1>0, <1>1, StatusFacts
<1>5. \A o \in old : Status(o) = "waiting" /\ Status(o)' = "ended"
  <2> SUFFICES ASSUME NEW o \in old
               PROVE  Status(o) = "waiting" /\ Status(o)' = "ended"
    OBVIOUS
  <2>1. o \in Nat /\ o <= nextId /\ o \in pending /\ o \notin pending'
        /\ o \notin DOMAIN decisions'
    BY <1>0, <1>1, <1>2, <1>3
  <2>2. Takers(o)' = {}
    BY <1>2, <2>1, NoTakersYet
  <2> QED BY <1>0, <1>1, <2>1, <2>2, StatusFacts
<1>6. \A i \in Ids \ (old \cup {new}) : Status(i)' = Status(i)
  <2> SUFFICES ASSUME NEW i \in Ids, i \notin old, i # new
               PROVE  Status(i)' = Status(i)
    OBVIOUS
  <2>1. i \in Nat /\ (i > nextId <=> i > nextId')
    BY <1>0, <1>1, IdsInNat
  <2>2. /\ i \in pending' <=> i \in pending
        /\ i \in DOMAIN decisions' <=> i \in DOMAIN decisions
    BY <1>1, <1>2
  <2> QED BY <1>1, <1>2, <2>1, <2>2, StatusFacts
<1>7. new \notin old
  BY <1>0, <1>1, <1>3
<1>8. CASE new \in Ids
  <2>1. old \subseteq Ids \ {new}
    BY <1>0, <1>1, <1>3, <1>7, <1>8, IdsInNat DEF Ids
  <2>2. Promise!Ask(new, old)
    BY <1>2, <1>4, <1>5, <1>6, <1>7, <1>8, <2>1 DEF Promise!Ask
  <2> QED BY <1>8, <2>1, <2>2 DEF Promise!Next
<1>9. CASE new \notin Ids
  <2>1. Promise!End(old \cap Ids)
    BY <1>2, <1>5, <1>6, <1>9 DEF Promise!End
  <2> QED BY <2>1 DEF Promise!Next
<1> QED BY <1>8, <1>9

\* The approval queue implements its promise: a question waits once, gets at
\* most one answer, and the answer starts at most one call; nothing brings
\* back a question that ended (approvals.rs, wait_for_question and settle).
THEOREM PromiseKept == Spec => KeepsPromise
<1>1. Init => Promise!Init
  <2> SUFFICES ASSUME Init PROVE Promise!Init
    OBVIOUS
  <2>1. nextId = 0 /\ \A c \in Calls : result[c].outcome \notin Answers
    BY DEF Init, NoResult, Answers
  <2>2. \A id \in Ids : Status(id) = "unasked"
    BY <2>1, IdsInNat DEF Status, Ids
  <2>3. \A id \in Ids : Takers(id) = {}
    BY <2>1 DEF Takers
  <2> QED BY <2>2, <2>3 DEF Promise!Init
<1>2. QueueInv /\ QueueInv' /\ [Next]_vars =>
        [Promise!Next]_<<[id \in Ids |-> Status(id)], [id \in Ids |-> Takers(id)]>>
  <2> SUFFICES ASSUME QueueInv, QueueInv', [Next]_vars
               PROVE  \/ Promise!Next
                      \/ UNCHANGED <<[id \in Ids |-> Status(id)],
                                     [id \in Ids |-> Takers(id)]>>
    OBVIOUS
  <2>1. TypeOK /\ TypeOK' /\ SafeInv
    BY DEF QueueInv, SafeInv
  <2>2. CASE UNCHANGED vars
    <3>1. UNCHANGED <<nextId, pending, decisions, ticket, result>>
      BY <2>2 DEF vars, queueVars, callVars
    <3> QED BY <3>1 DEF Status, Takers
  <2>3. CASE Settles
    BY <2>1, <2>3, SettleKeepsPromise DEF Settles
  <2>4. CASE Next
    BY <2>1, <2>3, <2>4, StepKinds, ShrinkKeepsPromise, TakeKeepsPromise,
       JoinKeepsPromise, AskedKeepsPromise
  <2> QED BY <2>2, <2>4
<1> QED BY <1>1, <1>2, InitInv, StepInv, PTL DEF Spec, KeepsPromise, Promise!Spec
=============================================================================
