---------------------- MODULE ApprovalQueueWaitProofs ----------------------
(***************************************************************************)
(* Proofs about those who wait at the approval queue, for any number of    *)
(* calls and devices: the calls that wait for an answer (SomeoneListens),  *)
(* and the questions worker (NoLeftoverDevice, ReportAgrees and, while     *)
(* there is room for every end, EndsReported).                             *)
(***************************************************************************)
EXTENDS ApprovalQueueProofs

(***************************************************************************)
(* The device of an answer.                                                *)
(***************************************************************************)

\* An empty map.
LEMMA EmptyMap ==
  ASSUME NEW f, NEW g, NEW S, g = Without(f, S), DOMAIN f \subseteq S
  PROVE  DOMAIN g = {}
<1>1. DOMAIN g = DOMAIN f \ S
  BY WithoutFacts
<1> QED BY <1>1

\* Names of devices that are only removed leave no other name behind.
LEMMA DevicesShrink ==
  ASSUME NoLeftoverDevice, worker' = worker,
         \/ answerDevices' = answerDevices
         \/ \E S : answerDevices' = Without(answerDevices, S)
  PROVE  NoLeftoverDevice'
<1>1. CASE answerDevices' = answerDevices
  BY <1>1 DEF NoLeftoverDevice
<1>2. ASSUME NEW S, answerDevices' = Without(answerDevices, S)
      PROVE  NoLeftoverDevice'
  <2>1. /\ DOMAIN answerDevices' = DOMAIN answerDevices \ S
        /\ \A id \in DOMAIN answerDevices \ S :
             answerDevices'[id] = answerDevices[id]
    BY <1>2, WithoutFacts
  <2> QED BY <2>1 DEF NoLeftoverDevice
<1> QED BY <1>1, <1>2

\* An answer takes the name of its device along.
LEMMA DeviceAnswers ==
  ASSUME NoLeftoverDevice, NEW s, WorkerAnswers(s)
  PROVE  NoLeftoverDevice'
<1>1. answerDevices' = Without(answerDevices, {worker.id})
  BY DEF WorkerAnswers, Approve, Deny, Settle, Withdraw
<1>2. DOMAIN answerDevices \subseteq {worker.id}
  BY DEF NoLeftoverDevice
<1>3. DOMAIN answerDevices' = {}
  BY <1>1, <1>2, EmptyMap
<1> QED BY <1>3 DEF NoLeftoverDevice

\* The worker notes and forgets one device at a time.
LEMMA DeviceNoted ==
  ASSUME TypeOK, NoLeftoverDevice, NEW id, NEW d,
         NoteAnswerDevice(id, d) \/ ForgetAnswerDevice
  PROVE  NoLeftoverDevice'
<1>1. CASE NoteAnswerDevice(id, d)
  <2>1. DOMAIN answerDevices = {}
    BY <1>1 DEF NoteAnswerDevice, NoLeftoverDevice
  <2>2. worker' = [at |-> "noted", id |-> id, device |-> d]
    BY <1>1 DEF NoteAnswerDevice
  <2>3. CASE id \in pending
    <3>1. answerDevices' = Put(answerDevices, id, d)
      BY <1>1, <2>3 DEF NoteAnswerDevice
    <3>2. /\ DOMAIN answerDevices' = DOMAIN answerDevices \cup {id}
          /\ answerDevices'[id] = d
      BY <3>1 DEF Put
    <3> QED BY <2>1, <2>2, <3>2 DEF NoLeftoverDevice
  <2>4. CASE id \notin pending
    BY <1>1, <2>1, <2>4 DEF NoteAnswerDevice, NoLeftoverDevice
  <2> QED BY <2>3, <2>4
<1>2. CASE ForgetAnswerDevice
  <2>1. answerDevices' = Without(answerDevices, {worker.id})
    BY <1>2 DEF ForgetAnswerDevice
  <2>2. DOMAIN answerDevices \subseteq {worker.id}
    BY DEF NoLeftoverDevice
  <2>3. DOMAIN answerDevices' = {}
    BY <2>1, <2>2, EmptyMap
  <2> QED BY <2>3 DEF NoLeftoverDevice
<1> QED BY <1>1, <1>2

\* The name of a device is in the queue only while the worker hands in the
\* answer of this device to this run (note_answer_device, settle,
\* forget_answer_device).
THEOREM NoLeftover == Spec => []NoLeftoverDevice
<1>1. Init => NoLeftoverDevice
  BY DEF Init, NoLeftoverDevice
<1>2. QueueInv /\ NoLeftoverDevice /\ [Next]_vars => NoLeftoverDevice'
  <2> SUFFICES ASSUME TypeOK, NoLeftoverDevice, [Next]_vars
               PROVE  NoLeftoverDevice'
    BY DEF QueueInv
  <2>1. CASE UNCHANGED vars
    BY <2>1, DevicesShrink DEF vars, queueVars
  <2>2. ASSUME NEW c \in Calls, NEW q \in Asks, Enter(c, q)
        PROVE  NoLeftoverDevice'
    BY <2>2, DevicesShrink
    DEF Enter, EnterRefused, EnterBusy, Join, AskNew, Replace, Waits, queueVars
  <2>3. ASSUME NEW c \in Calls, CallSteps(c)
        PROVE  NoLeftoverDevice'
    BY <2>3, DevicesShrink
    DEF CallSteps, Look, LookReplaced, LookInvalidated, LookSuperseded, LookTake,
        LookGone, LookTimedOut, LookWaits, Revalidate, InvalidSuperseded,
        InvalidEnds, Void, Forget, Withdraw, queueVars
  <2>4. CASE OwnerNext
    <3>1. ASSUME NEW id, NEW s, MacApproves(id, s) \/ MacDenies(id)
          PROVE  NoLeftoverDevice'
      BY <3>1, DevicesShrink
      DEF MacApproves, MacDenies, Approve, Deny, Settle, Withdraw
    <3>2. CASE TakeEnded
      BY <3>2, DevicesShrink DEF TakeEnded
    <3> QED BY <2>4, <3>1, <3>2, DeviceAnswers, DeviceNoted DEF OwnerNext
  <2>5. CASE SystemNext
    BY <2>5, DevicesShrink
    DEF SystemNext, InvalidateAll, CloseFlag, CloseInvalidates, EndEverything,
        Withdraw, Cancel, OperationInvalidated, DeadlinePasses, queueVars
  <2> QED BY <2>1, <2>2, <2>3, <2>4, <2>5 DEF Next
<1> QED BY <1>1, <1>2, InitInv, StepInv, PTL DEF Spec

(***************************************************************************)
(* Somebody waits for every question, answer and replaced question.        *)
(***************************************************************************)

\* The newest call of a question that waits.
LEMMA NewestWaits ==
  ASSUME SomeoneListens, NEW id \in pending
  PROVE  \E c \in Calls : /\ Waiting(c) /\ ticket[c].id = id
                         /\ ticket[c].turn = questions[id].turn
                         /\ ticket[c].generation = generation
<1>1. PICK c \in Calls :
        /\ Waiting(c)
        /\ ticket[c] = [id |-> id, turn |-> questions[id].turn,
                       generation |-> generation]
  BY DEF SomeoneListens
<1>2. /\ ticket[c].id = id /\ ticket[c].turn = questions[id].turn
      /\ ticket[c].generation = generation
  BY <1>1
<1> QED BY <1>1, <1>2

\* Call c may stop to wait: its question is gone, or has a newer call.
MayLeave(c) ==
  /\ ticket[c].id \notin replaced' \cup DOMAIN decisions'
  /\ ticket[c].id \in pending' => ticket[c].turn # questions[ticket[c].id].turn

\* Nothing comes to be waited for, and only calls that may leave do.
ListenersStay ==
  /\ UNCHANGED <<generation, ticket>>
  /\ pending' \subseteq pending
  /\ DOMAIN decisions' \subseteq DOMAIN decisions
  /\ replaced' \subseteq replaced
  /\ \A i \in pending' : questions'[i].turn = questions[i].turn
  /\ stopper' = "closed" => stopper = "closed"
  /\ \A c \in Calls : Waiting(c) /\ ~Waiting(c)' => MayLeave(c)

\* Such a step leaves somebody at every question, answer and mark.
LEMMA StayListened ==
  ASSUME SomeoneListens, ListenersStay
  PROVE  SomeoneListens'
<1> USE DEF ListenersStay, MayLeave
<1>1. ASSUME NEW id \in pending'
      PROVE  \E c \in Calls :
               /\ Waiting(c)'
               /\ ticket'[c] = [id |-> id, turn |-> questions'[id].turn,
                               generation |-> generation']
  <2>1. PICK c \in Calls :
          /\ Waiting(c)
          /\ ticket[c] = [id |-> id, turn |-> questions[id].turn,
                         generation |-> generation]
    BY DEF SomeoneListens
  <2>2. ticket[c].id = id /\ ticket[c].turn = questions[id].turn
    BY <2>1
  <2>3. Waiting(c)'
    BY <2>1, <2>2
  <2> QED BY <2>1, <2>3
<1>2. \A id \in DOMAIN decisions' : \E c \in Calls :
        Waiting(c)' /\ ticket'[c].id = id /\ ticket'[c].generation = generation'
  BY DEF SomeoneListens
<1>3. \A id \in replaced' : \E c \in Calls : Waiting(c)' /\ ticket'[c].id = id
  BY DEF SomeoneListens
<1>4. stopper' = "closed" => pending' = {} /\ DOMAIN decisions' = {}
  BY DEF SomeoneListens
<1> QED BY <1>1, <1>2, <1>3, <1>4 DEF SomeoneListens

\* A waiting call leaves only when it may: its turns keep the others.
LEMMA CallStepsListened ==
  ASSUME TypeOK, SafeInv, SomeoneListens, NEW c \in Calls, CallSteps(c)
  PROVE  SomeoneListens'
<1> DEFINE id == ticket[c].id
<1>1. /\ DOMAIN questions = pending /\ pending \cap DOMAIN decisions = {}
      /\ replaced \cap (pending \cup DOMAIN decisions) = {}
  BY DEF SafeInv, QueueCoherent
<1>2. ASSUME UNCHANGED <<generation, stopper, ticket, pending, questions, decisions>>,
             replaced' \subseteq replaced,
             \A d \in Calls \ {c} : pc'[d] = pc[d],
             MayLeave(c) \/ Waiting(c)'
      PROVE  ListenersStay
  BY <1>2 DEF ListenersStay, Waiting
<1>3. ASSUME NEW outcome, NEW of, Return(c, outcome, of)
      PROVE  \A d \in Calls \ {c} : pc'[d] = pc[d]
  BY <1>3 DEF Return, TypeOK
<1>4. ASSUME NEW outcome, Forget(id, outcome)
      PROVE  /\ pending' = pending \ {id}
             /\ \A i \in pending' : questions'[i].turn = questions[i].turn
  <2>1. /\ pending' = pending \ {id}
        /\ questions' = Without(questions, {id})
    BY <1>4 DEF Forget, Withdraw
  <2>2. \A i \in DOMAIN questions \ {id} : questions'[i] = questions[i]
    BY <2>1, WithoutFacts
  <2> QED BY <1>1, <2>1, <2>2
<1>5. ASSUME Void(c), id \notin replaced
      PROVE  ListenersStay
  <2>1. DOMAIN decisions' = DOMAIN decisions \ {id}
    BY <1>5, WithoutFacts DEF Void
  <2>2. /\ pending' = pending \ {id}
        /\ \A i \in pending' : questions'[i].turn = questions[i].turn
    BY <1>4, <1>5 DEF Void
  <2>3. \A d \in Calls \ {c} : pc'[d] = pc[d]
    BY <1>3, <1>5 DEF Void
  <2> QED BY <1>5, <2>1, <2>2, <2>3 DEF Void, ListenersStay, MayLeave, Waiting
<1>6. ASSUME LookReplaced(c) PROVE ListenersStay
  BY <1>1, <1>2, <1>3, <1>6 DEF LookReplaced, MayLeave
<1>7. ASSUME LookInvalidated(c) \/ InvalidEnds(c) PROVE ListenersStay
  BY <1>5, <1>7 DEF LookInvalidated, NotReplaced, InvalidEnds
<1>8. ASSUME LookSuperseded(c) PROVE ListenersStay
  BY <1>1, <1>2, <1>3, <1>8
  DEF LookSuperseded, NotReplaced, Superseded, MayLeave, queueVars
<1>9. ASSUME LookTake(c) PROVE ListenersStay
  <2>1. DOMAIN decisions' = DOMAIN decisions \ {id} /\ id \in DOMAIN decisions
    BY <1>9, WithoutFacts DEF LookTake
  <2>2. \A d \in Calls \ {c} : pc'[d] = pc[d]
    BY <1>9 DEF LookTake, Return, TypeOK
  <2>3. id \notin replaced /\ id \notin pending
    BY <1>1, <2>1
  <2> QED BY <1>9, <2>1, <2>2, <2>3 DEF LookTake, ListenersStay, MayLeave, Waiting
<1>10. ASSUME LookGone(c) PROVE ListenersStay
  BY <1>1, <1>2, <1>3, <1>10
  DEF LookGone, Current, NotReplaced, MayLeave, queueVars
<1>11. ASSUME LookTimedOut(c) PROVE ListenersStay
  <2>1. /\ pending' = pending \ {id}
        /\ \A i \in pending' : questions'[i].turn = questions[i].turn
    BY <1>4, <1>11 DEF LookTimedOut
  <2>2. \A d \in Calls \ {c} : pc'[d] = pc[d]
    BY <1>3, <1>11 DEF LookTimedOut
  <2>3. id \notin replaced \cup DOMAIN decisions
    BY <1>11 DEF LookTimedOut, StillAsks, Current, NotReplaced
  <2> QED BY <1>11, <2>1, <2>2, <2>3
          DEF LookTimedOut, ListenersStay, MayLeave, Waiting
<1>12. ASSUME LookWaits(c) PROVE ListenersStay
  BY <1>2, <1>12 DEF LookWaits, TypeOK, Waiting, queueVars
<1>13. ASSUME NEW valid \in BOOLEAN, Revalidate(c, valid)
       PROVE  ListenersStay
  BY <1>2, <1>13 DEF Revalidate, TypeOK, Waiting, queueVars
<1>14. ASSUME InvalidSuperseded(c) PROVE ListenersStay
  BY <1>1, <1>2, <1>3, <1>14 DEF InvalidSuperseded, Superseded, MayLeave
<1> QED BY <1>6, <1>7, <1>8, <1>9, <1>10, <1>11, <1>12, <1>13, <1>14,
           StayListened DEF CallSteps, Look

\* The calls that waited for a question wait for its answer.
LEMMA SettleListened ==
  ASSUME TypeOK, SafeInv, SomeoneListens, NEW id \in pending, NEW answer, NEW by,
         Settle(id, answer, by),
         UNCHANGED <<generation, stopper, replaced, callVars>>
  PROVE  SomeoneListens'
<1>1. pending' = pending \ {id}
  BY DEF Settle, Withdraw
<1>2. \A i \in pending' : questions'[i] = questions[i]
  BY <1>1, WithoutFacts DEF Settle, Withdraw, SafeInv, QueueCoherent
<1>3. DOMAIN decisions' = DOMAIN decisions \cup {id}
  BY PutFacts DEF Settle
<1>4. UNCHANGED <<generation, stopper, replaced, pc, ticket>>
  BY DEF callVars
<1>5. \E c \in Calls :
        Waiting(c) /\ ticket[c].id = id /\ ticket[c].generation = generation
  BY NewestWaits
<1>6. stopper # "closed"
  BY DEF SomeoneListens
<1> QED BY <1>1, <1>2, <1>3, <1>4, <1>5, <1>6 DEF SomeoneListens, Waiting

\* When everything ends nobody needs to listen but to a mark.
LEMMA EndListened ==
  ASSUME SomeoneListens, SafeInv, EndEverything
  PROVE  SomeoneListens'
<1>1. pending' = {}
  BY DEF EndEverything, Withdraw
<1>2. DOMAIN decisions' = {}
  BY DEF EndEverything
<1>3. UNCHANGED <<replaced, pc, ticket>>
  BY DEF EndEverything, callVars
<1> QED BY <1>1, <1>2, <1>3 DEF SomeoneListens, Waiting

\* A call that enters waits for what it joined, asked or replaced.
LEMMA EnterListened ==
  ASSUME TypeOK, SafeInv, SomeoneListens, NEW c \in Calls, NEW q \in Asks,
         Enter(c, q)
  PROVE  SomeoneListens'
<1>1. ~Waiting(c)
  BY DEF Enter, EnterRefused, EnterBusy, Join, AskNew, Replace, Admitted, Waiting
<1>2. CASE EnterRefused(c, q) \/ EnterBusy(c, q)
  <2>1. \A d \in Calls \ {c} : pc'[d] = pc[d]
    BY <1>2 DEF EnterRefused, EnterBusy, Return, TypeOK
  <2>2. ListenersStay
    BY <1>1, <1>2, <2>1
    DEF EnterRefused, EnterBusy, queueVars, ListenersStay, Waiting
  <2> QED BY <2>2, StayListened
<1>3. CASE Join(c, q)
  <2>1. PICK id \in AskedBy(q.agent) :
          /\ questions' = [questions EXCEPT ![id].turn = @ + 1]
          /\ Waits(c, q, id, questions[id].turn + 1)
    BY <1>3 DEF Join
  <2>2. /\ id \in DOMAIN questions
        /\ \A i \in DOMAIN questions : questions[i] \in Questions
    BY DEF AskedBy, TypeOK
  <2>3. /\ questions'[id].turn = questions[id].turn + 1
        /\ \A i \in DOMAIN questions \ {id} : questions'[i] = questions[i]
    BY <2>1, <2>2 DEF Questions
  <2>4. ticket'[c] = [id |-> id, turn |-> questions[id].turn + 1,
                      generation |-> generation]
    BY <2>1, WaitsTicket
  <2>5. /\ pc'[c] = "look"
        /\ \A d \in Calls \ {c} : pc'[d] = pc[d] /\ ticket'[d] = ticket[d]
    BY <2>1, WaitsFacts
  <2>6. UNCHANGED <<generation, stopper, pending, replaced, decisions>>
    BY <1>3, <2>1 DEF Join, Waits
  <2>7. DOMAIN questions = pending
    BY DEF SafeInv, QueueCoherent
  <2> QED BY <1>1, <2>3, <2>4, <2>5, <2>6, <2>7 DEF SomeoneListens, Waiting
<1>4. CASE AskNew(c, q) \/ Replace(c, q)
  <2>1. PICK old \in SUBSET Nat : Asked(c, q, old)
    BY <1>4, EnterAsks
  <2>2. ticket'[c] = [id |-> nextId + 1, turn |-> 0, generation |-> generation]
    BY <2>1, WaitsTicket DEF Asked
  <2>3. /\ pc'[c] = "look"
        /\ \A d \in Calls \ {c} : pc'[d] = pc[d] /\ ticket'[d] = ticket[d]
    BY <2>1, WaitsFacts DEF Asked
  <2>4. /\ UNCHANGED <<generation, stopper, decisions>>
        /\ stopper # "closed"
    BY <1>4, <2>1 DEF Asked, Waits, AskNew, Replace, Admitted
  <2>5. DOMAIN questions = pending
    BY DEF SafeInv, QueueCoherent
  <2>6. \A id \in old : \E d \in Calls : Waiting(d) /\ ticket[d].id = id
    BY <2>1, NewestWaits DEF Asked
  <2>7. /\ pending' = (pending \ old) \cup {nextId + 1}
        /\ questions'[nextId + 1].turn = 0
        /\ \A i \in pending \ old : questions'[i] = questions[i]
        /\ replaced' = replaced \cup old
    BY <2>1, <2>5 DEF Asked
  <2>8. \A id \in pending' : \E d \in Calls :
          /\ Waiting(d)'
          /\ ticket'[d] = [id |-> id, turn |-> questions'[id].turn,
                          generation |-> generation']
    <3> SUFFICES ASSUME NEW id \in pending'
                 PROVE  \E d \in Calls :
                          /\ Waiting(d)'
                          /\ ticket'[d] = [id |-> id, turn |-> questions'[id].turn,
                                          generation |-> generation']
      OBVIOUS
    <3>1. CASE id = nextId + 1
      BY <2>2, <2>3, <2>4, <2>7, <3>1 DEF Waiting
    <3>2. CASE id \in pending \ old
      BY <1>1, <2>3, <2>4, <2>7, <3>2 DEF SomeoneListens, Waiting
    <3> QED BY <2>7, <3>1, <3>2
  <2>9. \A id \in DOMAIN decisions' : \E d \in Calls :
          Waiting(d)' /\ ticket'[d].id = id /\ ticket'[d].generation = generation'
    BY <1>1, <2>3, <2>4 DEF SomeoneListens, Waiting
  <2>10. \A id \in replaced' : \E d \in Calls :
           Waiting(d)' /\ ticket'[d].id = id
    <3>1. \A id \in replaced \cup old : \E d \in Calls :
            Waiting(d) /\ ticket[d].id = id
      BY <2>6 DEF SomeoneListens
    <3>2. \A d \in Calls : Waiting(d) => Waiting(d)' /\ ticket'[d] = ticket[d]
      BY <1>1, <2>3 DEF Waiting
    <3> QED BY <2>7, <3>1, <3>2
  <2> QED BY <2>4, <2>8, <2>9, <2>10 DEF SomeoneListens
<1> QED BY <1>2, <1>3, <1>4 DEF Enter

\* No question waits, no answer is kept and no mark is left for nobody, and
\* after close() returned nothing waits (wait_for_question, close).
THEOREM SomeoneAlwaysListens == Spec => []SomeoneListens
<1>1. Init => SomeoneListens
  BY DEF Init, SomeoneListens
<1>2. QueueInv /\ SomeoneListens /\ [Next]_vars => SomeoneListens'
  <2> SUFFICES ASSUME TypeOK, SafeInv, SomeoneListens, [Next]_vars
               PROVE  SomeoneListens'
    BY DEF QueueInv, SafeInv
  <2>1. ASSUME UNCHANGED <<generation, pending, questions, replaced, decisions,
                           callVars>>,
               stopper' = "closed" => stopper = "closed"
        PROVE  SomeoneListens'
    BY <2>1, StayListened DEF callVars, ListenersStay, Waiting
  <2>2. CASE UNCHANGED vars
    BY <2>1, <2>2 DEF vars, queueVars
  <2>3. CASE OwnerNext
    <3>1. ASSUME NEW id \in pending,
                 (\E s \in Sessions : MacApproves(id, s)) \/ MacDenies(id)
          PROVE  SomeoneListens'
      BY <3>1, SettleListened DEF MacApproves, Approve, MacDenies, Deny
    <3>2. ASSUME NEW s \in Sessions, WorkerAnswers(s)
          PROVE  SomeoneListens'
      BY <3>2, SettleListened DEF WorkerAnswers, Approve, Deny
    <3>3. ASSUME NEW id, NEW d,
                 NoteAnswerDevice(id, d) \/ ForgetAnswerDevice \/ TakeEnded
          PROVE  SomeoneListens'
      BY <2>1, <3>3 DEF NoteAnswerDevice, ForgetAnswerDevice, TakeEnded
    <3> QED BY <2>3, <3>1, <3>2, <3>3 DEF OwnerNext
  <2>4. CASE SystemNext
    <3>1. CASE InvalidateAll \/ CloseInvalidates
      BY <3>1, EndListened DEF InvalidateAll, CloseInvalidates
    <3>2. CASE CloseFlag
      BY <2>1, <3>2 DEF CloseFlag
    <3>3. ASSUME NEW c \in Calls, Cancel(c) \/ OperationInvalidated(c)
          PROVE  SomeoneListens'
      BY <2>1, <3>3 DEF Cancel, OperationInvalidated, queueVars
    <3>4. ASSUME NEW id \in DOMAIN questions, DeadlinePasses(id)
          PROVE  SomeoneListens'
      <4>1. \A i \in DOMAIN questions : questions[i] \in Questions
        BY DEF TypeOK
      <4>2. \A i \in DOMAIN questions : questions'[i].turn = questions[i].turn
        BY <3>4, <4>1 DEF DeadlinePasses, Questions
      <4>3. DOMAIN questions = pending
        BY DEF SafeInv, QueueCoherent
      <4> QED BY <3>4, <4>2, <4>3, StayListened
              DEF DeadlinePasses, callVars, ListenersStay, Waiting
    <3> QED BY <2>4, <3>1, <3>2, <3>3, <3>4 DEF SystemNext
  <2> QED BY <2>2, <2>3, <2>4, EnterListened, CallStepsListened DEF Next
<1> QED BY <1>1, <1>2, InitInv, StepInv, PTL DEF Spec

(***************************************************************************)
(* What the worker hears of an end is what a call got.                     *)
(***************************************************************************)

\* The call got an answer or its deadline, which the worker hears of as well.
Told(c) == result[c].outcome \in Answers \cup {"timed_out"}

\* An end is of a run that no longer waits; while its answer is kept, it is
\* this answer.  A call that was told of its run is through with it.
ReportInv ==
  /\ \A r \in ended \cup reported :
       /\ r.id \in (1..nextId) \ pending
       /\ r.id \in DOMAIN decisions => r.outcome = decisions[r.id].answer
  /\ \A c \in Calls : Told(c) =>
       pc[c] = "done" /\ ticket[c].id \in (1..nextId) \ pending
  /\ ReportAgrees

\* The ends that a step adds are of runs that leave the queue.
EndsOnlyOfLeavers ==
  \A r \in ended' \cup reported' :
    r \in ended \cup reported \/ r.id \in pending \ pending'

\* note_end adds only ends of runs that wait.
LEMMA NoteEndsFacts ==
  ASSUME NEW S, NEW outcome, NoteEnds(S, outcome)
  PROVE  \A r \in ended' :
           r \in ended \/ (r.id \in S \cap pending /\ r.outcome = outcome)
BY DEF NoteEnds

\* A step that only takes runs out of the queue and tells no call of its run.
LEMMA ReportStays ==
  ASSUME SafeInv, ReportInv, UNCHANGED <<nextId, ticket>>,
         pending' \subseteq pending, EndsOnlyOfLeavers,
         DOMAIN decisions' \subseteq DOMAIN decisions,
         \A i \in DOMAIN decisions' : decisions'[i] = decisions[i],
         \A c \in Calls : Told(c)' =>
           Told(c) /\ result'[c] = result[c] /\ pc'[c] = pc[c]
  PROVE  ReportInv'
<1> USE DEF ReportInv, EndsOnlyOfLeavers
<1>1. /\ pending \cap DOMAIN decisions = {}
      /\ pending \subseteq 1..nextId
  BY DEF SafeInv, QueueCoherent
<1>2. \A r \in ended' \cup reported' :
        /\ r.id \in (1..nextId') \ pending'
        /\ r.id \in DOMAIN decisions' => r.outcome = decisions'[r.id].answer
  BY <1>1
<1>3. \A c \in Calls : Told(c)' =>
        pc'[c] = "done" /\ ticket'[c].id \in (1..nextId') \ pending'
  OBVIOUS
<1>4. ReportAgrees'
  <2> SUFFICES ASSUME NEW c \in Calls, NEW r \in ended' \cup reported',
                      r.id = ticket'[c].id, Told(c)'
               PROVE  r.outcome = result'[c].outcome
    BY DEF ReportAgrees, Told
  <2>1. Told(c) /\ result'[c] = result[c] /\ ticket[c].id \notin pending
    OBVIOUS
  <2>2. r \in ended \cup reported
    BY <2>1
  <2> QED BY <2>1, <2>2 DEF ReportAgrees, Told
<1> QED BY <1>2, <1>3, <1>4

\* Runs that leave the queue, with their ends noted.
LEMMA ForgetReports ==
  ASSUME NEW id, NEW outcome, Forget(id, outcome), reported' = reported
  PROVE  pending' = pending \ {id} /\ EndsOnlyOfLeavers
<1>1. pending' = pending \ {id}
  BY DEF Forget, Withdraw
<1>2. \A r \in ended' :
        r \in ended \/ (r.id \in {id} \cap pending /\ r.outcome = outcome)
  BY NoteEndsFacts DEF Forget
<1> QED BY <1>1, <1>2 DEF EndsOnlyOfLeavers

\* A turn of a waiting call.
LEMMA CallStepsReport ==
  ASSUME TypeOK, SafeInv, ReportInv, NEW c \in Calls, CallSteps(c)
  PROVE  ReportInv'
<1>0. ASSUME NEW outcome, NEW of, Return(c, outcome, of)
      PROVE  /\ result'[c].outcome = outcome /\ pc'[c] = "done"
             /\ \A d \in Calls \ {c} : result'[d] = result[d] /\ pc'[d] = pc[d]
  BY <1>0 DEF Return, TypeOK
<1>1. ASSUME NEW outcome \in {"invalidated", "superseded"},
             Return(c, outcome, NoAsk)
      PROVE  \A d \in Calls : Told(d)' =>
               Told(d) /\ result'[d] = result[d] /\ pc'[d] = pc[d]
  BY <1>0, <1>1 DEF Told, Answers
<1>2. ASSUME UNCHANGED <<nextId, ticket, pending, decisions, ended, reported>>,
             \E outcome \in {"invalidated", "superseded"} :
               Return(c, outcome, NoAsk)
      PROVE  ReportInv'
  BY <1>1, <1>2, ReportStays DEF EndsOnlyOfLeavers
<1>3. ASSUME Void(c) PROVE ReportInv'
  <2>1. /\ DOMAIN decisions' \subseteq DOMAIN decisions
        /\ \A i \in DOMAIN decisions' : decisions'[i] = decisions[i]
    <3>1. decisions' = Without(decisions, {ticket[c].id})
      BY <1>3 DEF Void
    <3>2. /\ DOMAIN decisions' = DOMAIN decisions \ {ticket[c].id}
          /\ \A i \in DOMAIN decisions \ {ticket[c].id} :
               decisions'[i] = decisions[i]
      BY <3>1, WithoutFacts
    <3> QED BY <3>2
  <2>2. pending' \subseteq pending /\ EndsOnlyOfLeavers
    BY <1>3, ForgetReports DEF Void
  <2>3. UNCHANGED <<nextId, ticket>> /\ Return(c, "invalidated", NoAsk)
    BY <1>3 DEF Void
  <2> QED BY <1>1, <2>1, <2>2, <2>3, ReportStays
<1>4. CASE LookReplaced(c) \/ InvalidSuperseded(c)
  BY <1>2, <1>4 DEF LookReplaced, InvalidSuperseded
<1>5. CASE LookSuperseded(c) \/ LookGone(c)
  BY <1>2, <1>5 DEF LookSuperseded, LookGone, queueVars
<1>6. CASE LookTake(c)
  <2>1. PICK id : id = ticket[c].id
    OBVIOUS
  <2>2. /\ id \in DOMAIN decisions /\ result'[c].outcome = decisions[id].answer
        /\ pc'[c] = "done"
        /\ \A d \in Calls \ {c} : result'[d] = result[d] /\ pc'[d] = pc[d]
    BY <1>0, <1>6, <2>1 DEF LookTake
  <2>3. UNCHANGED <<nextId, ticket, pending, ended, reported>>
    BY <1>6 DEF LookTake
  <2>4. /\ DOMAIN decisions' = DOMAIN decisions \ {id}
        /\ \A i \in DOMAIN decisions \ {id} : decisions'[i] = decisions[i]
    BY <1>6, <2>1, WithoutFacts DEF LookTake
  <2>5. id \in (1..nextId) \ pending
    BY <2>2 DEF SafeInv, QueueCoherent
  <2>6. ReportAgrees'
    BY <2>1, <2>2, <2>3 DEF ReportInv, ReportAgrees
  <2>7. \A d \in Calls : Told(d)' =>
          pc'[d] = "done" /\ ticket'[d].id \in (1..nextId') \ pending'
    BY <2>1, <2>2, <2>3, <2>5 DEF ReportInv, Told
  <2>8. \A r \in ended' \cup reported' :
          /\ r.id \in (1..nextId') \ pending'
          /\ r.id \in DOMAIN decisions' => r.outcome = decisions'[r.id].answer
    BY <2>3, <2>4 DEF ReportInv
  <2> QED BY <2>6, <2>7, <2>8 DEF ReportInv
<1>7. CASE LookTimedOut(c)
  <2>1. PICK id : id = ticket[c].id
    OBVIOUS
  <2>2. /\ id \in pending /\ id \in 1..nextId /\ pending' = pending \ {id}
    BY <1>7, <2>1
    DEF LookTimedOut, StillAsks, Forget, Withdraw, SafeInv, QueueCoherent
  <2>3. \A r \in ended' : r \in ended \/ (r.id = id /\ r.outcome = "timed_out")
    BY <1>7, <2>1, NoteEndsFacts DEF LookTimedOut, Forget
  <2>4. UNCHANGED <<nextId, ticket, decisions, reported>>
    BY <1>7 DEF LookTimedOut
  <2>5. /\ result'[c].outcome = "timed_out" /\ pc'[c] = "done"
        /\ \A d \in Calls \ {c} : result'[d] = result[d] /\ pc'[d] = pc[d]
    BY <1>0, <1>7 DEF LookTimedOut
  <2>6. id \notin DOMAIN decisions
    BY <2>2 DEF SafeInv, QueueCoherent
  <2>7. \A d \in Calls \ {c} : Told(d)' => Told(d) /\ ticket[d].id # id
    BY <2>2, <2>5 DEF ReportInv, Told
  <2>8. ReportAgrees'
    <3> SUFFICES ASSUME NEW d \in Calls, NEW r \in ended' \cup reported',
                        r.id = ticket'[d].id, Told(d)'
                 PROVE  r.outcome = result'[d].outcome
      BY DEF ReportAgrees, Told
    <3>1. CASE d = c
      <4>1. r.id = id
        BY <2>1, <2>4, <3>1
      <4>2. r \notin ended \cup reported
        BY <2>2, <4>1 DEF ReportInv
      <4> QED BY <2>3, <2>4, <2>5, <3>1, <4>2
    <3>2. CASE d # c
      <4>1. Told(d) /\ ticket[d].id # id /\ result'[d] = result[d]
        BY <2>5, <2>7, <3>2
      <4>2. r \in ended \cup reported /\ r.id = ticket[d].id
        BY <2>3, <2>4, <4>1
      <4> QED BY <4>1, <4>2 DEF ReportInv, ReportAgrees, Told
    <3> QED BY <3>1, <3>2
  <2>9. \A d \in Calls : Told(d)' =>
          pc'[d] = "done" /\ ticket'[d].id \in (1..nextId') \ pending'
    BY <2>1, <2>2, <2>4, <2>5, <2>7 DEF ReportInv
  <2>10. \A r \in ended' \cup reported' :
           /\ r.id \in (1..nextId') \ pending'
           /\ r.id \in DOMAIN decisions' => r.outcome = decisions'[r.id].answer
    BY <2>2, <2>3, <2>4, <2>6 DEF ReportInv
  <2> QED BY <2>8, <2>9, <2>10 DEF ReportInv
<1>8. ASSUME LookWaits(c) \/ \E valid \in BOOLEAN : Revalidate(c, valid)
      PROVE  ReportInv'
  <2>1. pc[c] # "done" /\ \A d \in Calls \ {c} : pc'[d] = pc[d]
    BY <1>8 DEF LookWaits, Revalidate, StillAsks, Current, NotReplaced, TypeOK
  <2>2. UNCHANGED <<nextId, ticket, pending, decisions, ended, reported, result>>
    BY <1>8 DEF LookWaits, Revalidate, queueVars
  <2>3. \A d \in Calls : Told(d)' => Told(d) /\ d # c
    BY <2>1, <2>2 DEF ReportInv, Told
  <2> QED BY <2>1, <2>2, <2>3, ReportStays DEF EndsOnlyOfLeavers
<1> QED BY <1>3, <1>4, <1>5, <1>6, <1>7, <1>8
        DEF CallSteps, Look, LookInvalidated, InvalidEnds

\* The end that an answer notes is this answer.
LEMMA SettleReport ==
  ASSUME SafeInv, ReportInv, NEW id \in pending, NEW answer, NEW by,
         Settle(id, answer, by), UNCHANGED <<nextId, reported, callVars>>
  PROVE  ReportInv'
<1>1. pending' = pending \ {id} /\ id \in 1..nextId
  BY DEF Settle, Withdraw, SafeInv, QueueCoherent
<1>2. /\ DOMAIN decisions' = DOMAIN decisions \cup {id}
      /\ decisions'[id].answer = answer
      /\ \A i \in DOMAIN decisions \ {id} : decisions'[i] = decisions[i]
  <2> DEFINE d == [answer |-> answer, of |-> questions[id].of,
                   answeredOn |-> IF id \in DOMAIN answerDevices
                                    THEN answerDevices[id] ELSE Mac,
                   by |-> by]
  <2>1. decisions' = Put(decisions, id, d) /\ d.answer = answer
    BY DEF Settle
  <2> HIDE DEF d
  <2>2. /\ DOMAIN Put(decisions, id, d) = DOMAIN decisions \cup {id}
        /\ \A i \in DOMAIN decisions \ {id} :
             Put(decisions, id, d)[i] = decisions[i]
        /\ Put(decisions, id, d)[id] = d
    BY DEF Put
  <2> QED BY <2>1, <2>2
<1>3. \A r \in ended' : r \in ended \/ (r.id = id /\ r.outcome = answer)
  BY NoteEndsFacts DEF Settle
<1>4. UNCHANGED <<nextId, reported, pc, ticket, result>>
  BY DEF callVars
<1>5. \A r \in ended' \cup reported' :
        /\ r.id \in (1..nextId') \ pending'
        /\ r.id \in DOMAIN decisions' => r.outcome = decisions'[r.id].answer
  <2> SUFFICES ASSUME NEW r \in ended' \cup reported'
               PROVE  /\ r.id \in (1..nextId') \ pending'
                      /\ r.id \in DOMAIN decisions' =>
                           r.outcome = decisions'[r.id].answer
    OBVIOUS
  <2>1. CASE r \in ended \cup reported
    BY <1>1, <1>2, <1>4, <2>1 DEF ReportInv
  <2>2. CASE r.id = id /\ r.outcome = answer
    BY <1>1, <1>2, <1>4, <2>2
  <2> QED BY <1>3, <1>4, <2>1, <2>2
<1>6. \A c \in Calls : Told(c)' =>
        /\ Told(c) /\ pc'[c] = "done" /\ ticket'[c].id # id
        /\ ticket'[c].id \in (1..nextId') \ pending'
  BY <1>1, <1>4 DEF ReportInv, Told
<1>7. ReportAgrees'
  <2> SUFFICES ASSUME NEW c \in Calls, NEW r \in ended' \cup reported',
                      r.id = ticket'[c].id, Told(c)'
               PROVE  r.outcome = result'[c].outcome
    BY DEF ReportAgrees, Told
  <2>1. r \in ended \cup reported
    BY <1>3, <1>4, <1>6
  <2> QED BY <1>4, <2>1 DEF ReportInv, ReportAgrees, Told
<1> QED BY <1>5, <1>6, <1>7 DEF ReportInv

\* A call that enters has been told of nothing, and a new question has no end.
LEMMA EnterReport ==
  ASSUME TypeOK, SafeInv, ReportInv, NEW c \in Calls, NEW q \in Asks, Enter(c, q)
  PROVE  ReportInv'
<1>1. ~Told(c)
  BY DEF Enter, EnterRefused, EnterBusy, Join, AskNew, Replace, Admitted, ReportInv
<1>2. CASE EnterRefused(c, q) \/ EnterBusy(c, q)
  <2>1. /\ UNCHANGED <<nextId, ticket, pending, decisions, ended, reported>>
        /\ \E outcome \in {"invalidated", "busy"} : Return(c, outcome, NoAsk)
    BY <1>2 DEF EnterRefused, EnterBusy, queueVars
  <2>2. \A d \in Calls : Told(d)' =>
          Told(d) /\ result'[d] = result[d] /\ pc'[d] = pc[d]
    BY <2>1 DEF Return, TypeOK, Told, Answers
  <2> QED BY <2>1, <2>2, ReportStays DEF EndsOnlyOfLeavers
<1>3. ASSUME NEW id, NEW turn, Waits(c, q, id, turn)
      PROVE  /\ \A d \in Calls : Told(d)' =>
                  /\ Told(d) /\ result'[d] = result[d] /\ pc'[d] = pc[d]
                  /\ ticket'[d] = ticket[d]
             /\ UNCHANGED <<decisions, reported>>
  BY <1>1, <1>3, WaitsFacts DEF Told, Waits
<1>4. ASSUME NEW id, NEW turn, Waits(c, q, id, turn),
             nextId' \in {nextId, nextId + 1},
             pending' \subseteq pending \cup ({nextId'} \ {nextId}),
             EndsOnlyOfLeavers
      PROVE  ReportInv'
  <2>1. /\ nextId \in Nat /\ 1..nextId \subseteq 1..nextId'
        /\ nextId' \notin {nextId} => nextId' \notin 1..nextId
    BY <1>4 DEF TypeOK
  <2>2. /\ pending \cap DOMAIN decisions = {} /\ pending \subseteq 1..nextId
    BY DEF SafeInv, QueueCoherent
  <2>3. \A i \in 1..nextId : i \in pending' => i \in pending
    BY <1>4, <2>1
  <2>4. \A r \in ended' \cup reported' :
          /\ r.id \in (1..nextId') \ pending'
          /\ r.id \in DOMAIN decisions' => r.outcome = decisions'[r.id].answer
    BY <1>3, <1>4, <2>1, <2>2, <2>3 DEF EndsOnlyOfLeavers, ReportInv
  <2>5. \A d \in Calls : Told(d)' =>
          pc'[d] = "done" /\ ticket'[d].id \in (1..nextId') \ pending'
    BY <1>3, <1>4, <2>1, <2>3 DEF ReportInv
  <2>6. ReportAgrees'
    <3> SUFFICES ASSUME NEW d \in Calls, NEW r \in ended' \cup reported',
                        r.id = ticket'[d].id, Told(d)'
                 PROVE  r.outcome = result'[d].outcome
      BY DEF ReportAgrees, Told
    <3>1. /\ Told(d) /\ result'[d] = result[d] /\ r.id = ticket[d].id
          /\ ticket[d].id \notin pending
      BY <1>3, <1>4 DEF ReportInv
    <3>2. r \in ended \cup reported
      BY <1>4, <3>1 DEF EndsOnlyOfLeavers
    <3> QED BY <3>1, <3>2 DEF ReportInv, ReportAgrees, Told
  <2> QED BY <2>4, <2>5, <2>6 DEF ReportInv
<1>5. CASE Join(c, q)
  <2>1. PICK id, turn : Waits(c, q, id, turn)
    BY <1>5 DEF Join
  <2>2. UNCHANGED <<nextId, pending, ended, reported>>
    BY <1>5, <2>1 DEF Join, Waits
  <2> QED BY <1>4, <2>1, <2>2 DEF EndsOnlyOfLeavers
<1>6. nextId \in Nat /\ nextId + 1 # nextId /\ nextId + 1 \notin pending
  BY DEF TypeOK, SafeInv, QueueCoherent
<1>7. CASE AskNew(c, q)
  <2>1. /\ nextId' = nextId + 1 /\ pending' = pending \cup {nextId + 1}
        /\ UNCHANGED <<ended, reported>>
        /\ Waits(c, q, nextId + 1, 0)
    BY <1>7 DEF AskNew, Waits
  <2> QED BY <1>4, <1>6, <2>1 DEF EndsOnlyOfLeavers
<1>8. CASE Replace(c, q)
  <2>1. PICK old \in AskedBy(q.agent) :
          /\ NoteEnds({old}, "invalidated")
          /\ pending' = (pending \ {old}) \cup {nextId + 1}
    BY <1>8 DEF Replace
  <2>2. /\ nextId' = nextId + 1 /\ reported' = reported
        /\ Waits(c, q, nextId + 1, 0)
    BY <1>8 DEF Replace, Waits
  <2>3. EndsOnlyOfLeavers
    <3>1. \A r \in ended' : r \in ended \/ (r.id \in {old} \cap pending)
      BY <2>1, NoteEndsFacts
    <3> QED BY <1>6, <2>1, <2>2, <3>1 DEF EndsOnlyOfLeavers
  <2> QED BY <1>4, <1>6, <2>1, <2>2, <2>3
<1> QED BY <1>2, <1>5, <1>7, <1>8 DEF Enter

\* The end of a run that the worker hears of is what its calls got: no answer
\* is reported for a run that a call saw time out, and no other answer than
\* the one that a call got (note_end, settle, forget).
THEOREM ReportsAgree == Spec => []ReportAgrees
<1>1. Init => ReportInv
  BY DEF Init, ReportInv, ReportAgrees, Told, NoResult, Answers
<1>2. QueueInv /\ ReportInv /\ [Next]_vars => ReportInv'
  <2> SUFFICES ASSUME TypeOK, SafeInv, ReportInv, [Next]_vars
               PROVE  ReportInv'
    BY DEF QueueInv, SafeInv
  <2>1. ASSUME UNCHANGED <<nextId, pending, decisions, callVars>>,
               ended' \cup reported' \subseteq ended \cup reported
        PROVE  ReportInv'
    BY <2>1, ReportStays DEF callVars, EndsOnlyOfLeavers, Told
  <2>2. CASE UNCHANGED vars
    BY <2>1, <2>2 DEF vars, queueVars
  <2>3. CASE OwnerNext
    <3>1. ASSUME NEW id \in pending,
                 (\E s \in Sessions : MacApproves(id, s)) \/ MacDenies(id)
          PROVE  ReportInv'
      BY <3>1, SettleReport DEF MacApproves, Approve, MacDenies, Deny
    <3>2. ASSUME NEW s \in Sessions, WorkerAnswers(s)
          PROVE  ReportInv'
      BY <3>2, SettleReport DEF WorkerAnswers, Approve, Deny
    <3>3. ASSUME NEW id, NEW d, NoteAnswerDevice(id, d) \/ ForgetAnswerDevice
          PROVE  ReportInv'
      BY <2>1, <3>3 DEF NoteAnswerDevice, ForgetAnswerDevice
    <3>4. CASE TakeEnded
      BY <2>1, <3>4 DEF TakeEnded
    <3> QED BY <2>3, <3>1, <3>2, <3>3, <3>4 DEF OwnerNext
  <2>4. CASE SystemNext
    <3>1. ASSUME EndEverything PROVE ReportInv'
      <4>1. pending' = {} /\ DOMAIN decisions' = {}
        <5>1. pending' = {} /\ decisions' = <<>>
          BY <3>1 DEF EndEverything, Withdraw
        <5> QED BY <5>1
      <4>2. \A r \in ended' : r \in ended \/ r.id \in pending
        BY <3>1, NoteEndsFacts DEF EndEverything
      <4>3. UNCHANGED <<nextId, reported, pc, ticket, result>>
        BY <3>1 DEF EndEverything, callVars
      <4> QED BY <4>1, <4>2, <4>3, ReportStays DEF EndsOnlyOfLeavers, Told
    <3>2. CASE InvalidateAll \/ CloseInvalidates
      BY <3>1, <3>2 DEF InvalidateAll, CloseInvalidates
    <3>3. CASE CloseFlag
      BY <2>1, <3>3 DEF CloseFlag
    <3>4. ASSUME NEW c \in Calls, Cancel(c) \/ OperationInvalidated(c)
          PROVE  ReportInv'
      BY <2>1, <3>4 DEF Cancel, OperationInvalidated, queueVars
    <3>5. ASSUME NEW id \in DOMAIN questions, DeadlinePasses(id)
          PROVE  ReportInv'
      BY <2>1, <3>5 DEF DeadlinePasses
    <3> QED BY <2>4, <3>2, <3>3, <3>4, <3>5 DEF SystemNext
  <2> QED BY <2>2, <2>3, <2>4, EnterReport, CallStepsReport DEF Next
<1>3. ReportInv => ReportAgrees
  BY DEF ReportInv
<1> QED BY <1>1, <1>2, <1>3, InitInv, StepInv, PTL DEF Spec

(***************************************************************************)
(* The worker hears of every end, while there is room for the ends.        *)
(***************************************************************************)

\* The calls that have asked.
HaveAsked == {c \in Calls : pc[c] # "idle"}

\* Every ID comes from a call that asked, so there are as many ends as calls
\* at most.
EndsInv ==
  /\ EndsReported
  /\ \A r \in ended \cup reported : r.id \in 1..nextId
  /\ nextId <= Cardinality(HaveAsked)

\* The runs of gone end, and no end is dropped.
AllNoted(gone, outcome) ==
  /\ gone \subseteq pending
  /\ ended' = ended \cup {[id |-> i, outcome |-> outcome] : i \in gone}
  /\ reported' = reported

\* While there is room, note_end drops no end.
LEMMA NoteEndsAll ==
  ASSUME TypeOK, QueueCoherent, EndsInv, Cardinality(Calls) <= MaxEnded,
         NEW S, NEW outcome, NoteEnds(S, outcome), reported' = reported
  PROVE  AllNoted(S \cap pending, outcome)
<1> DEFINE new == {[id |-> i, outcome |-> outcome] : i \in S \cap pending}
           all == ended \cup new
<1>1. /\ \A r \in new : r.id \in pending /\ r.outcome = outcome
      /\ \A r, s \in new : r.id = s.id => r = s
  OBVIOUS
<1>2. /\ ended' \in SUBSET all
      /\ Cardinality(ended') = Least(MaxEnded, Cardinality(all))
  BY DEF NoteEnds
<1>3. nextId \in Nat /\ MaxEnded \in Nat
  BY ConstantsAssumption DEF TypeOK
<1> HIDE DEF new
<1>4. \A r \in all : r.id \in 1..nextId
  BY <1>1 DEF EndsInv, QueueCoherent
<1>5. \A r, s \in all : r.id = s.id => r = s
  BY <1>1 DEF EndsInv, EndsReported
<1> HIDE DEF all
<1>6. IsFiniteSet(all) /\ Cardinality(all) <= nextId
  <2> DEFINE idOf == [r \in all |-> r.id]
  <2>1. idOf \in Injection(all, 1..nextId)
    BY <1>4, <1>5 DEF Injection, IsInjective
  <2>2. IsFiniteSet(1..nextId) /\ Cardinality(1..nextId) = nextId
    BY <1>3, FS_Interval
  <2> HIDE DEF idOf
  <2> QED BY <2>1, <2>2, FS_Injection
<1>7. nextId <= MaxEnded
  <2>1. HaveAsked \in SUBSET Calls
    BY DEF HaveAsked
  <2>2. /\ Cardinality(HaveAsked) \in Nat /\ Cardinality(Calls) \in Nat
        /\ Cardinality(HaveAsked) <= Cardinality(Calls)
    BY <2>1, FS_Subset, FS_CardinalityType, ConstantsAssumption
  <2> QED BY <1>3, <2>2 DEF EndsInv
<1>8. Cardinality(all) \in Nat
  BY <1>6, FS_CardinalityType
<1>9. Cardinality(ended') = Cardinality(all)
  BY <1>2, <1>3, <1>6, <1>7, <1>8 DEF Least
<1>10. ended' = all
  BY <1>2, <1>6, <1>9, FS_Subset
<1> QED BY <1>10 DEF AllNoted, all, new

\* A step that notes the end of every run that leaves the queue.
LEMMA NotedReports ==
  ASSUME TypeOK, QueueCoherent, EndsInv, NEW gone, NEW outcome,
         AllNoted(gone, outcome),
         \/ nextId' = nextId /\ pending' = pending \ gone
         \/ nextId' = nextId + 1 /\ pending' = (pending \ gone) \cup {nextId + 1},
         nextId' <= Cardinality(HaveAsked)'
  PROVE  EndsInv'
<1> DEFINE new == {[id |-> i, outcome |-> outcome] : i \in gone}
<1>1. /\ \A r \in new : r.id \in gone
      /\ \A r, s \in new : r.id = s.id => r = s
      /\ \A i \in gone : \E r \in new : r.id = i
  <2>1. ASSUME NEW i \in gone
        PROVE  \E r \in new : r.id = i
    <3>1. [id |-> i, outcome |-> outcome] \in new
      OBVIOUS
    <3> QED BY <3>1
  <2> QED BY <2>1
<1>2. /\ gone \subseteq pending /\ pending \subseteq 1..nextId
      /\ ended' = ended \cup new /\ reported' = reported
  BY DEF AllNoted, QueueCoherent
<1> HIDE DEF new
<1>3. /\ nextId \in Nat /\ 1..nextId \subseteq 1..nextId'
      /\ \A i \in 1..nextId' : i \in 1..nextId \/ i \in pending'
      /\ \A i \in 1..nextId : i \in pending' <=> i \in pending \ gone
  <2>1. nextId \in Nat /\ nextId + 1 \notin 1..nextId
    BY DEF TypeOK
  <2>2. CASE nextId' = nextId /\ pending' = pending \ gone
    BY <2>1, <2>2
  <2>3. CASE /\ nextId' = nextId + 1
             /\ pending' = (pending \ gone) \cup {nextId + 1}
    <3>1. 1..(nextId + 1) = (1..nextId) \cup {nextId + 1}
      BY <2>1
    <3> QED BY <2>1, <2>3, <3>1
  <2> QED BY <2>1, <2>2, <2>3
<1>4. \A r \in ended' \cup reported' :
        r.id \in 1..nextId' /\ r.id \notin pending'
  BY <1>1, <1>2, <1>3 DEF EndsInv, EndsReported
<1>5. \A id \in 1..nextId' :
        id \in pending' \/ \E r \in ended' \cup reported' : r.id = id
  BY <1>1, <1>2, <1>3 DEF EndsInv, EndsReported
<1>6. /\ \A r, s \in ended' \cup reported' : r.id = s.id => r = s
      /\ ended' \cap reported' = {}
  BY <1>1, <1>2 DEF EndsInv, EndsReported
<1> QED BY <1>4, <1>5, <1>6 DEF EndsInv, EndsReported

\* Nothing ends, and nothing is asked.
LEMMA NothingEnds ==
  ASSUME EndsInv, UNCHANGED <<nextId, pending, ended, reported>>,
         nextId <= Cardinality(HaveAsked)'
  PROVE  EndsInv'
BY DEF EndsInv, EndsReported

\* A call that asked has asked, so the calls that have asked are no fewer.
LEMMA AskedStay ==
  ASSUME TypeOK, EndsInv, \A c \in Calls : pc[c] # "idle" => pc'[c] # "idle"
  PROVE  nextId <= Cardinality(HaveAsked)'
<1>1. HaveAsked' \in SUBSET Calls /\ HaveAsked \in SUBSET HaveAsked'
  BY DEF HaveAsked
<1>2. /\ IsFiniteSet(HaveAsked') /\ Cardinality(HaveAsked') \in Nat
      /\ Cardinality(HaveAsked) \in Nat
      /\ Cardinality(HaveAsked) <= Cardinality(HaveAsked')
  BY <1>1, FS_Subset, FS_CardinalityType, ConstantsAssumption
<1> QED BY <1>2 DEF EndsInv, TypeOK

\* A call asks.
LEMMA OneMoreAsked ==
  ASSUME TypeOK, EndsInv, NEW c \in Calls, pc[c] = "idle",
         NEW q, NEW id, NEW turn, Waits(c, q, id, turn)
  PROVE  nextId + 1 <= Cardinality(HaveAsked)'
<1>1. HaveAsked' = HaveAsked \cup {c} /\ c \notin HaveAsked
  BY WaitsFacts DEF HaveAsked
<1>2. HaveAsked \in SUBSET Calls
  BY DEF HaveAsked
<1>3. IsFiniteSet(HaveAsked) /\ Cardinality(HaveAsked) \in Nat
  BY <1>2, FS_Subset, FS_CardinalityType, ConstantsAssumption
<1>4. Cardinality(HaveAsked') = Cardinality(HaveAsked) + 1
  BY <1>1, <1>3, FS_AddElement
<1> QED BY <1>3, <1>4 DEF EndsInv, TypeOK

\* A call that asks notes the end of the question that it replaces.
LEMMA EnterEnds ==
  ASSUME TypeOK, QueueCoherent, EndsInv, Cardinality(Calls) <= MaxEnded,
         NEW c \in Calls, NEW q \in Asks, Enter(c, q)
  PROVE  EndsInv'
<1>1. nextId \in Nat
  BY DEF TypeOK
<1>2. CASE EnterRefused(c, q) \/ EnterBusy(c, q)
  <2>1. /\ UNCHANGED <<nextId, pending, ended, reported>>
        /\ \A d \in Calls : pc[d] # "idle" => pc'[d] # "idle"
    BY <1>2 DEF EnterRefused, EnterBusy, queueVars, Return, TypeOK
  <2> QED BY <2>1, NothingEnds, AskedStay
<1>3. CASE Join(c, q)
  <2>1. PICK id, turn : Waits(c, q, id, turn)
    BY <1>3 DEF Join
  <2>2. UNCHANGED <<nextId, pending, ended, reported>>
    BY <1>3, <2>1 DEF Join, Waits
  <2>3. \A d \in Calls : pc[d] # "idle" => pc'[d] # "idle"
    BY <2>1, WaitsFacts
  <2> QED BY <2>2, <2>3, NothingEnds, AskedStay
<1>4. CASE AskNew(c, q)
  <2>1. /\ pc[c] = "idle" /\ nextId' = nextId + 1
        /\ pending' = pending \cup {nextId + 1}
        /\ UNCHANGED <<ended, reported>>
        /\ Waits(c, q, nextId + 1, 0)
    BY <1>4 DEF AskNew, Waits, Admitted
  <2>2. AllNoted({}, "invalidated")
    BY <2>1 DEF AllNoted
  <2>3. nextId' <= Cardinality(HaveAsked)'
    BY <2>1, OneMoreAsked
  <2>4. pending' = (pending \ {}) \cup {nextId + 1}
    BY <2>1
  <2> QED BY <2>1, <2>2, <2>3, <2>4, NotedReports
<1>5. CASE Replace(c, q)
  <2>1. PICK old \in AskedBy(q.agent) :
          /\ NoteEnds({old}, "invalidated")
          /\ pending' = (pending \ {old}) \cup {nextId + 1}
    BY <1>5 DEF Replace
  <2>2. /\ pc[c] = "idle" /\ nextId' = nextId + 1 /\ reported' = reported
        /\ Waits(c, q, nextId + 1, 0)
    BY <1>5 DEF Replace, Waits, Admitted
  <2>3. AllNoted({old} \cap pending, "invalidated")
    BY <2>1, <2>2, NoteEndsAll
  <2>4. {old} \cap pending = {old}
    BY DEF AskedBy, QueueCoherent
  <2>5. nextId' <= Cardinality(HaveAsked)'
    BY <2>2, OneMoreAsked
  <2> QED BY <2>1, <2>2, <2>3, <2>4, <2>5, NotedReports
<1> QED BY <1>2, <1>3, <1>4, <1>5 DEF Enter

\* Runs of the queue end, and their ends are noted.
LEMMA RunsEnd ==
  ASSUME TypeOK, QueueCoherent, EndsInv, Cardinality(Calls) <= MaxEnded,
         NEW S, NEW outcome, NoteEnds(S, outcome), pending' = pending \ S,
         UNCHANGED <<nextId, reported>>,
         \A c \in Calls : pc[c] # "idle" => pc'[c] # "idle"
  PROVE  EndsInv'
<1>1. AllNoted(S \cap pending, outcome)
  BY NoteEndsAll
<1>2. pending' = pending \ (S \cap pending)
  OBVIOUS
<1>3. nextId' <= Cardinality(HaveAsked)'
  BY AskedStay
<1> QED BY <1>1, <1>2, <1>3, NotedReports

\* No step of a waiting call makes it idle again.
LEMMA CallStepsEnds ==
  ASSUME TypeOK, QueueCoherent, EndsInv, Cardinality(Calls) <= MaxEnded,
         NEW c \in Calls, CallSteps(c)
  PROVE  EndsInv'
<1>1. \A d \in Calls : pc[d] # "idle" => pc'[d] # "idle"
  BY DEF CallSteps, Look, LookReplaced, LookInvalidated, LookSuperseded,
         LookTake, LookGone, LookTimedOut, LookWaits, Revalidate,
         InvalidSuperseded, InvalidEnds, Void, Return, TypeOK
<1>2. ASSUME NEW outcome, Forget(ticket[c].id, outcome),
             UNCHANGED <<nextId, reported>>
      PROVE  EndsInv'
  BY <1>1, <1>2, RunsEnd DEF Forget, Withdraw
<1>3. ASSUME UNCHANGED <<nextId, pending, ended, reported>>
      PROVE  EndsInv'
  BY <1>1, <1>3, NothingEnds, AskedStay
<1>4. CASE Void(c)
  BY <1>2, <1>4 DEF Void
<1>5. CASE LookTimedOut(c)
  BY <1>2, <1>5 DEF LookTimedOut
<1>6. CASE LookReplaced(c) \/ InvalidSuperseded(c) \/ LookTake(c)
  BY <1>3, <1>6 DEF LookReplaced, InvalidSuperseded, LookTake
<1>7. CASE LookSuperseded(c) \/ LookGone(c) \/ LookWaits(c)
  BY <1>3, <1>7 DEF LookSuperseded, LookGone, LookWaits, queueVars
<1>8. ASSUME NEW valid, Revalidate(c, valid)
      PROVE  EndsInv'
  BY <1>3, <1>8 DEF Revalidate, queueVars
<1> QED BY <1>4, <1>5, <1>6, <1>7, <1>8
        DEF CallSteps, Look, LookInvalidated, InvalidEnds

\* While MAX_ENDED is not less than the calls, the worker hears of the end of
\* every run, once, and only when it ended: no copy of a question stays on the
\* relay for a run that is gone (note_end, take_ended).
THEOREM EveryEndReported ==
  ASSUME Cardinality(Calls) <= MaxEnded
  PROVE  Spec => []EndsReported
<1>1. Init => EndsInv
  <2> SUFFICES ASSUME Init PROVE EndsInv
    OBVIOUS
  <2>1. HaveAsked \in SUBSET Calls
    BY DEF HaveAsked
  <2>2. Cardinality(HaveAsked) \in Nat
    BY <2>1, FS_Subset, FS_CardinalityType, ConstantsAssumption
  <2> QED BY <2>2 DEF Init, EndsInv, EndsReported
<1>2. QueueInv /\ EndsInv /\ [Next]_vars => EndsInv'
  <2> SUFFICES ASSUME TypeOK, QueueCoherent, EndsInv, [Next]_vars
               PROVE  EndsInv'
    BY DEF QueueInv
  <2>1. ASSUME UNCHANGED <<nextId, pending, ended, reported, pc>>
        PROVE  EndsInv'
    BY <2>1, NothingEnds, AskedStay
  <2>2. CASE UNCHANGED vars
    BY <2>1, <2>2 DEF vars, queueVars, callVars
  <2>3. ASSUME NEW id, NEW answer, NEW by, Settle(id, answer, by),
               UNCHANGED <<nextId, reported, pc>>
        PROVE  EndsInv'
    BY <2>3, RunsEnd DEF Settle, Withdraw
  <2>4. CASE OwnerNext
    <3>1. ASSUME NEW id \in pending,
                 (\E s \in Sessions : MacApproves(id, s)) \/ MacDenies(id)
          PROVE  EndsInv'
      BY <2>3, <3>1 DEF MacApproves, Approve, MacDenies, Deny, callVars
    <3>2. ASSUME NEW s \in Sessions, WorkerAnswers(s)
          PROVE  EndsInv'
      BY <2>3, <3>2 DEF WorkerAnswers, Approve, Deny, callVars
    <3>3. ASSUME NEW id, NEW d, NoteAnswerDevice(id, d) \/ ForgetAnswerDevice
          PROVE  EndsInv'
      BY <2>1, <3>3 DEF NoteAnswerDevice, ForgetAnswerDevice, callVars
    <3>4. CASE TakeEnded
      <4>1. /\ reported' = reported \cup ended /\ ended' = {}
            /\ UNCHANGED <<nextId, pending, pc>>
        BY <3>4 DEF TakeEnded, callVars
      <4>2. nextId <= Cardinality(HaveAsked)'
        BY <4>1, AskedStay
      <4> QED BY <4>1, <4>2 DEF EndsInv, EndsReported
    <3> QED BY <2>4, <3>1, <3>2, <3>3, <3>4 DEF OwnerNext
  <2>5. CASE SystemNext
    <3>1. ASSUME EndEverything PROVE EndsInv'
      <4> DEFINE S == DOMAIN questions \cup pending \cup DOMAIN answerDevices
      <4>1. /\ NoteEnds(pending, "invalidated") /\ pending' = pending \ S
            /\ UNCHANGED <<nextId, reported, pc>>
        BY <3>1 DEF EndEverything, Withdraw, callVars
      <4>2. pending \ S = pending \ pending
        OBVIOUS
      <4> QED BY <4>1, <4>2, RunsEnd
    <3>2. CASE InvalidateAll \/ CloseInvalidates
      BY <3>1, <3>2 DEF InvalidateAll, CloseInvalidates
    <3>3. CASE CloseFlag
      BY <2>1, <3>3 DEF CloseFlag, callVars
    <3>4. ASSUME NEW c \in Calls, Cancel(c) \/ OperationInvalidated(c)
          PROVE  EndsInv'
      BY <2>1, <3>4 DEF Cancel, OperationInvalidated, queueVars, callVars
    <3>5. ASSUME NEW id \in DOMAIN questions, DeadlinePasses(id)
          PROVE  EndsInv'
      BY <2>1, <3>5 DEF DeadlinePasses, callVars
    <3> QED BY <2>5, <3>2, <3>3, <3>4, <3>5 DEF SystemNext
  <2> QED BY <2>2, <2>4, <2>5, EnterEnds, CallStepsEnds DEF Next
<1>3. EndsInv => EndsReported
  BY DEF EndsInv
<1> QED BY <1>1, <1>2, <1>3, InitInv, StepInv, PTL DEF Spec
=============================================================================
