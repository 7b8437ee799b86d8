--------------------------- MODULE ApprovalQueue ---------------------------
(***************************************************************************)
(* The queue of questions that wait for the owner                          *)
(* (src/broker/approvals.rs).  An agent's call puts a question in the      *)
(* queue and waits; the owner answers on this Mac, or the questions worker *)
(* hands in an answer of a device; the waiting call takes the answer.  The *)
(* same request again joins the question that waits, and a request with    *)
(* changed credentials replaces it.                                        *)
(*                                                                         *)
(* Every action but four is one critical section of the queue's mutex.     *)
(* The exceptions are `Revalidate', which runs without the lock, the       *)
(* deadline that passes, and `Cancel' and `OperationInvalidated', which    *)
(* the mutex of an operation guards (broker/operations.rs).  A call is a   *)
(* thread: between two of its critical sections every other thread may     *)
(* run.                                                                    *)
(*                                                                         *)
(* Abstracted: the texts of a question (its template is a value of         *)
(* Requests), the kinds of approval (they differ in what the broker saves  *)
(* afterwards, RunFlow), the order inside `pending' and `ended', and runs  *)
(* without a known agent, which no caller outside the tests makes.         *)
(***************************************************************************)
EXTENDS Naturals, FiniteSets, Functions

CONSTANTS
  Calls,           \* the threads that ask; each one asks once
  Agents,
  Sessions,        \* vault epochs
  Requests,        \* a run without its IDs and model texts: template_of
  Baselines,       \* digests of the credentials at the first check
  Devices,         \* trusted devices that answer through the relay
  Mac,             \* the owner at this Mac
  NoAsk,           \* what a call that has not asked asks
  MaxGeneration,   \* bound: how often the queue is invalidated
  MaxEnded         \* MAX_ENDED: ends kept for the questions worker

ASSUME ConstantsAssumption ==
  /\ IsFiniteSet(Calls)
  /\ Mac \notin Devices
  /\ MaxGeneration \in Nat
  /\ MaxEnded \in Nat \ {0}
  /\ NoAsk \notin [agent : Agents, session : Sessions,
                   request : Requests, baseline : Baselines]

VARIABLES
  nextId,          \* QueueState.next_id
  generation,      \* QueueState.generation
  stopper,         \* close(): "open", "closing" (the flag is set), "closed"
  pending,         \* QueueState.pending: the IDs of the runs that wait
  questions,       \* QueueState.questions, with the deadline as `due'
  replaced,        \* QueueState.replaced
  decisions,       \* QueueState.decisions
  answerDevices,   \* QueueState.answer_devices
  ended,           \* QueueState.ended
  reported,        \* the ends that take_ended has handed to the worker
  worker,          \* the step of the questions worker in its answer
  pc,              \* where each call is
  ask,             \* the arguments of each call
  ticket,          \* the locals id, turn and generation of each call
  result,          \* what each call returned
  cancelled        \* the calls whose operation was cancelled

queueVars == <<nextId, generation, stopper, pending, questions, replaced,
               decisions, answerDevices, ended>>
callVars == <<pc, ask, ticket, result>>
vars == <<queueVars, reported, worker, callVars, cancelled>>

Asks == [agent : Agents, session : Sessions,
         request : Requests, baseline : Baselines]
Outcomes == {"approved", "denied", "timed_out", "invalidated"}
Answers == {"approved", "denied"}
NoTicket == [id |-> 0, turn |-> 0, generation |-> 0]
NoResult == [outcome |-> "none", of |-> NoAsk]
IdleWorker == [at |-> "idle", id |-> 0, device |-> Mac]

Questions == [of : Asks, turn : Nat, due : BOOLEAN]
Decisions == [answer : Answers, of : Asks,
              answeredOn : Devices \cup {Mac}, by : Devices \cup {Mac}]

-----------------------------------------------------------------------------
(* Helpers *)

Put(f, id, v) == [i \in DOMAIN f \cup {id} |-> IF i = id THEN v ELSE f[i]]
Without(f, S) == Restrict(f, DOMAIN f \ S)

Least(m, n) == IF m <= n THEN m ELSE n

\* Mutant: the end of a run that no longer waits is noted too.
NoteEndsAlways(S, outcome) ==
  ended' = ended \cup {[id |-> i, outcome |-> outcome] : i \in S}

\* A run that waits ends: its end is kept for the worker, and older ends go
\* when there is no room.
NoteEnds(S, outcome) ==
  LET all == ended \cup {[id |-> i, outcome |-> outcome] : i \in S \cap pending}
  IN  ended' \in {kept \in SUBSET all :
                    Cardinality(kept) = Least(MaxEnded, Cardinality(all))}

\* The runs of S leave the queue.
Withdraw(S) ==
  /\ pending' = pending \ S
  /\ questions' = Without(questions, S)
  /\ answerDevices' = Without(answerDevices, S)

Settle(id, answer, by) ==
  /\ NoteEnds({id}, answer)
  /\ Withdraw({id})
  /\ decisions' =
       Put(decisions, id,
           [answer |-> answer,
            of |-> questions[id].of,
            answeredOn |-> IF id \in DOMAIN answerDevices
                             THEN answerDevices[id] ELSE Mac,
            by |-> by])

Forget(id, outcome) == NoteEnds({id}, outcome) /\ Withdraw({id})

Return(c, outcome, of) ==
  /\ pc' = [pc EXCEPT ![c] = "done"]
  /\ result' = [result EXCEPT ![c] = [outcome |-> outcome, of |-> of]]

\* The newest call that joined the question takes the answer.
Superseded(c) ==
  /\ ticket[c].id \in DOMAIN questions
  /\ questions[ticket[c].id].turn # ticket[c].turn

-----------------------------------------------------------------------------
Init ==
  /\ nextId = 0 /\ generation = 0 /\ stopper = "open"
  /\ pending = {} /\ questions = <<>> /\ replaced = {}
  /\ decisions = <<>> /\ answerDevices = <<>>
  /\ ended = {} /\ reported = {}
  /\ worker = IdleWorker
  /\ pc = [c \in Calls |-> "idle"]
  /\ ask = [c \in Calls |-> NoAsk]
  /\ ticket = [c \in Calls |-> NoTicket]
  /\ result = [c \in Calls |-> NoResult]
  /\ cancelled = {}

-----------------------------------------------------------------------------
(* wait(): a call enters the queue. *)

\* Mutant: a question past its deadline is taken for gone.
AskedByNotDue(agent) ==
  {id \in DOMAIN questions : questions[id].of.agent = agent /\ ~questions[id].due}

AskedBy(agent) == {id \in DOMAIN questions : questions[id].of.agent = agent}

\* Mutant: a closed queue still takes runs.
AdmittedWhenClosed(c) == pc[c] = "idle" /\ c \notin cancelled

Admitted(c) == pc[c] = "idle" /\ stopper = "open" /\ c \notin cancelled

\* The call waits with this ticket.
Waits(c, q, id, turn) ==
  /\ pc' = [pc EXCEPT ![c] = "look"]
  /\ ask' = [ask EXCEPT ![c] = q]
  /\ ticket' = [ticket EXCEPT ![c] =
                  [id |-> id, turn |-> turn, generation |-> generation]]
  /\ UNCHANGED <<result, generation, stopper, reported, worker, cancelled,
                 decisions>>

EnterRefused(c, q) ==
  /\ pc[c] = "idle"
  /\ stopper # "open" \/ c \in cancelled
  /\ ask' = [ask EXCEPT ![c] = q]
  /\ Return(c, "invalidated", NoAsk)
  /\ UNCHANGED <<queueVars, reported, worker, ticket, cancelled>>

SameRun(id, q) == /\ questions[id].of.session = q.session
                  /\ questions[id].of.request = q.request

EnterBusy(c, q) ==
  /\ Admitted(c)
  /\ \E id \in AskedBy(q.agent) : ~SameRun(id, q)
  /\ ask' = [ask EXCEPT ![c] = q]
  /\ Return(c, "busy", NoAsk)
  /\ UNCHANGED <<queueVars, reported, worker, ticket, cancelled>>

\* Mutant: a call joins whatever its credentials are.
JoinAnyBaseline(c, q) ==
  /\ Admitted(c)
  /\ \E id \in AskedBy(q.agent) :
       /\ SameRun(id, q)
       /\ questions' = [questions EXCEPT ![id].turn = @ + 1]
       /\ Waits(c, q, id, questions[id].turn + 1)
  /\ UNCHANGED <<nextId, pending, replaced, answerDevices, ended>>

\* Mutant: the turn counts down.
JoinCountsDown(c, q) ==
  /\ Admitted(c)
  /\ \E id \in AskedBy(q.agent) :
       /\ SameRun(id, q)
       /\ questions[id].of.baseline = q.baseline
       /\ questions' = [questions EXCEPT ![id].turn = @ - 1]
       /\ Waits(c, q, id, questions[id].turn - 1)
  /\ UNCHANGED <<nextId, pending, replaced, answerDevices, ended>>

Join(c, q) ==
  /\ Admitted(c)
  /\ \E id \in AskedBy(q.agent) :
       /\ SameRun(id, q)
       /\ questions[id].of.baseline = q.baseline
       /\ questions' = [questions EXCEPT ![id].turn = @ + 1]
       /\ Waits(c, q, id, questions[id].turn + 1)
  /\ UNCHANGED <<nextId, pending, replaced, answerDevices, ended>>

\* Mutant: a new question takes the last ID again.
AskReusesId(c, q) ==
  /\ Admitted(c)
  /\ AskedBy(q.agent) = {}
  /\ nextId' = 1
  /\ pending' = pending \cup {1}
  /\ questions' = Put(questions, 1, [of |-> q, turn |-> 0, due |-> FALSE])
  /\ Waits(c, q, 1, 0)
  /\ UNCHANGED <<replaced, answerDevices, ended>>

AskNew(c, q) ==
  /\ Admitted(c)
  /\ AskedBy(q.agent) = {}
  /\ nextId' = nextId + 1
  /\ pending' = pending \cup {nextId + 1}
  /\ questions' = Put(questions, nextId + 1,
                      [of |-> q, turn |-> 0, due |-> FALSE])
  /\ Waits(c, q, nextId + 1, 0)
  /\ UNCHANGED <<replaced, answerDevices, ended>>

\* A credential changed after the question showed: it ends, and this call
\* asks again.
Replace(c, q) ==
  /\ Admitted(c)
  /\ \E old \in AskedBy(q.agent) :
       /\ SameRun(old, q)
       /\ questions[old].of.baseline # q.baseline
       /\ NoteEnds({old}, "invalidated")
       /\ nextId' = nextId + 1
       /\ pending' = (pending \ {old}) \cup {nextId + 1}
       /\ questions' = Put(Without(questions, {old}), nextId + 1,
                           [of |-> q, turn |-> 0, due |-> FALSE])
       /\ answerDevices' = Without(answerDevices, {old})
       /\ replaced' = replaced \cup {old}
  /\ Waits(c, q, nextId + 1, 0)

Enter(c, q) ==
  EnterRefused(c, q) \/ EnterBusy(c, q) \/ Join(c, q) \/ AskNew(c, q)
    \/ Replace(c, q)

-----------------------------------------------------------------------------
(* wait(): one turn of the loop, under the lock.  The guards follow the    *)
(* order of the checks in the code.                                        *)

NotReplaced(c) == pc[c] = "look" /\ ticket[c].id \notin replaced

SessionGone(c) == ticket[c].generation # generation \/ c \in cancelled

LookReplaced(c) ==
  /\ pc[c] = "look"
  /\ ticket[c].id \in replaced
  /\ replaced' = replaced \ {ticket[c].id}
  /\ Return(c, "superseded", NoAsk)
  /\ UNCHANGED <<nextId, generation, stopper, pending, questions, decisions,
                 answerDevices, ended, reported, worker, ask, ticket,
                 cancelled>>

\* Mutant: the call returns and leaves its run in the queue.
VoidLeavesRun(c) ==
  /\ decisions' = Without(decisions, {ticket[c].id})
  /\ Return(c, "invalidated", NoAsk)
  /\ UNCHANGED <<nextId, generation, stopper, pending, questions, replaced,
                 answerDevices, ended, reported, worker, ask, ticket,
                 cancelled>>

\* The run and an answer to it that nobody used yet are void.
Void(c) ==
  /\ Forget(ticket[c].id, "invalidated")
  /\ decisions' = Without(decisions, {ticket[c].id})
  /\ Return(c, "invalidated", NoAsk)
  /\ UNCHANGED <<nextId, generation, stopper, replaced, reported, worker,
                 ask, ticket, cancelled>>

LookInvalidated(c) == NotReplaced(c) /\ SessionGone(c) /\ Void(c)

LookSuperseded(c) ==
  /\ NotReplaced(c) /\ ~SessionGone(c)
  /\ Superseded(c)
  /\ Return(c, "superseded", NoAsk)
  /\ UNCHANGED <<queueVars, reported, worker, ask, ticket, cancelled>>

Current(c) == NotReplaced(c) /\ ~SessionGone(c) /\ ~Superseded(c)

\* Mutant: the answer is read and not removed.
LookPeeks(c) ==
  /\ Current(c)
  /\ ticket[c].id \in DOMAIN decisions
  /\ LET d == decisions[ticket[c].id] IN Return(c, d.answer, d.of)
  /\ UNCHANGED <<queueVars, reported, worker, ask, ticket, cancelled>>

LookTake(c) ==
  /\ Current(c)
  /\ ticket[c].id \in DOMAIN decisions
  /\ LET d == decisions[ticket[c].id] IN Return(c, d.answer, d.of)
  /\ decisions' = Without(decisions, {ticket[c].id})
  /\ UNCHANGED <<nextId, generation, stopper, pending, questions, replaced,
                 answerDevices, ended, reported, worker, ask, ticket,
                 cancelled>>

LookGone(c) ==
  /\ Current(c)
  /\ ticket[c].id \notin DOMAIN decisions \cup pending
  /\ Return(c, "invalidated", NoAsk)
  /\ UNCHANGED <<queueVars, reported, worker, ask, ticket, cancelled>>

\* No answer yet: the call still waits for its question.
StillAsks(c) == /\ Current(c)
                /\ ticket[c].id \notin DOMAIN decisions
                /\ ticket[c].id \in pending

\* Mutant: a timeout is reported as an invalid session.
LookTimedOutMisreported(c) ==
  /\ StillAsks(c)
  /\ questions[ticket[c].id].due
  /\ Forget(ticket[c].id, "invalidated")
  /\ Return(c, "timed_out", NoAsk)
  /\ UNCHANGED <<nextId, generation, stopper, replaced, decisions, reported,
                 worker, ask, ticket, cancelled>>

\* Mutant: only the call that asked first times out.
LookTimedOutFirst(c) ==
  /\ StillAsks(c)
  /\ questions[ticket[c].id].due /\ ticket[c].turn = 0
  /\ Forget(ticket[c].id, "timed_out")
  /\ Return(c, "timed_out", NoAsk)
  /\ UNCHANGED <<nextId, generation, stopper, replaced, decisions, reported,
                 worker, ask, ticket, cancelled>>

LookTimedOut(c) ==
  /\ StillAsks(c)
  /\ questions[ticket[c].id].due
  /\ Forget(ticket[c].id, "timed_out")
  /\ Return(c, "timed_out", NoAsk)
  /\ UNCHANGED <<nextId, generation, stopper, replaced, decisions, reported,
                 worker, ask, ticket, cancelled>>

LookWaits(c) ==
  /\ StillAsks(c)
  /\ ~questions[ticket[c].id].due
  /\ pc' = [pc EXCEPT ![c] = "check"]
  /\ UNCHANGED <<queueVars, reported, worker, ask, ticket, result, cancelled>>

Look(c) == LookReplaced(c) \/ LookInvalidated(c) \/ LookSuperseded(c)
             \/ LookTake(c) \/ LookGone(c) \/ LookTimedOut(c) \/ LookWaits(c)

-----------------------------------------------------------------------------
(* wait(): after a wake, or after WATCH_INTERVAL without one, the call     *)
(* checks its vault session without the queue lock.                        *)

Revalidate(c, stillValid) ==
  /\ pc[c] = "check"
  /\ pc' = [pc EXCEPT ![c] = IF stillValid THEN "look" ELSE "invalid"]
  /\ UNCHANGED <<queueVars, reported, worker, ask, ticket, result, cancelled>>

InvalidSuperseded(c) ==
  /\ pc[c] = "invalid"
  /\ ticket[c].id \in replaced \/ Superseded(c)
  /\ replaced' = replaced \ {ticket[c].id}
  /\ Return(c, "superseded", NoAsk)
  /\ UNCHANGED <<nextId, generation, stopper, pending, questions, decisions,
                 answerDevices, ended, reported, worker, ask, ticket,
                 cancelled>>

InvalidEnds(c) ==
  /\ pc[c] = "invalid"
  /\ ticket[c].id \notin replaced /\ ~Superseded(c)
  /\ Void(c)

-----------------------------------------------------------------------------
(* The owner at this Mac, and the questions worker. *)

\* approve, deny and their variants: the run waits, and the proof of an
\* approval is of the vault session of the question.
Approve(id, session, by) ==
  /\ id \in pending
  /\ id \in DOMAIN questions => questions[id].of.session = session
  /\ Settle(id, "approved", by)

Deny(id, by) == id \in pending /\ Settle(id, "denied", by)

MacApproves(id, session) ==
  /\ Approve(id, session, Mac)
  /\ UNCHANGED <<nextId, generation, stopper, replaced, reported, worker,
                 callVars, cancelled>>

MacDenies(id) ==
  /\ Deny(id, Mac)
  /\ UNCHANGED <<nextId, generation, stopper, replaced, reported, worker,
                 callVars, cancelled>>

\* note_answer_device: the worker names the device of the answer it is about
\* to hand in.  The run may have ended since the worker read it.
NoteAnswerDevice(id, device) ==
  /\ worker.at = "idle"
  /\ worker' = [at |-> "noted", id |-> id, device |-> device]
  /\ answerDevices' = IF id \in pending THEN Put(answerDevices, id, device)
                                        ELSE answerDevices
  /\ UNCHANGED <<nextId, generation, stopper, pending, questions, replaced,
                 decisions, ended, reported, callVars, cancelled>>

WorkerAnswers(session) ==
  /\ worker.at = "noted"
  /\ \/ Approve(worker.id, session, worker.device)
     \/ Deny(worker.id, worker.device)
  /\ worker' = [worker EXCEPT !.at = "answered"]
  /\ UNCHANGED <<nextId, generation, stopper, replaced, reported, callVars,
                 cancelled>>

\* Mutant: the device is forgotten only after an answer that counted.
ForgetAnsweredDevice ==
  /\ worker.at \in {"noted", "answered"}
  /\ answerDevices' = IF worker.at = "answered"
                        THEN Without(answerDevices, {worker.id})
                        ELSE answerDevices
  /\ worker' = IdleWorker
  /\ UNCHANGED <<nextId, generation, stopper, pending, questions, replaced,
                 decisions, ended, reported, callVars, cancelled>>

\* forget_answer_device, also after an answer that the queue refused.
ForgetAnswerDevice ==
  /\ worker.at \in {"noted", "answered"}
  /\ answerDevices' = Without(answerDevices, {worker.id})
  /\ worker' = IdleWorker
  /\ UNCHANGED <<nextId, generation, stopper, pending, questions, replaced,
                 decisions, ended, reported, callVars, cancelled>>

\* take_ended.  Without a device on the relay no worker runs.
TakeEnded ==
  /\ Devices # {}
  /\ ended # {}
  /\ reported' = reported \cup ended
  /\ ended' = {}
  /\ UNCHANGED <<nextId, generation, stopper, pending, questions, replaced,
                 decisions, answerDevices, worker, callVars, cancelled>>

-----------------------------------------------------------------------------
(* The vault locks, the broker stops, the agent cancels, time passes. *)

\* Mutant: the ends are not noted.
EndSilently ==
  /\ generation' = generation + 1
  /\ Withdraw(DOMAIN questions \cup pending \cup DOMAIN answerDevices)
  /\ decisions' = <<>>
  /\ UNCHANGED <<nextId, replaced, reported, worker, callVars, cancelled, ended>>

EndEverything ==
  /\ generation' = generation + 1
  /\ NoteEnds(pending, "invalidated")
  /\ Withdraw(DOMAIN questions \cup pending \cup DOMAIN answerDevices)
  /\ decisions' = <<>>
  /\ UNCHANGED <<nextId, replaced, reported, worker, callVars, cancelled>>

InvalidateAll ==
  /\ generation < MaxGeneration
  /\ EndEverything
  /\ UNCHANGED stopper

\* close(): two critical sections.
CloseFlag ==
  /\ stopper = "open"
  /\ stopper' = "closing"
  /\ UNCHANGED <<nextId, generation, pending, questions, replaced, decisions,
                 answerDevices, ended, reported, worker, callVars, cancelled>>

CloseInvalidates ==
  /\ stopper = "closing"
  /\ stopper' = "closed"
  /\ EndEverything

Cancel(c) ==
  /\ pc[c] # "done"
  /\ c \notin cancelled
  /\ cancelled' = cancelled \cup {c}
  /\ UNCHANGED <<queueVars, reported, worker, callVars>>

\* The end of the vault session invalidates the operation: the wait no longer
\* ends for its cancellation, but for the session.
OperationInvalidated(c) ==
  /\ c \in cancelled
  /\ cancelled' = cancelled \ {c}
  /\ UNCHANGED <<queueVars, reported, worker, callVars>>

DeadlinePasses(id) ==
  /\ ~questions[id].due
  /\ questions' = [questions EXCEPT ![id].due = TRUE]
  /\ UNCHANGED <<nextId, generation, stopper, pending, replaced, decisions,
                 answerDevices, ended, reported, worker, callVars, cancelled>>

-----------------------------------------------------------------------------
\* One step of the thread of a call that waits.
CallSteps(c) ==
  \/ Look(c)
  \/ \E valid \in BOOLEAN : Revalidate(c, valid)
  \/ InvalidSuperseded(c)
  \/ InvalidEnds(c)

OwnerNext ==
  \/ \E id \in pending :
       (\E s \in Sessions : MacApproves(id, s)) \/ MacDenies(id)
  \/ \E id \in 1..nextId, d \in Devices : NoteAnswerDevice(id, d)
  \/ \E s \in Sessions : WorkerAnswers(s)
  \/ ForgetAnswerDevice
  \/ TakeEnded

SystemNext ==
  \/ InvalidateAll
  \/ CloseFlag
  \/ CloseInvalidates
  \/ \E c \in Calls : Cancel(c) \/ OperationInvalidated(c)
  \/ \E id \in DOMAIN questions : DeadlinePasses(id)

Next ==
  \/ \E c \in Calls : (\E q \in Asks : Enter(c, q)) \/ CallSteps(c)
  \/ OwnerNext
  \/ SystemNext

Spec == Init /\ [][Next]_vars

\* The condition variable wakes a call at least every WATCH_INTERVAL, and
\* time passes.  Nothing makes the owner answer.
Fairness ==
  /\ \A c \in Calls : WF_vars(CallSteps(c))
  /\ \A id \in 1..Cardinality(Calls) :
       WF_vars(id \in DOMAIN questions /\ DeadlinePasses(id))

LiveSpec == Spec /\ Fairness

-----------------------------------------------------------------------------
(* The type invariant. *)

TypeOK ==
  /\ nextId \in Nat /\ generation \in Nat
  /\ stopper \in {"open", "closing", "closed"}
  /\ pending \in SUBSET Nat
  /\ DOMAIN questions \in SUBSET Nat
  /\ questions \in [DOMAIN questions -> Questions]
  /\ replaced \in SUBSET Nat
  /\ DOMAIN decisions \in SUBSET Nat
  /\ decisions \in [DOMAIN decisions -> Decisions]
  /\ DOMAIN answerDevices \in SUBSET Nat
  /\ answerDevices \in [DOMAIN answerDevices -> Devices]
  /\ ended \in SUBSET [id : Nat, outcome : Outcomes]
  /\ reported \in SUBSET [id : Nat, outcome : Outcomes]
  /\ worker \in [at : {"idle", "noted", "answered"}, id : Nat,
                 device : Devices \cup {Mac}]
  /\ pc \in [Calls -> {"idle", "look", "check", "invalid", "done"}]
  /\ ask \in [Calls -> Asks \cup {NoAsk}]
  /\ ticket \in [Calls -> [id : Nat, turn : Nat, generation : Nat]]
  /\ result \in [Calls -> [outcome : Outcomes \cup {"none", "busy", "superseded"},
                           of : Asks \cup {NoAsk}]]
  /\ cancelled \in SUBSET Calls
-----------------------------------------------------------------------------
(* Properties. *)

Waiting(c) == pc[c] \in {"look", "check", "invalid"}

\* ADR 0025: an agent has at most one waiting question, whatever it joins or
\* replaces.
OneQuestionPerAgent ==
  \A i, j \in DOMAIN questions :
    questions[i].of.agent = questions[j].of.agent => i = j

\* The parts of the queue that name the same waiting runs agree after every
\* critical section: a run waits exactly as long as its question, and no run
\* both waits and has its answer.
QueueCoherent ==
  /\ DOMAIN questions = pending
  /\ pending \cap DOMAIN decisions = {}
  /\ replaced \cap (pending \cup DOMAIN decisions) = {}
  /\ pending \cup DOMAIN decisions \cup replaced \subseteq 1..nextId

\* One answer starts one run (wait_for_question): two calls never both get
\* the answer to a question, however they joined it.
OneAnswerOneRun ==
  \A c, d \in Calls :
    /\ result[c].outcome \in Answers /\ result[d].outcome \in Answers
    /\ ticket[c].id = ticket[d].id
    => c = d

\* "An answer always covers the credentials as they were when its question
\* showed": the question that the owner answered is the agent, the session,
\* the request and the credentials of the call that gets the answer.
AnswerCoversCall ==
  \A c \in Calls : result[c].outcome \in Answers => result[c].of = ask[c]

\* No question waits and no answer is kept for nobody: the newest call of a
\* question, and some call of an answer or of a replaced question, is still
\* in its wait in the generation of the queue.  After close() returned nothing
\* waits and no answer is left, whatever calls arrived while it ran.
SomeoneListens ==
  /\ \A id \in pending : \E c \in Calls :
       /\ Waiting(c)
       /\ ticket[c] = [id |-> id, turn |-> questions[id].turn,
                       generation |-> generation]
  /\ \A id \in DOMAIN decisions : \E c \in Calls :
       Waiting(c) /\ ticket[c].id = id /\ ticket[c].generation = generation
  /\ \A id \in replaced : \E c \in Calls : Waiting(c) /\ ticket[c].id = id
  /\ stopper = "closed" => pending = {} /\ DOMAIN decisions = {}

\* The worker hears of the end of every run, once, and only when it ended: its
\* copy of a question on the relay never waits for a run that is gone.  (There
\* is room for every end.)
EndsReported ==
  /\ \A id \in 1..nextId :
       id \in pending \/ \E r \in ended \cup reported : r.id = id
  /\ \A r, s \in ended \cup reported : r.id = s.id => r = s
  /\ ended \cap reported = {}
  /\ \A r \in ended \cup reported : r.id \notin pending

\* What the worker hears is what a call got.  (An approval that became void
\* before its call took it is still reported as an approval.)
ReportAgrees ==
  \A c \in Calls, r \in ended \cup reported :
    /\ r.id = ticket[c].id
    /\ result[c].outcome \in Answers \cup {"timed_out"}
    => r.outcome = result[c].outcome

\* The name of a device stays in the queue only while the worker hands in
\* the answer of this device to this run.
NoLeftoverDevice ==
  \A id \in DOMAIN answerDevices :
    /\ worker.at = "noted" /\ worker.id = id
    /\ answerDevices[id] = worker.device

\* Every call that waits ends: by an answer, by its deadline, or because a
\* newer call or the end of its session put it aside.
CallsEnd == \A c \in Calls : Waiting(c) ~> pc[c] = "done"

-----------------------------------------------------------------------------
(* The inductive invariant behind OneAnswerOneRun and AnswerCoversCall.    *)

\* A call that waits has the ticket of an issued question, and the question
\* and its answer are about this call.
TicketsMatch ==
  \A c \in Calls : Waiting(c) =>
    /\ ticket[c].id \in 1..nextId
    /\ ask[c] \in Asks
    /\ ticket[c].id \in DOMAIN questions => questions[ticket[c].id].of = ask[c]
    /\ ticket[c].id \in DOMAIN decisions => decisions[ticket[c].id].of = ask[c]

\* The answer that a call got has left the queue.
AnswersUsed ==
  \A c \in Calls : result[c].outcome \in Answers =>
    /\ pc[c] = "done"
    /\ ticket[c].id \in 1..nextId
    /\ ticket[c].id \notin pending \cup DOMAIN decisions

QueueInv ==
  /\ TypeOK
  /\ QueueCoherent
  /\ OneQuestionPerAgent
  /\ TicketsMatch
  /\ AnswersUsed
  /\ OneAnswerOneRun
  /\ AnswerCoversCall

-----------------------------------------------------------------------------
(* What the queue promises (OneAnswer), with the state of a question read    *)
(* off the queue and off the calls.                                        *)

Takers(id) ==
  {c \in Calls : ticket[c].id = id /\ result[c].outcome \in Answers}

Status(id) ==
  CASE id > nextId -> "unasked"
    [] id <= nextId /\ id \in pending -> "waiting"
    [] id <= nextId /\ id \notin pending /\ id \in DOMAIN decisions -> "answered"
    [] id <= nextId /\ id \notin pending \cup DOMAIN decisions ->
         IF Takers(id) # {} THEN "taken" ELSE "ended"

Ids == 1..Cardinality(Calls)

Promise == INSTANCE OneAnswer
             WITH status <- [id \in Ids |-> Status(id)],
                  takers <- [id \in Ids |-> Takers(id)]

KeepsPromise == Promise!Spec
=============================================================================
