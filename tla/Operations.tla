----------------------------- MODULE Operations -----------------------------
(***************************************************************************)
(* The table of operations of the broker (src/broker/operations.rs).  An   *)
(* agent submits a call under an operation ID, with or without an          *)
(* idempotency key; it asks for the status of the call, and it cancels it, *)
(* also before the call arrived.  The call runs at most once while its     *)
(* record is kept, and a call that was cancelled before its effect has no  *)
(* effect.  The end of a vault session ends its operations.                *)
(*                                                                         *)
(* An action is one critical section of one mutex: the vault, the table of *)
(* records, or the state of one operation (`Control').  The code takes the *)
(* state of an operation while it holds the table or the vault, never the  *)
(* other way round.                                                        *)
(*                                                                         *)
(* Abstracted: an action is one of four kinds (a use of a credential, a    *)
(* use with the reference of an access request, a short change, a scoped   *)
(* access request), and its kind stands for the keyed digest of its        *)
(* arguments; the decision on a call (policy, model, owner) is a choice;   *)
(* 15 minutes pass for a finished operation in one step.                   *)
(***************************************************************************)
EXTENDS Naturals, FiniteSets, Functions

CONSTANTS
  Calls,           \* the threads of submitted calls; each one submits once
  Inquiries,       \* the threads of status and cancel requests
  Agents, Ids, Keys,
  NoKey, NoScope,
  Submissions,     \* the tracked calls that agents submit
  Untracked,       \* the calls that older adapters submit without an ID
  Questions,       \* the status and cancel requests
  MaxEpoch,        \* bound: vault sessions
  MaxRecords,      \* MAX_RECORDS
  MaxActive,       \* MAX_ACTIVE
  MaxAgentActive,  \* MAX_AGENT_ACTIVE
  MaxAgentRecords  \* MAX_AGENT_RECORDS

ASSUME LimitsAssumption ==
  /\ MaxEpoch \in Nat \ {0}
  /\ MaxRecords \in Nat /\ MaxActive \in Nat
  /\ MaxAgentActive \in Nat /\ MaxAgentRecords \in Nat

Kinds == {"use", "once", "change", "access"}

ASSUME RequestsAssumption ==
  /\ Submissions \subseteq [kind : Kinds, agent : Agents, id : Ids,
                            key : Keys \cup {NoKey}]
  /\ Untracked \subseteq [kind : Kinds, agent : Agents]
  /\ Questions \subseteq [kind : {"status", "cancel"}, agent : Agents, id : Ids]

ASSUME NamesAssumption ==
  /\ Calls \cap Inquiries = {}
  /\ Calls \cap Ids = {}
  /\ NoKey \notin Keys
  /\ NoScope \notin [epoch : Nat, agent : Agents]

VARIABLES
  vault,           \* the session: its epoch, and "open", "ending" or "locked"
  session,         \* Operations.session: the epoch it has records of, or 0
  records,         \* Operations.records
  control,         \* the Control of each call, and of each tombstone
  pc,              \* where each thread is
  op,              \* what each thread asked for
  scope,           \* the vault session and the agent of each thread
  told,            \* what each thread was told
  access,          \* the scoped access request that a call made
  effects          \* the calls whose effect began

vars == <<vault, session, records, control, pc, op, scope, told, access,
          effects>>

Threads == Calls \cup Inquiries
Scopes == [epoch : Nat, agent : Agents]

\* An untracked call gets a random ID that nobody else names: its own name.
Legacy(c) == op[c].id = c
OwnId(c, o) == [kind |-> o.kind, agent |-> o.agent, key |-> NoKey, id |-> c]

\* State::default(), and the fields of a Control that matter here.
NewControl == [invalidated |-> FALSE, cancelled |-> FALSE, started |-> FALSE,
               waiting |-> FALSE, outcome |-> "none", finished |-> "no",
               bound |-> FALSE]

NoOp == [kind |-> "none"]
NotTold == [what |-> "nothing"]

\* The outcome of a receipt, as summary() keeps it.
Receipt(k) == [what |-> "receipt", of |-> k, outcome |-> control[k].outcome,
               cancelled |-> control[k].cancelled,
               mayHaveRun |-> control[k].started]

Init ==
  /\ vault = [epoch |-> 1, phase |-> "open"]
  /\ session = 0
  /\ records = <<>>
  /\ control = [k \in Threads |-> NewControl]
  /\ pc = [t \in Threads |-> "idle"]
  /\ op = [t \in Threads |-> NoOp]
  /\ scope = [t \in Threads |-> NoScope]
  /\ told = [t \in Threads |-> NotTold]
  /\ access = [c \in Calls |-> "none"]
  /\ effects = {}

-----------------------------------------------------------------------------
(* Helpers *)

Goto(t, where) == pc' = [pc EXCEPT ![t] = where]

Answer(t, what) == /\ told' = [told EXCEPT ![t] = [what |-> what]]
                   /\ Goto(t, "done")

\* clear_records: every operation of the table is invalid.
Cleared == [k \in Threads |->
              IF \E id \in DOMAIN records : records[id].control = k
                THEN [control[k] EXCEPT !.cancelled = TRUE,
                                        !.invalidated = TRUE,
                                        !.outcome = "none"]
                ELSE control[k]]

ClearRecords == control' = Cleared /\ records' = <<>>

\* Records that are old go at each request.
Retained == Restrict(records, {id \in DOMAIN records :
                                 control[records[id].control].finished # "old"})

OfScope(table, s) == {id \in DOMAIN table : table[id].scope = s}
Active(table) == {id \in DOMAIN table :
                    control[table[id].control].finished = "no"}

\* start_effect.
MayStart(k) == /\ ~control[k].invalidated
               /\ control[k].cancelled => control[k].started

\* cancelled().
Cancelled(k) == control[k].cancelled /\ ~control[k].invalidated

-----------------------------------------------------------------------------
(* Both kinds of requests: authenticate under the vault mutex.  The first   *)
(* request of a session registers the cleanup that ends it.                 *)

Authenticate(t, o, next) ==
  /\ pc[t] = "idle"
  /\ vault.phase # "ending"
  /\ op' = [op EXCEPT ![t] = o]
  /\ IF vault.phase = "locked"
       THEN /\ Answer(t, "locked")
            /\ UNCHANGED <<session, records, control, scope>>
       ELSE /\ scope' = [scope EXCEPT ![t] =
                           [epoch |-> vault.epoch, agent |-> o.agent]]
            /\ IF session # vault.epoch
                 THEN ClearRecords /\ session' = vault.epoch
                 ELSE UNCHANGED <<session, records, control>>
            /\ Goto(t, next)
            /\ UNCHANGED told
  /\ UNCHANGED <<vault, access, effects>>

\* Mutant: nobody looks whether the session is over.
SessionNeverOver(t) == FALSE

\* A lock can occur after authentication but before table admission.
SessionOver(t) == session # scope[t].epoch

Late(t, at) ==
  /\ pc[t] = at
  /\ SessionOver(t)
  /\ Answer(t, "locked")
  /\ UNCHANGED <<vault, session, records, control, op, scope, access, effects>>

-----------------------------------------------------------------------------
(* A submitted call. *)

Submit(c, o) == Authenticate(c, o, "admit")

\* Mutant: only the key of a call is looked for.
KnownByKeyOnly(c) ==
  {id \in OfScope(Retained, scope[c]) :
     op[c].key # NoKey /\ Retained[id].key = op[c].key}

\* The record of an earlier submission: by its key, else by its ID.
Known(c) ==
  LET byKey == {id \in OfScope(Retained, scope[c]) :
                  op[c].key # NoKey /\ Retained[id].key = op[c].key}
  IN  IF byKey # {} THEN byKey ELSE {op[c].id} \cap DOMAIN Retained

\* A retry: it gets the receipt of the first submission or a conflict, and
\* a tombstone takes the key and the arguments of the call it was for.
AdmitKnown(c) ==
  /\ pc[c] = "admit" /\ ~SessionOver(c)
  /\ \E id \in Known(c) :
       LET r == Retained[id] IN
       \/ /\ r.scope # scope[c]
          /\ Answer(c, "operation_conflict")
          /\ records' = Retained
       \/ /\ r.scope = scope[c] /\ op[c].kind = "once"
          /\ Answer(c, "access_once_unavailable")
          /\ records' = Retained
       \/ /\ r.scope = scope[c] /\ op[c].kind # "once"
          /\ r.fingerprint \notin {op[c].kind, "unknown"}
          /\ Answer(c, "idempotency_conflict")
          /\ records' = Retained
       \/ /\ r.scope = scope[c] /\ op[c].kind # "once"
          /\ r.fingerprint \in {op[c].kind, "unknown"}
          /\ records' = IF r.fingerprint = "unknown"
                          THEN [Retained EXCEPT ![id].fingerprint = op[c].kind,
                                                ![id].key = op[c].key]
                          ELSE Retained
          /\ told' = [told EXCEPT ![c] = Receipt(r.control)]
          /\ Goto(c, "done")
  /\ UNCHANGED <<vault, session, control, op, scope, access, effects>>

\* Mutant: operations that wait or run do not count.
RoomForFinished(c) ==
  /\ Cardinality(DOMAIN Retained) < MaxRecords
  /\ Cardinality(OfScope(Retained, scope[c])) < MaxAgentRecords

Room(c) ==
  /\ Cardinality(DOMAIN Retained) < MaxRecords
  /\ Cardinality(Active(Retained)) < MaxActive
  /\ Cardinality(OfScope(Retained, scope[c])) < MaxAgentRecords
  /\ Cardinality(Active(Retained) \cap OfScope(Retained, scope[c]))
       < MaxAgentActive

AdmitBusy(c) ==
  /\ pc[c] = "admit" /\ ~SessionOver(c)
  /\ Known(c) = {} /\ ~Room(c)
  /\ records' = Retained
  /\ Answer(c, "busy")
  /\ UNCHANGED <<vault, session, control, op, scope, access, effects>>

Put(f, x, v) == [y \in DOMAIN f \cup {x} |-> IF y = x THEN v ELSE f[y]]

AdmitNew(c) ==
  /\ pc[c] = "admit" /\ ~SessionOver(c)
  /\ Known(c) = {} /\ Room(c)
  /\ records' = Put(Retained, op[c].id,
                    [scope |-> scope[c], fingerprint |-> op[c].kind,
                     key |-> op[c].key, control |-> c])
  /\ Goto(c, IF op[c].kind \in {"use", "once"} THEN "enter" ELSE "begin")
  /\ UNCHANGED <<vault, session, control, op, scope, told, access, effects>>

\* The handler returns with this response; Finish() stores it.
Reply(c, what) == /\ told' = [told EXCEPT ![c] = [what |-> what]]
                  /\ Goto(c, "finish")

\* Mutant: a cancellation before the effect does not stop it.
StartUnlessInvalid(c, at, next) ==
  /\ pc[c] = at
  /\ IF ~control[c].invalidated
       THEN /\ control' = [control EXCEPT ![c].started = TRUE]
            /\ Goto(c, next)
            /\ UNCHANGED told
       ELSE /\ Reply(c, "cancelled")
            /\ UNCHANGED control
  /\ UNCHANGED <<vault, session, records, op, scope, access, effects>>

\* start_effect, at the boundary `at'.
Start(c, at, next) ==
  /\ pc[c] = at
  /\ IF MayStart(c)
       THEN /\ control' = [control EXCEPT ![c].started = TRUE]
            /\ Goto(c, next)
            /\ UNCHANGED told
       ELSE /\ Reply(c, "cancelled")
            /\ UNCHANGED control
  /\ UNCHANGED <<vault, session, records, op, scope, access, effects>>

\* A short mutation is marked before its authorization.
Begin(c) == Start(c, "begin", "enter")

\* The handler authenticates again: the vault must still be in the session
\* of the operation.
SessionMatches(c) == vault.phase = "open" /\ vault.epoch = scope[c].epoch

EnterLocked(c) ==
  /\ pc[c] = "enter"
  /\ vault.phase # "ending"
  /\ ~SessionMatches(c)
  /\ Reply(c, "locked")
  /\ UNCHANGED <<vault, session, records, control, op, scope, access, effects>>

\* A change takes effect in the critical section that authenticates it.
EnterChanges(c) ==
  /\ pc[c] = "enter" /\ op[c].kind = "change"
  /\ SessionMatches(c)
  /\ effects' = effects \cup {c}
  /\ Reply(c, "ok")
  /\ UNCHANGED <<vault, session, records, control, op, scope, access>>

\* Mutant: a cancellation before the binding is not applied.
BindIgnoresCancel(c) ==
  /\ pc[c] = "enter" /\ op[c].kind = "access"
  /\ SessionMatches(c)
  /\ control' = [control EXCEPT ![c].bound = TRUE]
  /\ access' = [access EXCEPT ![c] = "open"]
  /\ effects' = effects \cup {c}
  /\ Reply(c, "ok")
  /\ UNCHANGED <<vault, session, records, op, scope>>

\* A scoped access request is created and bound under the vault mutex.  A
\* cancellation before the binding is applied here.
EnterBinds(c) ==
  /\ pc[c] = "enter" /\ op[c].kind = "access"
  /\ SessionMatches(c)
  /\ control' = [control EXCEPT ![c].bound = TRUE]
  /\ IF control[c].cancelled \/ control[c].invalidated
       THEN /\ access' = [access EXCEPT ![c] = "withdrawn"]
            /\ Reply(c, "cancelled")
            /\ UNCHANGED effects
       ELSE /\ access' = [access EXCEPT ![c] = "open"]
            /\ Reply(c, "ok")
            /\ effects' = effects \cup {c}
  /\ UNCHANGED <<vault, session, records, op, scope>>

\* A use is refused, allowed, or asks the owner.
EnterUse(c) ==
  /\ pc[c] = "enter" /\ op[c].kind \in {"use", "once"}
  /\ SessionMatches(c)
  /\ \/ Goto(c, "waiting") /\ control' = [control EXCEPT ![c].waiting = TRUE]
     \/ Goto(c, "boundary") /\ UNCHANGED control
  /\ UNCHANGED <<vault, session, records, op, scope, told, access, effects>>

\* The wait ends: with an answer, or because its operation is cancelled.
WaitEnds(c) ==
  /\ pc[c] = "waiting"
  /\ control' = [control EXCEPT ![c].waiting = FALSE]
  /\ \/ ~Cancelled(c) /\ Goto(c, "boundary") /\ UNCHANGED told
     \/ Reply(c, "failed")
  /\ UNCHANGED <<vault, session, records, op, scope, access, effects>>

AtBoundary(c) == Start(c, "boundary", "effect")

Effect(c) ==
  /\ pc[c] = "effect"
  /\ effects' = effects \cup {c}
  /\ Reply(c, "ok")
  /\ UNCHANGED <<vault, session, records, control, op, scope, access>>

\* A policy refuses, or the handler panics, at any point; a panic drops the
\* guard of a wait.
GivesUp(c) ==
  /\ pc[c] \in {"enter", "waiting", "boundary", "effect"}
  /\ Reply(c, "failed")
  /\ control' = [control EXCEPT ![c].waiting = FALSE]
  /\ UNCHANGED <<vault, session, records, op, scope, access, effects>>

\* Mutant: the outcome of an ended session is stored.
FinishStoresAlways(c) ==
  /\ pc[c] = "finish"
  /\ LET s == control[c]
         what == IF s.cancelled /\ ~s.invalidated /\ ~s.started
                   THEN "cancelled" ELSE told[c].what
     IN  /\ told' = [told EXCEPT ![c] = [what |-> what]]
         /\ control' = [control EXCEPT ![c].finished = "yes",
                                       ![c].waiting = FALSE,
                                       ![c].outcome = what]
  /\ Goto(c, IF Legacy(c) THEN "remove" ELSE "done")
  /\ UNCHANGED <<vault, session, records, op, scope, access, effects>>

\* The end of handle(): the outcome, unless the session ended.
Finish(c) ==
  /\ pc[c] = "finish"
  /\ LET s == control[c]
         what == IF s.cancelled /\ ~s.invalidated /\ ~s.started
                   THEN "cancelled" ELSE told[c].what
     IN  /\ told' = [told EXCEPT ![c] = [what |-> what]]
         /\ control' = [control EXCEPT
                          ![c].finished = "yes",
                          ![c].waiting = FALSE,
                          ![c].outcome = IF s.invalidated THEN @ ELSE what]
  /\ Goto(c, IF Legacy(c) THEN "remove" ELSE "done")
  /\ UNCHANGED <<vault, session, records, op, scope, access, effects>>

\* The temporary record of a call without an operation ID of its own.
RemoveLegacy(c) ==
  /\ pc[c] = "remove"
  /\ records' = Restrict(records, DOMAIN records \ {op[c].id})
  /\ Goto(c, "done")
  /\ UNCHANGED <<vault, session, control, op, scope, told, access, effects>>

-----------------------------------------------------------------------------
(* A status or a cancel request. *)

Inquire(x, o) == Authenticate(x, o, "look")

LookKnown(x) ==
  /\ pc[x] = "look" /\ ~SessionOver(x)
  /\ records' = Retained
  /\ op[x].id \in OfScope(Retained, scope[x])
  /\ told' = [told EXCEPT ![x] =
                [what |-> "about", of |-> Retained[op[x].id].control]]
  /\ Goto(x, IF op[x].kind = "cancel" THEN "mark" ELSE "receipt")
  /\ UNCHANGED <<vault, session, control, op, scope, access, effects>>

\* Mutant: the tombstone belongs to nobody.
LookTombstoneUnscoped(x) ==
  /\ pc[x] = "look" /\ ~SessionOver(x)
  /\ op[x].kind = "cancel"
  /\ op[x].id \notin DOMAIN Retained
  /\ control' = [control EXCEPT ![x].cancelled = TRUE,
                                ![x].finished = "yes",
                                ![x].outcome = "cancelled"]
  /\ records' = Put(Retained, op[x].id,
                    [scope |-> NoScope, fingerprint |-> "unknown",
                     key |-> NoKey, control |-> x])
  /\ told' = [told EXCEPT ![x] =
                [what |-> "receipt", of |-> x, outcome |-> "cancelled",
                 cancelled |-> TRUE, mayHaveRun |-> FALSE]]
  /\ Goto(x, "done")
  /\ UNCHANGED <<vault, session, op, scope, access, effects>>

\* Cancellation can arrive before the call: a tombstone ends the call.
LookTombstone(x) ==
  /\ pc[x] = "look" /\ ~SessionOver(x)
  /\ op[x].kind = "cancel"
  /\ op[x].id \notin DOMAIN Retained
  /\ Cardinality(DOMAIN Retained) < MaxRecords
  /\ Cardinality(OfScope(Retained, scope[x])) < MaxAgentRecords
  /\ control' = [control EXCEPT ![x].cancelled = TRUE,
                                ![x].finished = "yes",
                                ![x].outcome = "cancelled"]
  /\ records' = Put(Retained, op[x].id,
                    [scope |-> scope[x], fingerprint |-> "unknown",
                     key |-> NoKey, control |-> x])
  /\ told' = [told EXCEPT ![x] =
                [what |-> "receipt", of |-> x, outcome |-> "cancelled",
                 cancelled |-> TRUE, mayHaveRun |-> FALSE]]
  /\ Goto(x, "done")
  /\ UNCHANGED <<vault, session, op, scope, access, effects>>

LookNothing(x) ==
  /\ pc[x] = "look" /\ ~SessionOver(x)
  /\ op[x].id \notin OfScope(Retained, scope[x])
  /\ \/ op[x].kind = "status"
     \/ op[x].id \in DOMAIN Retained
     \/ Cardinality(DOMAIN Retained) >= MaxRecords
     \/ Cardinality(OfScope(Retained, scope[x])) >= MaxAgentRecords
  /\ records' = Retained
  /\ Answer(x, "operation_not_found")
  /\ UNCHANGED <<vault, session, control, op, scope, access, effects>>

\* The operation that x is about.
Target(x) == told[x].of

Mark(x) ==
  /\ pc[x] = "mark"
  /\ control' = [control EXCEPT ![Target(x)].cancelled =
                   @ \/ control[Target(x)].outcome = "none"
                     \/ control[Target(x)].bound]
  /\ Goto(x, "await")
  /\ UNCHANGED <<vault, session, records, op, scope, told, access, effects>>

\* The cancel request waits for the end of the wait, or for 2 seconds.
AwaitEnds(x) ==
  /\ pc[x] = "await"
  /\ Goto(x, IF control[Target(x)].bound THEN "withdraw" ELSE "receipt")
  /\ UNCHANGED <<vault, session, records, control, op, scope, told, access,
                 effects>>

WithdrawAccess(x) ==
  /\ pc[x] = "withdraw"
  /\ vault.phase # "ending"
  /\ IF SessionMatches(x)
       THEN /\ access' = [access EXCEPT ![Target(x)] = "withdrawn"]
            /\ Goto(x, "receipt")
            /\ UNCHANGED told
       ELSE /\ Answer(x, "locked")
            /\ UNCHANGED access
  /\ UNCHANGED <<vault, session, records, control, op, scope, effects>>

GiveReceipt(x) ==
  /\ pc[x] = "receipt"
  /\ told' = [told EXCEPT ![x] = Receipt(Target(x))]
  /\ Goto(x, "done")
  /\ UNCHANGED <<vault, session, records, control, op, scope, access, effects>>

-----------------------------------------------------------------------------
(* The vault session ends under the vault mutex (Vault::end_delivery): the  *)
(* cleanup that the first request registered forgets the session, then it   *)
(* clears the records.  A new session has a new epoch.                      *)

SessionEnds ==
  /\ vault.phase = "open"
  /\ vault' = [vault EXCEPT !.phase = IF session = vault.epoch
                                        THEN "ending" ELSE "locked"]
  /\ session' = 0
  /\ UNCHANGED <<records, control, pc, op, scope, told, access, effects>>

\* Mutant: the cleanup only empties the table.
ForgetRecords ==
  /\ vault.phase = "ending"
  /\ vault' = [vault EXCEPT !.phase = "locked"]
  /\ records' = <<>>
  /\ UNCHANGED <<session, pc, op, scope, told, access, effects, control>>

SessionCleared ==
  /\ vault.phase = "ending"
  /\ vault' = [vault EXCEPT !.phase = "locked"]
  /\ ClearRecords
  /\ UNCHANGED <<session, pc, op, scope, told, access, effects>>

Unlock ==
  /\ vault.phase = "locked"
  /\ vault.epoch < MaxEpoch
  /\ vault' = [epoch |-> vault.epoch + 1, phase |-> "open"]
  /\ UNCHANGED <<session, records, control, pc, op, scope, told, access,
                 effects>>

\* RETENTION passes for a finished operation.
GetsOld(k) ==
  /\ control[k].finished = "yes"
  /\ control' = [control EXCEPT ![k].finished = "old"]
  /\ UNCHANGED <<vault, session, records, pc, op, scope, told, access, effects>>

-----------------------------------------------------------------------------
\* The steps that a submitted call takes by itself.
CallSteps(c) ==
  \/ Late(c, "admit") \/ AdmitKnown(c) \/ AdmitBusy(c) \/ AdmitNew(c)
  \/ Begin(c) \/ EnterLocked(c) \/ EnterChanges(c) \/ EnterBinds(c)
  \/ EnterUse(c) \/ WaitEnds(c) \/ AtBoundary(c) \/ Effect(c) \/ GivesUp(c)
  \/ Finish(c) \/ RemoveLegacy(c)

InquirySteps(x) ==
  \/ Late(x, "look") \/ LookKnown(x) \/ LookTombstone(x) \/ LookNothing(x)
  \/ Mark(x) \/ AwaitEnds(x) \/ WithdrawAccess(x) \/ GiveReceipt(x)

Next ==
  \/ \E c \in Calls :
       \/ \E o \in Submissions : Submit(c, o)
       \/ \E o \in Untracked : Submit(c, OwnId(c, o))
       \/ CallSteps(c)
  \/ \E x \in Inquiries : (\E o \in Questions : Inquire(x, o)) \/ InquirySteps(x)
  \/ SessionEnds \/ SessionCleared \/ Unlock
  \/ \E k \in Threads : GetsOld(k)

Spec == Init /\ [][Next]_vars
-----------------------------------------------------------------------------
(* The type invariant. *)

Outcomes == {"none", "locked", "ok", "failed", "cancelled"}

Records == [scope : Scopes, fingerprint : Kinds \cup {"unknown"},
            key : Keys \cup {NoKey}, control : Threads]

TypeOK ==
  /\ vault \in [epoch : 1..MaxEpoch, phase : {"open", "ending", "locked"}]
  /\ session \in 0..MaxEpoch
  /\ DOMAIN records \subseteq Ids \cup Calls
  /\ records \in [DOMAIN records -> Records]
  /\ control \in [Threads -> [invalidated : BOOLEAN, cancelled : BOOLEAN,
                              started : BOOLEAN, waiting : BOOLEAN,
                              outcome : Outcomes,
                              finished : {"no", "yes", "old"},
                              bound : BOOLEAN]]
  /\ pc \in [Threads -> {"idle", "admit", "begin", "enter", "waiting",
                         "boundary", "effect", "finish", "remove", "look",
                         "mark", "await", "withdraw", "receipt", "done"}]
  /\ \A t \in Threads : scope[t] \in Scopes \cup {NoScope}
  /\ access \in [Calls -> {"none", "open", "withdrawn"}]
  /\ effects \subseteq Calls

-----------------------------------------------------------------------------
(* Properties. *)

SameOperation(c, d) ==
  /\ scope[c] = scope[d]
  /\ \/ op[c].id = op[d].id
     \/ op[c].key = op[d].key /\ op[c].key # NoKey

\* docs/operations/cli.md:301: while a record is kept, the same operation ID
\* or the same idempotency key of the same agent in the same session never
\* executes again, whatever was cancelled before it arrived.
RunsOnce ==
  \A c, d \in Calls :
    /\ c # d
    /\ control[c].started /\ control[d].started
    /\ SameOperation(c, d)
    => "old" \in {control[c].finished, control[d].finished}

CancelTold(t) == /\ told[t].what = "receipt"
                 /\ told[t].cancelled /\ ~told[t].mayHaveRun

\* "Once an effect starts, cancellation cannot claim to undo it": a call that
\* was cancelled before its effect, by the answer to the call itself, by a
\* receipt, or by a tombstone that is kept, never has an effect later.
CancelledNeverRuns ==
  /\ \A c \in Calls :
       pc[c] = "done" /\ told[c].what = "cancelled" => c \notin effects
  /\ \A t \in Threads : CancelTold(t) => Target(t) \notin effects
  /\ \A x \in Inquiries, c \in Calls :
       /\ CancelTold(x) /\ Target(x) = x
       /\ scope[c] = scope[x] /\ op[c].id = op[x].id
       /\ c \in effects
       => "old" \in {control[x].finished, control[c].finished}

\* The end of a session erases its receipts, a late worker does not restore
\* them, and no call of the old session enters the table of the new one.
SessionErased ==
  /\ \A id \in DOMAIN records :
       vault.phase # "locked" /\ records[id].scope.epoch = vault.epoch
  /\ \A k \in Threads : control[k].invalidated => control[k].outcome = "none"

\* An operation of a session that ended starts no effect.
NoStartAfterSession ==
  [][\A c \in Calls :
       control'[c].started /\ ~control[c].started =>
         vault.phase # "locked" /\ vault.epoch = scope[c].epoch]_vars

Running(c) == pc[c] \in {"begin", "enter", "waiting", "boundary", "effect", "finish"}

\* MAX_ACTIVE and MAX_AGENT_ACTIVE bound the threads that run in the session,
\* tracked or not, and not only the records of the table.
ActiveBound ==
  LET ofSession == {c \in Calls : Running(c) /\ scope[c].epoch = vault.epoch}
  IN  vault.phase = "open" =>
        /\ Cardinality(ofSession) <= MaxActive
        /\ \A a \in Agents :
             Cardinality({c \in ofSession : scope[c].agent = a}) <= MaxAgentActive

\* A cancelled operation leaves no scoped access request open, whether the
\* cancellation came before or after the request was bound to it.
AccessWithdrawn ==
  \A c \in Calls :
    /\ control[c].bound /\ control[c].cancelled
    /\ SessionMatches(c)
    /\ \A x \in Inquiries :
         ~(pc[x] \in {"await", "withdraw"} /\ Target(x) = c)
    => access[c] = "withdrawn"

\* Claimed by docs/operations/cli.md:303 ("cancellation before a side effect
\* returns `cancelled'.  Once execution or a mutation starts, the adapter
\* returns `cancellation_requested'") and told by the adapter
\* (src/agent/mcp.rs:677-684).  A cancel request whose receipt denies that the
\* operation may have run is right about the calls of earlier sessions too.
CancelReceiptHonest ==
  \A x \in Inquiries, c \in Calls :
    /\ CancelTold(x)
    /\ scope[c] # NoScope /\ scope[c].epoch < scope[x].epoch
    /\ op[c].id = op[x].id /\ op[c].agent = op[x].agent
    => c \notin effects
=============================================================================
