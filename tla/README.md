# Apassy: a TLA+ verification project

Apassy is a credential manager for a person and for that person's AI agents. An
agent asks the broker to run a command with a credential; rules and a local model
decide whether the command starts, is refused, or waits for the owner; the owner
answers on the Mac or on a phone through a relay; the command then runs with the
secret in its environment, and the activity log says what happened.

This project models two parts. The first is where several threads, a person, a lock of
the vault, a phone and a crash meet over one command: the **approval queue**, the
**operations** of the agents, the **flow of a run** with its vault session, and the
**questions** that the Mac asks the owner's phone through the relay. The second is where
several Macs meet over one vault: the **merge** of two vaults and the **sync** that
carries them, through a shared folder or through the relay. TLC checks the models on
small instances; TLAPS proves the properties that matter most for every value of the
constants.

Paths below are relative to `src/`, the root of the repository.

## 1. The system

### 1.1 Components, their state and their operations

| Component | State | Operations that change it | What makes it correct |
|---|---|---|---|
| Approval queue (`src/broker/approvals.rs`) | `QueueState` under one mutex: the runs that wait, their questions, decisions, replaced marks, device names, ends for the worker | `wait` (enter, join, replace, loop, leave), `approve`/`deny` and variants, `note_answer_device`, `take_ended`, `invalidate_all`, `close` | one question per agent; one answer starts one run; an answer covers the credentials it was asked about; every wait ends |
| Operations (`src/broker/operations.rs`) | table of records, one `Control` per operation, the session it belongs to | submit, status, cancel, bind an access request, finish, end of the session, retention | an operation executes once; a cancelled one never; the end of a session erases it |
| Run flow (`src/broker/run.rs`) | locals of `run_inner`: session, credentials, wait ticket, answer, secrets, fence | check, decide, record, ask, end of the wait, second check, spawn, entry | a command starts only in the session and with the credentials of its first check; the log tells the truth |
| Wait records (`src/vault/waiting.rs`) | table `waiting_run`, `LIVE_WAITS` | `start_wait`, `end_wait`, `end_waits`, `end_stale_waits` | a run that waited has one final entry, also after a lock or a crash |
| Vault session and delivery fence (`src/vault/mod.rs`) | open connection, epoch, cleanups, the delivery fence | unlock, lock, passphrase, backup, deliver | nothing of an ended session is delivered |
| Owner proofs, owner window (`src/broker/approvals/`) | proofs and their sessions, the window of the last owner check | prove, use, expire, end | a proof is used once, in its session, for its question |
| Access once (`src/vault/access_once.rs`, `src/broker/access_once.rs`) | rows of access requests with their state and deadline | request, approve, admit, revoke, expire, replay | one approval admits one call |
| Credential requests (`src/broker/agent_items.rs`) | open requests, the calls that wait for them | ask, join, answer, withdraw, time out | two calls share a request and both end |
| Questions worker (`src/questions/worker.rs`) and relay questions (`crates/apassy-relay/src/server/questions.rs`) | the session, the asked questions and the runs that stay on the Mac, the last corrections; on the relay the rows of questions and answers | post, retry, poll, judge, apply, settle, forget; post, answer, settle, expire | the devices hear how the run ended; an answer of a device counts once, and never after a later one; no question stays open unseen |
| Record merge (`src/vault/merge.rs`) and folder sync (`src/sync/mod.rs`) | the records with their version vectors, tombstones; the sync state; the files | edit, delete, merge; pull, push, stop in between | no edit is lost, deletes stay, two copies converge, old files change nothing |
| Relay sync (`src/sync/relay.rs`, relay `sync.rs`) | the anchor, the last content, the vault; on the relay the signed head and the copies | rounds of pull, merge and conditional push; pause, resume; use or replace the relay's copy | no accepted change is lost, no rollback is taken, every change arrives |
| Auto-lock (`src/desktop/auto_lock.rs`) | policy, deadlines, the access fence | idle, expiry, lock | a vault past its time gives nothing out |

The remaining components (the desktop windows, the bouncer's model, the proxies, the
browser extension, import, updates, the mobile app, and so on) are listed with their
status and the reason in `PROJECT.json`.

### 1.2 How they interact

* One thread per connection (`broker/server.rs`). A call authenticates under the
  vault mutex, enters the table of operations, then runs its handler.
* `run_inner` takes the vault mutex several times and lets it go in between: for the
  rules and the model, for the wait in the queue, and for the spawn. What it read
  before may be stale afterwards; the second check and the delivery fence exist for
  that.
* The queue has its own mutex. Owner threads (the window, the worker) settle a run;
  the run's thread finds the decision when it wakes.
* A lock of the vault reaches the others by four ways: the entries of the recorded
  waits, the delivery fence, the cleanups of the session (the table of operations is
  one), and `invalidate_all`.
* The worker learns of ended runs from the queue (`take_ended`), names the device
  before it hands in an answer, and forgets it after that. Its poster and its reader are
  two threads that share `asked` under one mutex and never hold it over a call.
* A sync merges whole copies of vaults into this one under the vault mutex, and pushes
  a copy without it: the vault may change, lock or pause between the two.

### 1.3 What is hard

Steps of two threads in an order nobody wrote a test for (an answer against a
deadline, a join against an answer, a cancellation against the start); state read
under one lock and used under another; a lock and a fast unlock between two steps of
a run; a crash while runs wait; a retry with the same key under another ID; limits
that are counted from records while threads run; wall clocks of several devices that
disagree; a push whose answer is lost and that lands later; a sync that stops between
any two of its steps. `PROJECT.json` lists each under
`hazards`, with the line where it bites and the properties that cover it.

## 2. The modules

| Module | What it is |
|---|---|
| `OneAnswer` | abstract: what the queue promises about one question |
| `ApprovalQueue` | the queue, its calls, the owner and the questions worker; implements `OneAnswer` |
| `ApprovalQueueProofs` | TLAPS: types, the inductive invariant of the queue, and that it implements `OneAnswer` |
| `ApprovalQueueWaitProofs` | TLAPS: those who wait at the queue, its calls and the questions worker |
| `Operations` | the table of operations with submitted calls, status and cancel requests and the vault session |
| `OperationsProofs` | TLAPS: types, the inductive invariant of the table, and the count of what runs |
| `RunFlow` | a run from its first check to its entry, with the vault session, the wait records, the owner's lock and a crash; uses the queue as `OneAnswer` promises |
| `RunFlowProofs` | TLAPS: types, and the inductive invariant of the runs |
| `RunFlowEntryProofs` | TLAPS: the entries of the runs that did not start, and the refinement of `OneAnswer` |
| `RelayQuestions` | the poster and the reader of the worker, the relay's questions, the devices, the queue and the vault as they see them |
| `RelayQuestionsProofs` | TLAPS: types, and the inductive invariant of the two threads and the relay |
| `VaultMerge` | the merge of two vaults as operators: version vectors, winners, conflict copies, tombstones |
| `FolderSync` | Macs that edit, delete, pull and push files of a shared folder; merges as `VaultMerge` says |
| `FolderSyncProofs` | TLAPS: types, what a merge gives, and the inductive invariants of the clocks and the contents of vaults and files, and of the versions of two Macs, unless a delete raced |
| `RelaySync` | Macs that sync over a relay: rounds, heads, conditional pushes, the sync state |
| `RelaySyncProofs` | TLAPS: types, and the inductive invariant of the sync |
| `MCApprovalQueue`, `MCOperations`, `MCRunFlow`, `MCRelayQuestions`, `MCFolderSync`, `MCRelaySync` | instances for TLC |

`OneAnswer` is the seam: `ApprovalQueue` is shown to implement it (`KeepsPromise`), and
`RunFlow`, which keeps only one field per question, is shown never to ask more of the
queue than that (`QueueAsPromised`).

### 2.1 ApprovalQueue

State: the fields of `QueueState` one to one (`nextId`, `generation`, `pending`,
`questions`, `replaced`, `decisions`, `answerDevices`, `ended`) and the flag of `close`
(`stopper`); for each call its place in `wait` (`pc`) and its locals (`ticket` is `id`,
`turn` and `generation`). `reported` remembers what `take_ended` has handed over, and
`Decision.by` in the model is who really answered; both are history.

| Code | Actions |
|---|---|
| `wait`, the entry | `EnterRefused`, `EnterBusy`, `Join`, `AskNew`, `Replace` |
| `wait`, a turn of the loop under the lock | `LookReplaced`, `LookInvalidated`, `LookSuperseded`, `LookTake`, `LookGone`, `LookTimedOut`, `LookWaits`, in the order of the checks |
| `wait`, the check without the lock and what follows | `Revalidate`, `InvalidSuperseded`, `InvalidEnds` |
| `approve`, `deny` and their variants | `MacApproves`, `MacDenies`, `WorkerAnswers` |
| worker: name, hand in, forget | `NoteAnswerDevice`, `WorkerAnswers`, `ForgetAnswerDevice` |
| `take_ended`, `invalidate_all`, `close` | `TakeEnded`, `InvalidateAll`, `CloseFlag` then `CloseInvalidates` |
| cancellation of the operation, end of its session, the clock | `Cancel`, `OperationInvalidated`, `DeadlinePasses` |

Abstracted: the texts of a question, the kinds of approval (they differ in what the
broker saves afterwards), the order of the vectors, which of several old ends is
dropped when the buffer is full (any), and calls without a known agent.

### 2.2 Operations

State: `records` (the table), `control` (the `State` of each call or tombstone),
`session` (the epoch that the table has registered its cleanup for), the vault's
session and, for each thread, its place, request, scope and answer. `access` is the
scoped access request that a call created, `effects` the calls whose effect began.

A submitted call: `Submit`, then `AdmitKnown` (a retry), `AdmitBusy` or `AdmitNew`, then
`Begin` (a change is marked before its authorization), `EnterLocked`/`EnterChanges`/
`EnterBinds`/`EnterUse`, `WaitEnds`, `AtBoundary` (the atomic check of a cancellation),
`Effect`, `GivesUp`, `Finish` and, for a call without an ID, `RemoveLegacy`. A request about
an operation: `Inquire`, `LookKnown`/`LookTombstone`/`LookNothing`, `Mark`, `AwaitEnds`,
`WithdrawAccess`, `GiveReceipt`. The session: `SessionEnds`, `SessionCleared`, `Unlock`;
`GetsOld` is the 15 minutes of `RETENTION`.

The decision about a call (policy, model, owner) is a choice, and a call's kind stands
for the keyed digest of its arguments.

### 2.3 RunFlow

State: the vault (`epoch` and `phase`), what `check_inner` would read (`access`), the
rows of `waiting_run` (`records`), the log (`entries`, the kinds of entry each run has)
and the locals of each run. `vault.phase` is `ending` or `closing` while a lock holds the
vault mutex: the entries of the runs that wait, then the end of the delivery, then
`invalidate_all`. The steps that need only the queue or the fence go on meanwhile;
those that need the mutex (`Enters`) do not.

| Code | Actions |
|---|---|
| `run_inner` to the question | `Check`, `Decide`, `StartWait`, `Ask` |
| the wait, as `OneAnswer` promises it | `Answer`, `Takes`, `WaitEnds` |
| `end_wait`, the ticket, the refusal | `EndWait`, `DropTicket`, `Refuse` |
| the second check | `RecheckRefuses`, `RecheckFails`, `Recheck` |
| `spawn_in_session` and the entry | `Prevented`, `TakeFence`, `Deliver`, `Report` |
| owner and vault | `ChangeAccess`, `LockBegins`, `LockEnds`, `InvalidateAll`, `Backup`, `ChangePassphrase`, `Unlock` |
| the process is gone | `Crash` |

Abstracted: the rules, the bouncer and the patterns (a choice in `Decide`), the decision
log, the uses and the learning (saved with the entry), several vault files, and a
failing write of the log. The auto-lock policy is its default, Never: then
`access_expired` is false and the vault is locked exactly when it has no connection. Not
in this module: the cloud run, the browser fill and the access-once admission.

### 2.4 RelayQuestions

State: `asked` with the fields of `Asked` that decide something (`qid`, `posted`,
`last`, `applying`, `ended`, `finished`, `applied`), `localOnly`, `active` and `mark`
(`environment`), the locals of the poster and of the reader with their places, and on the
relay each card with its state, its settle and its answers. The queue is what the worker
sees of it: a run waits, then it is over, once. `declared` is the newest declaration event
of the credential. `history` remembers which answers counted, the time of the last
correction, the questions that the worker forgot and those of which a call failed.

| Code | Actions |
|---|---|
| `post_step`: the runs, the ends, the session | `ReadsPending`, `TakesEnded`, `FindsSession`, `FindsNoSession` |
| `post_step`: ends, and runs that are gone | `HandlesEnd`, `DropsGone` |
| `post_step`: run after run | `Skips`, `KeepsLocal`, `Asks`, `Retries` |
| `post`: taken or a conflict, no answer, refused, the question is gone | `Posts`, `PostBreaks`, `PostRefused`, `PostLeft` |
| `readings`, `read_step`, `take_answers` | `Polls`, `TakesNext`, `TakesNoMore` |
| `judge`, `apply` | `Judges`, `Decides`, `DecidesNothing`, `Corrects`, `Notes` |
| `after_verdict`, `done_applying` | `SettlesIt`, `GoesOn`, `StopsReading` |
| owner, vault, window | `StartsToWait`, `EndsHere`, `ChangesEnvironment`, `Lock`, `Unlock`, `Forget` |
| relay and devices | `TakesAnswer`, `Expires` |

Each step is one critical section or one call of the relay. A signed answer may arrive any
number of times and in any order, also for a second question of the same run. A waiting
run does not change in the queue, so its digest is the run, and the branch of `post_step`
that replaces a posted card of another digest (`Next::Replace`) never runs; the outcome
"replaced" of the contract therefore never happens. Whether an answer has a good form, a
good signature and a fresh time is a choice in `Judges`. The clock of the Mac is not
modelled: after a correction `declared.at` is 0, the time that refuses nothing.

Abstracted: the kinds of approval, denial and correction, cards and keys, roles and
routing, quotas, the purge of old questions, the quiet time after a relay without the
routes, the loss of an end when more than 256 wait. `stand_down` with the vault open
(this Mac was removed) is `FindsNoSession`.

### 2.5 VaultMerge and FolderSync

`VaultMerge` has a vault as a function from record UUIDs to a live record (content,
version vector, time and device of the last change, "Always ask", variable) or a
tombstone. `MergeRecord` is `merge_attached` for one record: newer, older, equal or
concurrent vectors; `MergeConcurrent` picks the winner by `LaterOf` (time, then device),
joins the vectors, keeps "Always ask" if either side has it, and keeps the loser as a
conflict copy whose UUID is derived from the version that lost. `MergeTombs` and `Deletes`
are the tombstones: one deletes what its vector covers. The order in which the records of
a file are merged, which the code takes from the database, is one fixed order (CHOOSE).

`FolderSync` has for each Mac its vault and its sync state, and every file that was ever
written: a folder service may deliver any of them at any time. `SyncPulls` merges,
`SyncPushes` writes, `SyncStops` is a quit between the merge and the write, and
`ReplaceSyncedFile` is the owner's way out.

Not modelled: the passphrase and key of a file, earlier schemas, the history, settings and
learned rows (last writer wins without conflict copies), short-lived rows.

### 2.6 RelaySync

State: for each Mac the vault (the set of changes that it has), the sync state on disk
(`disk`: the anchor and the last content), and its run with its place and locals; on the
relay the head, the damaged copies and the pushes that still fly. A head stands for its
whole history, because each signed head has the hash of the one before: it is the sequence
of the entries up to its own, and two hashes are equal when two sequences are. A merge is the union of two sets of changes: `VaultMerge` says what becomes of them.

| Code | Actions |
|---|---|
| `try_run`, `sync_by` and the owner's two ways around a refused head | `StartRun`, `UseRelayCopy`, `ReplaceRelayCopy` |
| `rounds`: head, chain, fetch, merge, state | `LookAtHead`, `LookRefused`, `Fetch`, `FetchFails`, `SaveMerge` |
| `rounds`: copy, push, state | `InSync`, `WriteCopy`, `ReplaceHead`, `Put`, `PutRefused`, `PutBroken`, `AskLanded`, `AskUnknown`, `SavePush` |
| relay `push` | `Commit`, `LateCommit` (a push whose Mac no longer listens) |
| pause, lock, quit; a backup, a damaged copy | `Stop`, `RelayGoesBack`, `CopyIsDamaged` |

Abstracted: signatures of heads and of the membership, receipts, the paging of the chain,
the bytes of a copy, the sign-in.

## 3. The runs

| Run | Instance | What it shows |
|---|---|---|
| `queue_calls` | 3 calls of one agent, 2 baselines, no device | joins, replacements, supersession, cancels, deadlines and `close`: one answer starts one run and covers its credentials; nobody waits in vain or is asked for nobody; the queue implements `OneAnswer` |
| `queue_relay` | 2 calls, 1 device, 1 lock of the vault, room for every end | the worker hears of each end, once, and the same as the call; a device's name does not stay |
| `queue_live` | 2 calls, 2 requests, 2 baselines, 1 lock, room for one end | every call that waits ends |
| `operations` | 2 calls, 1 status or cancel request, 2 agents, 2 IDs, 1 key, 2 sessions | runs once, cancelled never runs, a session is erased, limits hold |
| `run_flow` | 2 runs, 2 versions of the credentials, 3 sessions | a command starts in its session with its credentials; the entries are true; a refused run is told once; a crash is told |
| `folder_sync` | 2 Macs, 1 credential, 2 values, 3 changes, 3 files, clocks up to 2 | edits, deletes and "Always ask" arrive as the vectors say; old files change nothing; two Macs that merge one another agree on credentials, values, versions, clocks and tombstones |
| `relay_sync` | 2 Macs, 2 changes, 2 rounds, 2 faults | no push drops a change; the state on disk is never ahead; no rollback is taken; every change arrives |
| `relay_questions` | 1 run, 2 questions, 1 device with 2 signed answers, 2 sessions, 1 lost call | the devices hear how a run ended; no open question is forgotten; answers and corrections count in order |
| `operations_cancel` | 1 call, 1 cancel request, 2 sessions | violation of `CancelReceiptHonest` (finding 1) |
| `run_flow_untold` | 1 run, 2 sessions | violation of `RefusalIsTold` (finding 2) |
| `folder_lost` | 2 Macs, 4 changes, 4 files | violation of `EditsKept` (finding 3) |
| `folder_diverges` | 2 Macs, 1 value, 4 changes, 4 files | violation of `Converges` (finding 4) |

Every property of a passing run has a mutant in `PROJECT.json`: a plausible bug in one
definition (a dropped guard, a missing reset, an answer that is read and not removed)
with which TLC finds the property violated in the same run.

### 3.1 Bounds, and why they are enough

* **Calls.** A question has three roles: the call that asked, a newer one that joined
  or replaced it, and one that meets the result of both. Three calls of one agent give
  all of them; calls of different agents meet only in `invalidate_all`, `close` and the
  buffer of ends. `queue_live` has two different requests, so that `EnterBusy` happens.
* **Generations.** A lock of the vault raises `generation`; a ticket compares for
  equality only, so one lock (`MaxGeneration` 1) gives an old and a new ticket; `close`
  raises it once more, whatever the bound.
* **Ends.** `MAX_ENDED` is 256 in the code. `queue_relay` has room for all ends, because
  the claim is about the order of reports; `queue_live` has room for one, so that ends
  are dropped.
* **Operations.** Two calls and one request make every race of the table: a retry with
  its first call, a cancellation with either, a tombstone with a late call. Two sessions
  give an old and a new record. The limits (256, 8, 3 and 64 in the code) are 2, 2, 1 and
  2, so that each is reached.
* **Runs.** Two runs share a vault, a log and the lock; nothing in `run_inner` compares
  more than two. Three sessions give two locks between two steps of one run.
* **Folder.** `ValuesConverge` and `NothingLost` allow the states in which a count was reused
  (`CountsReused`, finding 3), and `OldFileInert` those in which a delete met an edit that
  it did not see (`DeleteRaced`). Two Macs make every pair of version vectors, and any file
  of any Mac can come at any time. A third Mac adds orders of merges: the theorems of
  section 4 are for any number of Macs, except `ValuesAgree` and `DatesInvHolds`, which are
  false for three (section 5). Three changes are an
  edit on each side and a delete, or an edit after a merge; times 1 and 2 give earlier,
  later and equal. `folder_lost` needs a fourth change: a delete, an edit that it did not
  see, its return, and the edit that reuses a count. `folder_diverges` needs four as well:
  each Mac turns "Always ask" on and off again.
* **Relay.** Two Macs race for one head; two changes make a push that loses the race and a
  push over another's change; `MaxRounds` is 5 in the code, and 2 lets a run give up. Two
  faults give a lost answer and a relay that goes back, or a damaged copy.
* **Questions.** One run has all the races of the poster with the reader: a second run
  would only be another entry of `asked`. Two questions give a question of an earlier
  session beside the one of now; one device with a correction and an earlier approval
  gives a repeat and a reordering. With two devices and three answers (15.8 million
  states) the same properties hold; the run is too long to keep. Liveness (the end of a
  run reaches the devices when calls succeed) was checked by hand for one device only.
* **Symmetry** is over calls, inquiries, runs and versions. `queue_live`, which checks a
  liveness property, uses none.

`CHECK_DEADLOCK FALSE` is set in every configuration: each thread makes one call, and
changes, files, faults and sessions are bounded, so the system really stops when all of
it is done.

### 3.2 Fairness

Two runs state fairness (`LiveSpec`). `queue_live`: a waiting call sleeps on a condition
variable for at most `WATCH_INTERVAL` (100 ms), so its thread keeps taking steps: weak
fairness of `CallSteps(c)`. The deadline is a fixed time, so it passes: weak fairness of
`DeadlinePasses(id)`. Nothing makes the owner answer, the worker run, the agent cancel
or the vault lock.

`relay_sync`: the thread of the sync worker (`desktop/sync_worker.rs`, `run`) wakes on a
timer and syncs until it is told to stop, so each Mac keeps taking the steps of its runs:
weak fairness of `Step(m)`. Nothing makes the owner decide about a refused head, so
`ChangesArrive` ends there (`OwnerNeeded`); nothing makes a fault happen, and their number
is bounded, as a relay that fails forever lets nothing arrive.

## 4. The proofs

`tlapm` checks every leaf. Assumptions on the constants: `ConstantsAssumption` (the name
of this Mac is not a device, the mark of a call that has not asked is no ask, the calls
are finitely many, the bounds are naturals) and `RunFlowAssumption` (there is at least one session, the refusal is no
version), `RelayAssumption` (one Mac turned the sync on, a run makes at least one
round), and for `Operations` `LimitsAssumption` (there is at least one session, the limits
of the table are naturals), for `FolderSync` `MergeAssumption` (device IDs are ordered, there is
at least one Mac) and `FolderAssumption` (finitely many credentials, the value they start
with is a value, no variable has the name of none), `RelayQuestionsAssumption` (this Mac is not a device, nobody is
neither, a device signs a time from 1 on, there is at least one session), `RequestsAssumption` (the shape of a request) and
`NamesAssumption` (a submitted call is not an inquiry, the random ID of an untracked call
is not one that an agent names, no key is the missing one). Two hypotheses stand in the
theorems that need them: `Cardinality(Calls) <= MaxEnded` in `EveryEndReported`, so that
the list of ends, which keeps the last 256, drops none; and `ItemsAreNoCopies` in the
theorems about the folder, which says that no credential of the start has the UUID of a
conflict copy (the code draws the first at random and derives the second from the version
that lost, `src/vault/merge.rs:1864-1870`). There is no bound on the
number of calls, runs, agents, sessions, devices, Macs or changes.

**ApprovalQueueProofs**: `TypeCorrect`, `OneAnswer1Run`, `AnswerCovers`, `OneQuestion`,
`Coherent` and `PromiseKept`, all from `QueueInv`. Neither "one answer starts one run" nor "an answer covers
its call" is inductive alone:

* that a call takes the answer to *its* question needs that the ticket of each waiting
  call names a question and a decision with the arguments of that call (`TicketsMatch`);
* this survives a new question because IDs are issued in order and everything the queue
  names lies in `1..nextId`, and it survives an answer because `settle` copies the
  question (`QueueCoherent`: a run waits exactly as long as its question, and never
  together with its answer);
* that no second call takes the same answer needs that a used answer has left both
  `pending` and `decisions` (`AnswersUsed`), from which it never returns;
* that a join is a join of the only question of its agent is `OneQuestionPerAgent`.

`StepKinds` sorts the steps by what they do to runs and answers: one question is asked,
joined, answered or its answer taken, or the queue only `Shrinks`. `PromiseKept` maps the
first four to a step of `OneAnswer` or to none, and a shrinking queue to `End` of what
left it; `AnswersUsed` says that nobody has taken an answer to what ends.

**ApprovalQueueWaitProofs**, each with `QueueInv`: `SomeoneAlwaysListens` is inductive, as a
call leaves its wait only when its question is gone or has a newer call (`MayLeave`);
`ReportsAgree` needs that an end is of a run that no longer waits and that it is the
answer as long as this is kept (`ReportInv`); `NoLeftover` is inductive. `EveryEndReported`
adds a count (`EndsInv`): every ID is of a call that has asked, and the ends are of
different IDs, so with no more calls than `MaxEnded` the list never drops one.

**OperationsProofs**: every property that the run `operations` checks, for every number of calls
and limits: `RunsOnceCorrect`, `CancelledNeverRunsCorrect`, `SessionErasedCorrect`,
`NoStartAfterSessionCorrect`, `AccessWithdrawnCorrect` and `ActiveBoundCorrect` after
`TypeCorrect`. None is inductive alone; all but the last follow from one `IInv`:

* that a retry executes nothing needs that the table still has what it would meet. `Kept`
  says it: whoever runs or ran in the session of the vault has its record, under its ID
  and with its key, until it is old or its untracked call took it out. So a newcomer
  that finds nothing meets nobody (`NewcomerAlone`), and of two submissions of one
  operation one is old (`Alone`);
* that an ended session starts nothing needs the same fact: the cleanup reaches a
  running call through its record, and from then on the call is invalid (`CallOK`). The
  other way out, a session that ends before any cleanup was registered, has nothing to
  clear, because an operation of the session cannot be there yet (`NotYet`);
* a receipt that denies that the operation may have run names an operation that is
  cancelled and has not started (`ThreadOK`), which `start_effect` keeps so;
* a cancel request that will withdraw an access request is about an operation of its own
  session (`InquiryOK`); when the vault is in another one by then, so is the operation.

`ActiveBoundCorrect` adds `Counted`, the limits as a bound on the active records, which
only an admission can raise; the calls that run map into these records one to one.

**RunFlowProofs**: `TypeCorrect`, `TruthfulEntries` and `OwnSession`, all from `RunInv`. The
argument: sessions only go forward, and one that is over (`Over`) stays over. A run before
its start has no record and no denial, except when its session is over: whoever wrote
them (a lock, an unlock after a crash or a fast lock) ended the session of the run. The
second check demands the session and the credentials of the first, so a run that passes
it has neither, and its secrets are of the version of the first check. The fence that
`spawn_in_session` takes is of that session, and `deliver` starts nothing when this
session has ended; so the start is in the session of the first check, and later locks
and unlocks find no record of the run to turn into an entry that it did not start.

**RunFlowEntryProofs**: `NeverRefusedTwice`, `CrashIsTold` and `QueueIsUsed`, all from `EntryInv`.
The argument: a wait record stands for an entry that is still to be written, so as long as
there is one the run has none (unless it was approved and is done). A run that takes the
entry for its own has neither a record nor an entry, because `end_wait` looks at the record
and removes it in one critical section with the vault unlocked; and a run that nobody
approved writes only then. The ticket of a run that is lost with its process is not live, so
the record that it left cannot outlive the next unlock. `QueueIsUsed` adds where a question
can be at each place of a run: a run has asked nothing before it asks, and takes an answer
only while the queue still has it. `OneAnswer` is therefore implemented twice, by the queue
with its threads (`PromiseKept`) and by the one field per run that stands for the queue here.

**RelaySyncProofs**: `TypeCorrect`, `UpdatesStay`, `AnchorsMerged`, `StatesTruthful` and
`AnchorsDescend`, all from `Invariant`. What a Mac knows is spread over the disk and the
locals of a run that may stop anywhere, so each gets its own part of the invariant: the
state on disk names a copy that the vault merged and says truly what it has (`StateOK`);
the state that a run carries does the same at every place of the run (`RunOK`); and the
copy that it pushes has what its head has and something more (`CopyOK`). `Grows` says the
same of every two versions next to one another, on the relay and among the pushes that
still fly: a push lands only over the head that its own continues, so what it commits
contains what was there, whether its Mac still listens or not.

**RelayQuestionsProofs**: `TypeCorrect`, `ToldAsItEnded`, `OpenIsAsked`, `CountsOnce` and
`LateNeverUndoes`, all from `IInv`, which TLC checked in the instance of `relay_questions`
as well. The argument:

* the poster knows of every run that ended while it is asked: the run waits, or its end is
  in the list that the poster will take, in what it took, or noted in the question
  (`Tracked`). So what it settles is over, and the end that it tells is the queue's;
* a question is applied exactly while the reader has it in its hands (`AskedOK`), and then
  only the reader lets it go: an end that the poster meets meanwhile is noted, and such a
  question was posted, so the reader settles it when it lets it go;
* a question goes in five ways (`GoneKind`), and each leaves it settled, forgotten or lost,
  unless it was not posted and the poster is not at it; the card that the poster is at is
  still asked and not posted, or the relay will not show it (`PostOK`). The session that
  the poster found is the worker's or over (`SessionOK`), so a card that lands for nobody
  is one that was forgotten or lost;
* the times that counted are at most the one that the question remembers for the device,
  except between `apply` and the note of it, where the reader still has the answer
  (`CountedOK`); in the same way the last correction is the mark of the worker, or in the
  hands of the reader (`CorrectedOK`).

`NothingGone` is a lemma with a meaning for the code: while no end is lost, the pass over
the questions whose run is gone (`post_step`) finds none. It is there for the ends that
are dropped when 256 wait for the poster, which the model leaves out.

**FolderSyncProofs**: `VaultsTyped`, `SyncInvHolds`, `DeletesStay`, `OldFilesInert`,
`ContentInvHolds`, `EditsStay`, `AskStays` and `ClocksAgree`, for any number of Macs,
credentials, variables, files and changes, whatever the folder shows; and `DatesInvHolds`
and `ValuesAgree` for two Macs (`TwoMacs`). The argument has five layers:

* *the merge is a fold over a set.* `MergeUnfolds` opens the fold once, by well-founded
  induction over the subsets of the credentials of the two copies (`SubsetInduction`, which
  has no operator as a parameter). What each record becomes is then proved by the same
  induction: its type (`ShapeInv`), its clock (`MergeGives`), its content (`MergeRecords`);
* *the clocks.* `SyncInv` says that the clock of a live credential counts exactly the
  changes that its vault or file merged (`Good`: each change is in its clock, each count is
  of a change, each tombstone of a delete, each conflict copy of a version that is below its
  credential); that no copy has a count of a change without what the change saw (`Fits`);
  that nobody has a count of a Mac that this Mac does not have (`CountsOwned`), so that its
  next stamp gives a new one; and that a vault has all of every file that it merged
  (`FilesKnown`). On clocks the merge is a union of the two copies (`MergeUnion`), a change of the
  owner adds one count of its own Mac (`ChangedCounted`), and a push adds a file with what
  its vault has. `DeletesStay` needs it because a delete lives in the clock of a tombstone
  alone; `OldFilesInert` because "nothing new" is a statement about clocks; `ClocksAgree`
  because the clock of a credential is made of the counts of the changes that its vault has;
* *the contents.* `ContentInv` adds what the clocks cannot tell: a change that saw the count
  of another saw the change itself (`Causal`), one version has one value wherever it is
  (`Agree`), no clock is ahead of the counts that its Mac gave (`CountsGiven`), also of a
  credential that is not stamped yet (`StampedHave`), and every vault and file holds the
  value of each last change that it merged, in the credential or in a conflict copy, and asks
  if that change does (`AllHaveContent`). The merge of one record must find the loser of
  an earlier conflict in its copy, so the name of the copy, which the code derives from the
  version that lost, must tell the value: `Agree` and `CopyVersions` are for this;
* *the versions of two Macs.* That two Macs end with one value needs that the version that
  a merge leaves depends on what the two vaults have, not on the order in which they got it.
  `DatesInv` dates each change (`DatesOf`: in the order in which its Mac made them) and says
  of every live record in every vault and file (`Placed`) that its version is that of the
  change that wins among the last changes of each Mac that its clock counts (`Chosen`). One
  change wins over another when it saw it, or came later and the other did not see it
  (`Beats`). This is inductive because with two Macs the two sides of a concurrent merge are
  each ahead in the count of one Mac: the last change of that Mac is in one side and has not
  seen the last change of the other Mac, which is in the other side (`LastChange`). If a side
  has not the version of its own last change, then that of an older change of the other Mac,
  which came later; then the newer one of that Mac came later still (`WonBefore`). So the
  later of the two versions is that of the winner of the two last changes (`JoinPlace`).
  With three Macs a change that won over another can be replaced by one that loses to it,
  and what is left then depends on the order (section 5). `ExchangeAgrees` follows: after the
  exchange both Macs have the same counts, so the same winners, and by `Agree` the same values;
* *a delete that raced.* Where a delete and a change of one credential did not see one
  another (`DeleteRaced`), the credential that comes back takes the clock of one side, a
  count can be given twice (finding 3), and no invariant need hold from then on. So the
  invariants are `DeleteRaced \/ ...`; a race is never forgotten (`ChangeKeepsRace`,
  `SyncRaced`). `DeletedStaysDeleted` and `OldFileInert` allow such states and are proved as
  they are. `NothingLost` and `AskKept` are proved as `[](DeleteRaced \/ NothingLost)` and
  `[](DeleteRaced \/ AskKept)`, `ValuesConverge` as `[](DeleteRaced \/ ValuesConverge)`: what
  they say after a race is checked by TLC only, for two Macs.

**Model-checked only.** What `NothingLost`, `AskKept` and `ValuesConverge` say of the states
after a delete that raced has no proof. `Converges`, which adds "Always ask" and the
variable to `ValuesConverge`, is no theorem because it is false (finding 4). `CallsEnd`
and `ChangesArrive` stay with TLC: liveness under fairness and ENABLED are outside of what the prover handles, as are
induction over data and RECURSIVE operators (the modules have none).

## 5. Findings

Each is a run that TLC finishes with a counterexample to a sentence of the repository.

1. **A cancel receipt can deny an execution** (`operations_cancel`). After a lock and an
   unlock the record of an executing command is gone, and its cancellation gets a
   tombstone: cancelled, may not have run. `docs/operations/cli.md:303` promises
   `cancellation_requested` once execution started.
2. **A refused run can get none** (`run_flow_untold`). The wait record is removed in one
   critical section and the entry is written in a later one; a lock between them leaves
   neither. `docs/operations/learning.md:317-320` says a run gets one entry.
3. **An edit can be lost** (`folder_lost`). A credential that comes back over a tombstone
   takes the version vector of the other copy, without this Mac's own count for the delete;
   the next edit on this Mac gets that count again. A Mac that has the tombstone takes the
   edit for one that the delete saw and drops it. `docs/operations/sync.md:100` says
   "Nothing is lost." Where no count is reused, `NothingLost` holds.
4. **Two Macs can keep two settings of "Always ask"** (`folder_diverges`). Mac 1 turns it on,
   syncs, turns it off and syncs again, while Mac 2 makes a change of its own and syncs.
   Mac 2 merges the first file of Mac 1, which is concurrent and asks, and then the second,
   which is concurrent with the joined vector: its setting stays on. Mac 1 merges the file
   that Mac 2 wrote before: neither asks, and the joined vector is the same. Every later
   merge finds equal vectors and takes nothing (`src/vault/merge.rs:2127-2128`), and as the
   contents differ, each sync writes its file again. `src/vault/merge.rs:2161-2162` says
   "Both Macs get the same result." The credentials, values, versions, clocks and
   tombstones do converge: `ValuesConverge` holds, and is proved until a delete races.

Smaller disagreements, seen in counterexamples of the same models and not kept as runs:

* A run can get two entries. An approved run whose wait record a fast lock and unlock
  turned into an entry goes on to its second check (`src/broker/run.rs:1635-1647`), which
  writes another entry without looking at whether the first one was its own (1841-1856).
  `src/vault/waiting.rs:12-14` says no run gets two. (`RefusedOnce` therefore
  speaks of runs that the owner did not approve.)
* `superseded` looks at the turn only while the question is in the queue. An older call
  that looks first after the answer takes it, and the newest call gets Invalidated;
  `src/broker/approvals.rs:588` says "Only the newest call takes the answer." One answer
  still starts one run.
* The worker names the device, hands in the answer and forgets the device in three
  critical sections; an answer on the Mac between the first two is recorded as the
  device's, although `src/broker/approvals.rs:1145-1147` says the name never reaches it.
* The poster can ask a run again whose question the reader has just settled with the
  answer of a phone. The second question is then settled as answered on this Mac:
  `docs/contracts/relay-questions-v1.md:417` says the settle names the device whose answer
  settled it. (`SettleTruthful` allows exactly this.)
* A variable name that an incoming credential cannot have, because another one has it
  here, is left out without a change of the vector (`src/vault/merge.rs:1543-1565`). With a
  variable and two credentials in `FolderSync`, two Macs then have one vector with two
  contents, and each sync pushes again.
* Three Macs can end with one vector and two values. Mac 1 makes *a*; Mac 3, which has *a*
  and whose wall clock is behind, makes *c* over it; Mac 2 makes *b* without either, at a
  time between those of *c* and *a*. Mac 1 merges *b*, over which *a* wins, and then *c*,
  over which *a* wins again. Mac 3, which has *c*, merges *b*, which wins. The vectors are
  equal, and the values are *a* and *b*, for good; the versions that lost stay as conflict
  copies. The clocks agree for any number of Macs (`ClocksAgree`).

## 6. What is not modelled yet, and the plan

In the order of their weight for what the owner relies on:

1. **OwnerProof** (`broker/approvals/owner_auth.rs`, `owner_window.rs`): making, using and
   ending proofs against an abstract "each proof answers one question of its session";
   composed with the approvals of the queue.
2. **AccessOnce** (`vault/access_once.rs`, `broker/access_once.rs`): admission, expiry,
   revocation and replay of one-time access, with a crash between admission and use.
3. **Proofs about FolderSync** after a delete raced: which part of `SyncInv` is left while no
   count was given twice, and what `NothingLost` says then.
4. **CredentialRequests** (`broker/agent_items.rs`), then **Leases** (`lease/`) and the timed
   auto-lock policies (`desktop/auto_lock.rs`).

Runs of later modules take bounds of the same kind: two actors of each role, one more
session than the property compares, and every limit small enough to be reached. The
abstract specifications are stated first, so that a composing module can use a component
by its promise, as `RunFlow` uses the queue.

Cryptography is taken as ideal throughout. Texts, layout, parsing, byte streams, the
operating system's sandbox and the local model stay outside: their results enter the
models as choices.
