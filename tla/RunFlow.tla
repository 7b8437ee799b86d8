------------------------------- MODULE RunFlow -------------------------------
(***************************************************************************)
(* A run of a command with a credential, from the first check to its entry *)
(* in the activity log (src/broker/run.rs), with the session of the vault  *)
(* (src/vault/mod.rs), the durable records of the runs that wait           *)
(* (src/vault/waiting.rs) and the lock of the owner                        *)
(* (src/desktop/owner_store.rs).  The vault can lock, unlock, change its   *)
(* passphrase or be gone with its process between any two steps of a run.  *)
(*                                                                         *)
(* An action is one critical section of the vault mutex, of the queue, or  *)
(* of the delivery fence.  The lock of the owner is two: the entries of    *)
(* the runs that wait, then the end of the delivery, with the vault mutex  *)
(* held from the first to the second, while the fence is still free.       *)
(*                                                                         *)
(* The queue is used as OneAnswer promises.  Abstracted: the policies, the *)
(* bouncer and the patterns (a run asks the owner or starts by itself), the*)
(* decision log, the uses and the learning (saved with the entry), several *)
(* vault files, and a failing write of the log.  The auto-lock policy is   *)
(* its default, Never: the vault is locked exactly when it has no session. *)
(***************************************************************************)
EXTENDS Naturals, FiniteSets

CONSTANTS
  Runs,            \* the threads of run_inner
  Versions,        \* what check_inner reads: credentials and their access
  Revoked,         \* what it reads when it refuses
  MaxEpoch         \* bound: vault sessions

ASSUME RunFlowAssumption ==
  /\ MaxEpoch \in Nat \ {0}
  /\ Revoked \notin Versions

VARIABLES
  vault,           \* the session: its epoch, and its phase: "open", "ending"
                   \* and "closing" (a lock holds the mutex), "locked"
  access,          \* what check_inner would read now
  records,         \* the runs with a row in the table waiting_run
  entries,         \* the entries of each run in the activity log
  pc,              \* where each run is
  scope,           \* the session and the credentials of its first check
  ticket,          \* the WaitTicket of each run: "none", "live", "dropped"
  question,        \* the question of each run in the queue
  own,             \* the local own_entry of each run
  secrets,         \* the version of the secrets that each run has read
  fence,           \* the session of the delivery fence that each run holds
  started          \* the runs whose command started

runVars == <<pc, scope, ticket, question, own, secrets, fence, started>>
vars == <<vault, access, records, entries, runVars>>

NoFence == 0
NoScope == [epoch |-> 0, access |-> Revoked]

Init ==
  /\ vault = [phase |-> "open", epoch |-> 1]
  /\ access \in Versions
  /\ records = {}
  /\ entries = [r \in Runs |-> {}]
  /\ pc = [r \in Runs |-> "idle"]
  /\ scope = [r \in Runs |-> NoScope]
  /\ ticket = [r \in Runs |-> "none"]
  /\ question = [r \in Runs |-> "none"]
  /\ own = [r \in Runs |-> FALSE]
  /\ secrets = [r \in Runs |-> Revoked]
  /\ fence = [r \in Runs |-> NoFence]
  /\ started = {}

-----------------------------------------------------------------------------
(* Helpers *)

\* The run r is at this step.
At(r, step) == pc[r] = step

MutexFree == vault.phase \in {"open", "locked"}

\* The run r enters a critical section of the vault mutex.
Enters(r, step) == At(r, step) /\ MutexFree

Unlocked == vault.phase = "open"
SameSession(r) == Unlocked /\ vault.epoch = scope[r].epoch

Goto(r, step) == pc' = [pc EXCEPT ![r] = step]

Record(S, kind) ==
  entries' = [r \in Runs |-> IF r \in S THEN entries[r] \cup {kind}
                                        ELSE entries[r]]

\* The queue still has the question of r, or an answer to it.
InQueue(r) == question[r] \in {"waiting", "approved", "denied"}

-----------------------------------------------------------------------------
(* The run *)

\* The first check.  Its refusal has an entry.
Check(r) ==
  /\ Enters(r, "idle")
  /\ IF Unlocked /\ access # Revoked
       THEN /\ scope' = [scope EXCEPT ![r] = [epoch |-> vault.epoch,
                                              access |-> access]]
            /\ Goto(r, "decide")
            /\ UNCHANGED entries
       ELSE /\ Record(IF Unlocked THEN {r} ELSE {}, "denied")
            /\ Goto(r, "done")
            /\ UNCHANGED scope
  /\ UNCHANGED <<vault, access, records, ticket, question, own, secrets,
                 fence, started>>

\* The bouncer and the rules decide without the vault mutex.
Decide(r) ==
  /\ At(r, "decide")
  /\ Goto(r, "record") \/ Goto(r, "recheck")
  /\ UNCHANGED <<vault, access, records, entries, scope, ticket,
                 question, own, secrets, fence, started>>

\* start_wait, in whatever session the vault has now.
StartWait(r) ==
  /\ Enters(r, "record")
  /\ \/ /\ Unlocked
        /\ records' = records \cup {r}
        /\ ticket' = [ticket EXCEPT ![r] = "live"]
     \/ UNCHANGED <<records, ticket>>
  /\ Goto(r, "ask")
  /\ UNCHANGED <<vault, access, entries, scope, question, own, secrets,
                 fence, started>>

\* The question enters the queue, or the queue refuses it.
Ask(r) ==
  /\ At(r, "ask")
  /\ \/ question' = [question EXCEPT ![r] = "waiting"] /\ Goto(r, "wait")
     \/ UNCHANGED question /\ Goto(r, "endwait")
  /\ UNCHANGED <<vault, access, records, entries, scope, ticket, own,
                 secrets, fence, started>>

\* Mutant: an answer that became void is still taken.
TakesVoid(r) ==
  /\ At(r, "wait")
  /\ question[r] \in {"approved", "ended"}
  /\ question' = [question EXCEPT ![r] = "granted"]
  /\ Goto(r, "endwait")
  /\ UNCHANGED <<vault, access, records, entries, scope, ticket, own,
                 secrets, fence, started>>

Takes(r) ==
  /\ At(r, "wait")
  /\ question[r] \in {"approved", "denied"}
  /\ question' = [question EXCEPT
                    ![r] = IF @ = "approved" THEN "granted" ELSE "refused"]
  /\ Goto(r, "endwait")
  /\ UNCHANGED <<vault, access, records, entries, scope, ticket, own,
                 secrets, fence, started>>

\* The wait ends without an answer: nobody answered in time, a newer call took
\* the question, or the session of the first check is over.
WaitEnds(r) ==
  /\ At(r, "wait")
  /\ question[r] \in {"waiting", "ended"} \/ (MutexFree /\ ~SameSession(r))
  /\ question' = [question EXCEPT ![r] = "ended"]
  /\ Goto(r, "endwait")
  /\ UNCHANGED <<vault, access, records, entries, scope, ticket, own,
                 secrets, fence, started>>

\* Mutant: the run takes the entry for its own whoever removed the record.
EndWaitAlwaysOwn(r) ==
  /\ Enters(r, "endwait")
  /\ own' = [own EXCEPT ![r] = Unlocked]
  /\ records' = IF Unlocked THEN records \ {r} ELSE records
  /\ Goto(r, "drop")
  /\ UNCHANGED <<vault, access, entries, scope, ticket, question,
                 secrets, fence, started>>

\* Mutant: the record stays.
EndWaitKeepsRecord(r) ==
  /\ Enters(r, "endwait")
  /\ own' = [own EXCEPT ![r] = Unlocked /\ (ticket[r] = "none" \/ r \in records)]
  /\ records' = records
  /\ Goto(r, "drop")
  /\ UNCHANGED <<vault, access, entries, scope, ticket, question,
                 secrets, fence, started>>

\* end_wait.
EndWait(r) ==
  /\ Enters(r, "endwait")
  /\ own' = [own EXCEPT ![r] = Unlocked /\ (ticket[r] = "none" \/ r \in records)]
  /\ records' = IF Unlocked THEN records \ {r} ELSE records
  /\ Goto(r, "drop")
  /\ UNCHANGED <<vault, access, entries, scope, ticket, question,
                 secrets, fence, started>>

DropTicket(r) ==
  /\ At(r, "drop")
  /\ ticket' = [ticket EXCEPT ![r] = IF @ = "live" THEN "dropped" ELSE @]
  /\ Goto(r, IF question[r] = "granted" THEN "recheck" ELSE "refuse")
  /\ UNCHANGED <<vault, access, records, entries, scope, question, own,
                 secrets, fence, started>>

Refuse(r) ==
  /\ Enters(r, "refuse")
  /\ Record(IF own[r] /\ Unlocked THEN {r} ELSE {}, "denied")
  /\ Goto(r, "done")
  /\ UNCHANGED <<vault, access, records, scope, ticket, question, own,
                 secrets, fence, started>>

\* Mutant: a change of the credentials is not seen.
RecheckPassesAnything(r) == SameSession(r) /\ access # Revoked

RecheckPasses(r) == SameSession(r) /\ access = scope[r].access

\* The second check.  In the locked vault a refusal has no entry; in a later
\* session it has one, whoever gave the run an entry before.
RecheckRefuses(r) ==
  /\ Enters(r, "recheck")
  /\ ~RecheckPasses(r)
  /\ Record(IF Unlocked THEN {r} ELSE {}, "denied")
  /\ Goto(r, "done")
  /\ UNCHANGED <<vault, access, records, scope, ticket, question, own,
                 secrets, fence, started>>

\* The answer of the owner cannot be saved, or a secret cannot be read.
RecheckFails(r) ==
  /\ Enters(r, "recheck")
  /\ RecheckPasses(r)
  /\ \/ Record({r}, "denied")
     \/ question[r] = "granted" /\ UNCHANGED entries
  /\ Goto(r, "done")
  /\ UNCHANGED <<vault, access, records, scope, ticket, question, own,
                 secrets, fence, started>>

Recheck(r) ==
  /\ Enters(r, "recheck")
  /\ RecheckPasses(r)
  /\ secrets' = [secrets EXCEPT ![r] = access]
  /\ Goto(r, "spawn")
  /\ UNCHANGED <<vault, access, records, entries, scope, ticket,
                 question, own, fence, started>>

\* The proxy does not start, or the operation was cancelled.
Prevented(r) ==
  /\ At(r, "spawn")
  /\ Goto(r, "report")
  /\ UNCHANGED <<vault, access, records, entries, scope, ticket,
                 question, own, secrets, fence, started>>

\* Mutant: the fence of any session will do.
TakeAnyFence(r) ==
  /\ Enters(r, "spawn")
  /\ IF Unlocked
       THEN fence' = [fence EXCEPT ![r] = vault.epoch] /\ Goto(r, "deliver")
       ELSE Goto(r, "report") /\ UNCHANGED fence
  /\ UNCHANGED <<vault, access, records, entries, scope, ticket,
                 question, own, secrets, started>>

\* spawn_in_session: the fence is taken under the vault mutex.
TakeFence(r) ==
  /\ Enters(r, "spawn")
  /\ IF SameSession(r)
       THEN fence' = [fence EXCEPT ![r] = vault.epoch] /\ Goto(r, "deliver")
       ELSE Goto(r, "report") /\ UNCHANGED fence
  /\ UNCHANGED <<vault, access, records, entries, scope, ticket,
                 question, own, secrets, started>>

\* The delivery of the session of this fence has not ended.
Live(r) == vault.epoch = fence[r] /\ vault.phase \in {"open", "ending"}

\* DeliveryFence::deliver, without the vault mutex.
Deliver(r) ==
  /\ At(r, "deliver")
  /\ started' \in IF Live(r) THEN {started, started \cup {r}} ELSE {started}
  /\ Goto(r, "report")
  /\ UNCHANGED <<vault, access, records, entries, scope, ticket,
                 question, own, secrets, fence>>

\* record_locked: the entry of the command, or of its failure to start.
Report(r) ==
  /\ Enters(r, "report")
  /\ Record(IF Unlocked THEN {r} ELSE {}, IF r \in started THEN "ran" ELSE "failed")
  /\ Goto(r, "done")
  /\ UNCHANGED <<vault, access, records, scope, ticket, question, own,
                 secrets, fence, started>>

-----------------------------------------------------------------------------
(* The owner *)

Answer(r) ==
  /\ question[r] = "waiting"
  /\ \E answer \in {"approved", "denied"} :
       question' = [question EXCEPT ![r] = answer]
  /\ UNCHANGED <<vault, access, records, entries, pc, scope, ticket,
                 own, secrets, fence, started>>

\* A credential, a grant or an agent changes, also by a merge.
ChangeAccess ==
  /\ Unlocked
  /\ access' \in (Versions \cup {Revoked}) \ {access}
  /\ UNCHANGED <<vault, records, entries, runVars>>

\* lock_ending_runs: every recorded wait gets its entry (end_waits).
LockBegins ==
  /\ Unlocked
  /\ vault' = [vault EXCEPT !.phase = "ending"]
  /\ Record(records, "ended")
  /\ records' = {}
  /\ UNCHANGED <<access, runVars>>

\* Vault::lock ends the delivery.
LockEnds ==
  /\ vault.phase = "ending"
  /\ vault' = [vault EXCEPT !.phase = "closing"]
  /\ UNCHANGED <<access, records, entries, runVars>>

\* ApprovalQueue::invalidate_all; then the vault mutex is free again.
InvalidateAll ==
  /\ vault.phase = "closing"
  /\ vault' = [vault EXCEPT !.phase = "locked"]
  /\ question' = [r \in Runs |-> IF InQueue(r) THEN "ended" ELSE question[r]]
  /\ UNCHANGED <<access, records, entries, pc, scope, ticket, own, secrets,
                 fence, started>>

\* A backup locks the vault without a word to the runs that wait.
Backup ==
  /\ Unlocked
  /\ vault' = [vault EXCEPT !.phase = "locked"]
  /\ UNCHANGED <<access, records, entries, runVars>>

\* A new passphrase is a new session, and the vault stays open.
ChangePassphrase ==
  /\ Unlocked
  /\ vault.epoch < MaxEpoch
  /\ vault' = [vault EXCEPT !.epoch = @ + 1]
  /\ UNCHANGED <<access, records, entries, runVars>>

\* Mutant: the unlock leaves the records of an earlier process.
UnlockKeepsRecords ==
  /\ vault.phase = "locked"
  /\ vault.epoch < MaxEpoch
  /\ vault' = [phase |-> "open", epoch |-> vault.epoch + 1]
  /\ UNCHANGED <<access, runVars, records, entries>>

\* Mutant: the session is new twice, at the lock inside of the unlock too.
UnlockRenewsTwice ==
  /\ vault.phase = "locked"
  /\ vault.epoch < MaxEpoch
  /\ vault' = [phase |-> "open", epoch |-> vault.epoch + 2]
  /\ LET gone == {r \in records : ticket[r] # "live"} IN
       /\ Record(gone, "stale")
       /\ records' = records \ gone
  /\ UNCHANGED <<access, runVars>>

\* Vault::unlock: a record without a live ticket gets its entry
\* (end_stale_waits).
Unlock ==
  /\ vault.phase = "locked"
  /\ vault.epoch < MaxEpoch
  /\ vault' = [phase |-> "open", epoch |-> vault.epoch + 1]
  /\ LET gone == {r \in records : ticket[r] # "live"} IN
       /\ Record(gone, "stale")
       /\ records' = records \ gone
  /\ UNCHANGED <<access, runVars>>

\* The process of the broker is gone, and its threads and tickets with it.
Crash ==
  /\ vault' = [vault EXCEPT !.phase = "locked"]
  /\ pc' = [r \in Runs |->
              IF pc[r] \in {"idle", "done", "gone", "lost"} THEN pc[r]
              ELSE IF r \in records THEN "lost" ELSE "gone"]
  /\ question' = [r \in Runs |-> IF InQueue(r) THEN "ended" ELSE question[r]]
  /\ ticket' = [r \in Runs |->
                  IF ticket[r] = "live" THEN "dropped" ELSE ticket[r]]
  /\ UNCHANGED <<access, records, entries, scope, own, secrets, fence, started>>

-----------------------------------------------------------------------------
RunSteps(r) ==
  \/ Check(r) \/ Decide(r) \/ StartWait(r) \/ Ask(r) \/ Takes(r) \/ WaitEnds(r)
  \/ EndWait(r) \/ DropTicket(r) \/ Refuse(r)
  \/ RecheckRefuses(r) \/ RecheckFails(r) \/ Recheck(r)
  \/ Prevented(r) \/ TakeFence(r) \/ Deliver(r) \/ Report(r)

Next ==
  \/ \E r \in Runs : RunSteps(r) \/ Answer(r)
  \/ ChangeAccess
  \/ LockBegins \/ LockEnds \/ InvalidateAll
  \/ Backup \/ ChangePassphrase \/ Unlock
  \/ Crash

Spec == Init /\ [][Next]_vars

-----------------------------------------------------------------------------
(* The type invariant. *)

Kinds == {"denied", "ended", "stale", "ran", "failed"}

TypeOK ==
  /\ vault \in [phase : {"open", "ending", "closing", "locked"},
                epoch : 1..MaxEpoch]
  /\ access \in Versions \cup {Revoked}
  /\ records \subseteq Runs
  /\ entries \in [Runs -> SUBSET Kinds]
  /\ pc \in [Runs -> {"idle", "decide", "record", "ask", "wait", "endwait",
                      "drop", "refuse", "recheck", "spawn", "deliver",
                      "report", "done", "gone", "lost"}]
  /\ scope \in [Runs -> [epoch : 0..MaxEpoch, access : Versions \cup {Revoked}]]
  /\ ticket \in [Runs -> {"none", "live", "dropped"}]
  /\ question \in [Runs -> {"none", "waiting", "approved", "denied",
                            "granted", "refused", "ended"}]
  /\ own \in [Runs -> BOOLEAN]
  /\ secrets \in [Runs -> Versions \cup {Revoked}]
  /\ fence \in [Runs -> 0..MaxEpoch]
  /\ started \subseteq Runs

-----------------------------------------------------------------------------
(* Properties. *)

\* run.rs:1838 ("A decision belongs to one vault session") and the delivery
\* fence: a command starts only while the session of its first check has not
\* ended, with the credentials as they were at that check, whatever locks,
\* unlocks, changes of the passphrase and restarts came in between.
StartsInItsSession ==
  [][\A r \in started' \ started :
       /\ vault.epoch = scope[r].epoch
       /\ vault.phase \in {"open", "ending"}
       /\ secrets[r] = scope[r].access]_vars

\* "The run did not start" (ENDED_BY_LOCK, ENDED_BY_RESTART): a run that
\* started has no entry of a lock, of a restart or of a refusal, and none of
\* its records is left that could become one.
EntriesTellTruth ==
  \A r \in started :
    r \notin records /\ entries[r] \cap {"denied", "ended", "stale"} = {}

\* The run and the lock agree who writes the entry (end_wait): a run that the
\* owner did not approve never gets two entries.
RefusedOnce ==
  \A r \in Runs :
    question[r] # "granted" => Cardinality(entries[r]) <= 1

\* A run that waited when the process was gone has its record until the next
\* unlock, and exactly one entry from then on.
CrashedWaitTold ==
  \A r \in Runs : At(r, "lost") =>
    IF r \in records THEN ~Unlocked /\ entries[r] = {}
                     ELSE Cardinality(entries[r]) = 1

-----------------------------------------------------------------------------
(* The inductive invariant behind StartsInItsSession and EntriesTellTruth. *)

\* The session of the first check is over, and stays so.
Over(r) == vault.epoch # scope[r].epoch \/ ~Unlocked

Denials == {"denied", "ended", "stale"}

\* A run has no entry and no record before it asks, none when it is about to
\* start, and a record or a denial that it meets on its way there is a sign of
\* a session that is over.
RunSafe(r) ==
  /\ scope[r].epoch <= vault.epoch
  /\ pc[r] = "idle" => entries[r] = {}
  /\ pc[r] \in {"idle", "decide", "record"} => r \notin records
  /\ pc[r] \in {"drop", "recheck"} /\ r \in records => Over(r)
  /\ pc[r] \in {"decide", "record", "ask", "wait", "endwait", "drop", "recheck"}
     /\ entries[r] \cap Denials # {} => Over(r)
  /\ pc[r] \in {"spawn", "deliver"} \/ r \in started =>
       r \notin records /\ entries[r] \cap Denials = {}
  /\ r \in started => pc[r] \in {"report", "done", "gone", "lost"}
  /\ pc[r] \in {"spawn", "deliver"} => secrets[r] = scope[r].access
  /\ pc[r] = "deliver" => fence[r] = scope[r].epoch

RunInv == TypeOK /\ \A r \in Runs : RunSafe(r)

-----------------------------------------------------------------------------
\* The question of r as the promise of the queue tells it.
Status(r) ==
  CASE question[r] = "none" -> "unasked"
    [] question[r] = "waiting" -> "waiting"
    [] question[r] \in {"approved", "denied"} -> "answered"
    [] question[r] \in {"granted", "refused"} -> "taken"
    [] OTHER -> "ended"

Takers(r) == IF question[r] \in {"granted", "refused"} THEN {r} ELSE {}

\* The queue that the runs rely on: each question gets at most one answer,
\* and no answer is taken after it became void (OneAnswer).
Queue == INSTANCE OneAnswer
           WITH Ids <- Runs, Calls <- Runs,
                status <- [r \in Runs |-> Status(r)],
                takers <- [r \in Runs |-> Takers(r)]

QueueAsPromised == Queue!Spec

\* Claimed by docs/operations/learning.md:317-320 ("a run gets one entry"): a
\* run that had a wait record and that was refused has its entry, or its
\* record still waits for the next lock or unlock.
RefusalIsTold ==
  \A r \in Runs :
    At(r, "done") /\ ticket[r] = "dropped" /\ question[r] # "granted"
      => r \in records \/ entries[r] # {}
=============================================================================
