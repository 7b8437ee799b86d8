--------------------------- MODULE RunFlowProofs ---------------------------
(***************************************************************************)
(* Proofs about the runs for any number of runs, versions of credentials   *)
(* and vault sessions.                                                     *)
(***************************************************************************)
EXTENDS RunFlow, TLAPS

(***************************************************************************)
(* Type correctness.                                                       *)
(***************************************************************************)

\* An entry of a known kind keeps the type of the activity log.
LEMMA RecordType ==
  ASSUME TypeOK, NEW S, NEW kind \in Kinds, Record(S, kind)
  PROVE  entries' \in [Runs -> SUBSET Kinds]
BY DEF TypeOK, Record

\* The program starts in a typed state.
LEMMA InitType == Init => TypeOK
BY RunFlowAssumption DEF Init, TypeOK, NoScope, NoFence

\* A step of a run keeps the types.
LEMMA RunType ==
  ASSUME TypeOK, NEW r \in Runs, RunSteps(r)
  PROVE  TypeOK'
<1> USE DEF Goto, At, Enters, Unlocked, SameSession, RecheckPasses
<1>e. vault.epoch \in 0..MaxEpoch
  BY RunFlowAssumption DEF TypeOK
<1>1. CASE Check(r)
  <2>1. CASE Unlocked /\ access # Revoked
    <3>1. scope' \in [Runs -> [epoch : 0..MaxEpoch,
                             access : Versions \cup {Revoked}]]
      BY <1>e, <1>1, <2>1 DEF Check, TypeOK
    <3> QED BY <1>1, <2>1, <3>1 DEF Check, TypeOK
  <2>2. CASE ~(Unlocked /\ access # Revoked)
    <3>1. entries' \in [Runs -> SUBSET Kinds]
      BY <1>1, <2>2, RecordType DEF Check, Kinds
    <3> QED BY <1>1, <2>2, <3>1 DEF Check, TypeOK
  <2> QED BY <2>1, <2>2
<1>2. CASE Decide(r)
  BY <1>2 DEF Decide, TypeOK
<1>3. CASE StartWait(r)
  BY <1>3 DEF StartWait, TypeOK
<1>4. CASE Ask(r)
  BY <1>4 DEF Ask, TypeOK
<1>5. CASE Takes(r)
  BY <1>5 DEF Takes, TypeOK
<1>6. CASE WaitEnds(r)
  BY <1>6 DEF WaitEnds, TypeOK
<1>7. CASE EndWait(r)
  BY <1>7 DEF EndWait, TypeOK
<1>8. CASE DropTicket(r)
  BY <1>8 DEF DropTicket, TypeOK
<1>9. CASE Refuse(r)
  BY <1>9, RecordType DEF Refuse, TypeOK, Kinds
<1>10. CASE RecheckRefuses(r)
  BY <1>10, RecordType DEF RecheckRefuses, TypeOK, Kinds
<1>11. CASE RecheckFails(r)
  <2>1. entries' \in [Runs -> SUBSET Kinds]
    BY <1>11, RecordType DEF RecheckFails, Kinds, TypeOK
  <2> QED BY <1>11, <2>1 DEF RecheckFails, TypeOK
<1>12. CASE Recheck(r)
  BY <1>12 DEF Recheck, TypeOK
<1>13. CASE Prevented(r)
  BY <1>13 DEF Prevented, TypeOK
<1>14. CASE TakeFence(r)
  <2>1. fence' \in [Runs -> 0..MaxEpoch]
    BY <1>e, <1>14 DEF TakeFence, TypeOK
  <2> QED BY <1>14, <2>1 DEF TakeFence, TypeOK
<1>15. CASE Deliver(r)
  BY <1>15 DEF Deliver, TypeOK
<1>16. CASE Report(r)
  BY <1>16, RecordType DEF Report, TypeOK, Kinds
<1> QED BY <1>1, <1>2, <1>3, <1>4, <1>5, <1>6, <1>7, <1>8, <1>9, <1>10,
           <1>11, <1>12, <1>13, <1>14, <1>15, <1>16 DEF RunSteps

\* A step of the owner, of the vault or of the process keeps the types.
OwnerSteps ==
  \/ \E r \in Runs : Answer(r)
  \/ ChangeAccess \/ LockBegins \/ LockEnds \/ InvalidateAll
  \/ Backup \/ ChangePassphrase \/ Unlock \/ Crash

LEMMA OwnerType ==
  ASSUME TypeOK, OwnerSteps
  PROVE  TypeOK'
<1> USE DEF runVars, Unlocked
<1>1. CASE \E r \in Runs : Answer(r)
  BY <1>1 DEF Answer, TypeOK
<1>2. CASE ChangeAccess
  BY <1>2 DEF ChangeAccess, TypeOK
<1>3. CASE LockBegins
  BY <1>3, RecordType DEF LockBegins, TypeOK, Kinds
<1>4. CASE LockEnds
  BY <1>4 DEF LockEnds, TypeOK
<1>5. CASE InvalidateAll
  BY <1>5 DEF InvalidateAll, InQueue, TypeOK
<1>6. CASE Backup
  BY <1>6 DEF Backup, TypeOK
<1>7. CASE ChangePassphrase
  BY <1>7, RunFlowAssumption DEF ChangePassphrase, TypeOK
<1>8. CASE Unlock
  <2>1. vault' \in [phase : {"open", "ending", "closing", "locked"},
                    epoch : 1..MaxEpoch]
    BY <1>8, RunFlowAssumption DEF Unlock, TypeOK
  <2>2. entries' \in [Runs -> SUBSET Kinds]
    BY <1>8, RecordType DEF Unlock, Kinds
  <2>3. records' \subseteq Runs
    BY <1>8 DEF Unlock, TypeOK
  <2> QED BY <1>8, <2>1, <2>2, <2>3 DEF Unlock, TypeOK, Kinds
<1>9. CASE Crash
  BY <1>9 DEF Crash, InQueue, At, TypeOK
<1> QED BY <1>1, <1>2, <1>3, <1>4, <1>5, <1>6, <1>7, <1>8, <1>9 DEF OwnerSteps

\* Every step is of a run or of the owner, the vault or the process.
LEMMA TypeStep ==
  ASSUME TypeOK, [Next]_vars
  PROVE  TypeOK'
<1>1. CASE Next
  <2>1. (\E r \in Runs : RunSteps(r)) \/ OwnerSteps
    BY <1>1 DEF Next, OwnerSteps
  <2> QED BY <2>1, RunType, OwnerType
<1>2. CASE UNCHANGED vars
  BY <1>2 DEF vars, runVars, TypeOK
<1> QED BY <1>1, <1>2

\* Every state of the runs, of the log and of the vault has its type
\* (run_inner, Vault, WaitTicket).
THEOREM TypeCorrect == Spec => []TypeOK
<1>1. Init => TypeOK
  BY InitType
<1>2. TypeOK /\ [Next]_vars => TypeOK'
  BY TypeStep
<1> QED BY <1>1, <1>2, PTL DEF Spec

(***************************************************************************)
(* The runs and the entries.                                               *)
(***************************************************************************)

\* A run that a step does not concern stays safe: sessions only go forward,
\* and a session that is over stays over.
LEMMA Unconcerned ==
  ASSUME TypeOK, TypeOK', NEW r \in Runs, RunSafe(r),
         vault.epoch <= vault'.epoch,
         Over(r) => Over(r)',
         pc'[r] = pc[r], scope'[r] = scope[r], secrets'[r] = secrets[r],
         fence'[r] = fence[r],
         entries'[r] = entries[r],
         r \in records' <=> r \in records,
         r \in started' <=> r \in started
  PROVE  RunSafe(r)'
<1>1. /\ vault.epoch \in Nat /\ vault'.epoch \in Nat
      /\ scope[r].epoch \in Nat
  BY RunFlowAssumption DEF TypeOK
<1> QED BY <1>1 DEF RunSafe

\* The program starts safely.
LEMMA InitSafe == Init => RunInv
<1> SUFFICES ASSUME Init PROVE RunInv
  OBVIOUS
<1>1. TypeOK
  BY InitType
<1>2. ASSUME NEW r \in Runs PROVE RunSafe(r)
  BY DEF Init, RunSafe, NoScope, NoFence
<1> QED BY <1>1, <1>2 DEF RunInv

\* A step of a run concerns neither another run nor the session of the vault.
LEMMA RunAlone ==
  ASSUME TypeOK, NEW q \in Runs, RunSteps(q), NEW r \in Runs, r # q
  PROVE  /\ pc'[r] = pc[r] /\ scope'[r] = scope[r]
         /\ secrets'[r] = secrets[r] /\ fence'[r] = fence[r]
         /\ entries'[r] = entries[r]
         /\ r \in records' <=> r \in records
         /\ r \in started' <=> r \in started
         /\ question'[r] = question[r] /\ ticket'[r] = ticket[r]
         /\ own'[r] = own[r]
         /\ vault' = vault
<1> USE DEF Goto, Record, TypeOK
<1>1. CASE Check(q)
  BY <1>1 DEF Check
<1>2. CASE Decide(q)
  BY <1>2 DEF Decide
<1>3. CASE StartWait(q)
  BY <1>3 DEF StartWait
<1>4. CASE Ask(q)
  BY <1>4 DEF Ask
<1>5. CASE Takes(q)
  BY <1>5 DEF Takes
<1>6. CASE WaitEnds(q)
  BY <1>6 DEF WaitEnds
<1>7. CASE EndWait(q)
  BY <1>7 DEF EndWait
<1>8. CASE DropTicket(q)
  BY <1>8 DEF DropTicket
<1>9. CASE Refuse(q)
  BY <1>9 DEF Refuse
<1>10. CASE RecheckRefuses(q)
  BY <1>10 DEF RecheckRefuses
<1>11. CASE RecheckFails(q)
  BY <1>11 DEF RecheckFails
<1>12. CASE Recheck(q)
  BY <1>12 DEF Recheck
<1>13. CASE Prevented(q)
  BY <1>13 DEF Prevented
<1>14. CASE TakeFence(q)
  BY <1>14 DEF TakeFence
<1>15. CASE Deliver(q)
  BY <1>15 DEF Deliver
<1>16. CASE Report(q)
  BY <1>16 DEF Report
<1> QED BY <1>1, <1>2, <1>3, <1>4, <1>5, <1>6, <1>7, <1>8,
           <1>9, <1>10, <1>11, <1>12, <1>13, <1>14, <1>15, <1>16 DEF RunSteps

\* So another run stays safe.
LEMMA OtherRunSafe ==
  ASSUME RunInv, NEW q \in Runs, RunSteps(q), TypeOK',
         NEW r \in Runs, r # q
  PROVE  RunSafe(r)'
<1>a. /\ TypeOK /\ vault.epoch \in Nat
  BY RunFlowAssumption DEF RunInv, TypeOK
<1>b. vault' = vault
  BY <1>a, RunAlone
<1>c. Over(r) => Over(r)'
  BY <1>a, <1>b, RunAlone DEF Over, Unlocked
<1> QED BY <1>a, <1>b, <1>c, RunAlone, Unconcerned DEF RunInv

\* A run stays safe in its own steps.
LEMMA OwnRunSafe ==
  ASSUME RunInv, NEW r \in Runs, RunSteps(r), TypeOK'
  PROVE  RunSafe(r)'
<1>a. /\ TypeOK /\ RunSafe(r)
      /\ vault.epoch \in Nat
  BY RunFlowAssumption DEF RunInv, TypeOK
<1> USE <1>a DEF Goto, Record, At, Enters, RunSafe, Over, Unlocked, Denials
<1>1. CASE Check(r)
  BY <1>1 DEF Check, TypeOK
<1>2. CASE Decide(r)
  BY <1>2 DEF Decide, TypeOK
<1>3. CASE StartWait(r)
  BY <1>3 DEF StartWait, TypeOK
<1>4. CASE Ask(r)
  BY <1>4 DEF Ask, TypeOK
<1>5. CASE Takes(r)
  BY <1>5 DEF Takes, TypeOK
<1>6. CASE WaitEnds(r)
  BY <1>6 DEF WaitEnds, TypeOK
<1>7. CASE EndWait(r)
  BY <1>7 DEF EndWait, TypeOK, MutexFree
<1>8. CASE DropTicket(r)
  BY <1>8 DEF DropTicket, TypeOK
<1>9. CASE Refuse(r)
  BY <1>9 DEF Refuse, TypeOK
<1>10. CASE RecheckRefuses(r)
  BY <1>10 DEF RecheckRefuses, TypeOK
<1>11. CASE RecheckFails(r)
  BY <1>11 DEF RecheckFails, TypeOK
<1>12. CASE Recheck(r)
  BY <1>12 DEF Recheck, TypeOK, RecheckPasses, SameSession
<1>13. CASE Prevented(r)
  BY <1>13 DEF Prevented, TypeOK
<1>14. CASE TakeFence(r)
  BY <1>14 DEF TakeFence, TypeOK, SameSession
<1>15. CASE Deliver(r)
  BY <1>15 DEF Deliver, TypeOK
<1>16. CASE Report(r)
  BY <1>16 DEF Report, TypeOK
<1> QED BY <1>1, <1>2, <1>3, <1>4, <1>5, <1>6, <1>7, <1>8, <1>9, <1>10,
           <1>11, <1>12, <1>13, <1>14, <1>15, <1>16 DEF RunSteps

\* The owner, the vault and the process leave every run safe.
LEMMA OwnerSafe ==
  ASSUME RunInv, OwnerSteps, TypeOK', NEW r \in Runs
  PROVE  RunSafe(r)'
<1>a. /\ TypeOK /\ RunSafe(r)
      /\ vault.epoch \in Nat /\ scope[r].epoch \in Nat
  BY RunFlowAssumption DEF RunInv, TypeOK
<1> USE <1>a DEF runVars
<1>1. CASE \E q \in Runs : Answer(q)
  BY <1>1 DEF Answer, TypeOK, RunSafe, Over, Unlocked, Record, Denials, At
<1>2. CASE ChangeAccess
  BY <1>2 DEF ChangeAccess, TypeOK, RunSafe, Over, Unlocked, Record, Denials, At
<1>3. CASE LockBegins
  BY <1>3 DEF LockBegins, TypeOK, RunSafe, Over, Unlocked, Record, Denials, At
<1>4. CASE LockEnds
  BY <1>4 DEF LockEnds, TypeOK, RunSafe, Over, Unlocked, Record, Denials, At
<1>5. CASE InvalidateAll
  BY <1>5 DEF InvalidateAll, TypeOK, RunSafe, Over, Unlocked, Record, Denials, At
<1>6. CASE Backup
  BY <1>6 DEF Backup, TypeOK, RunSafe, Over, Unlocked, Record, Denials, At
<1>7. CASE ChangePassphrase
  BY <1>7 DEF ChangePassphrase, TypeOK, RunSafe, Over, Unlocked, Record, Denials, At
<1>8. CASE Unlock
  BY <1>8 DEF Unlock, TypeOK, RunSafe, Over, Unlocked, Record, Denials, At
<1>9. CASE Crash
  BY <1>9 DEF Crash, TypeOK, RunSafe, Over, Unlocked, Record, Denials, At
<1> QED BY <1>1, <1>2, <1>3, <1>4, <1>5, <1>6, <1>7, <1>8, <1>9 DEF OwnerSteps

\* Every step keeps the invariant.
LEMMA SafeStep ==
  ASSUME RunInv, [Next]_vars
  PROVE  RunInv'
<1>1. TypeOK'
  BY TypeStep DEF RunInv
<1>2. ASSUME NEW r \in Runs PROVE RunSafe(r)'
  <2>1. CASE Next
    <3>1. CASE \E q \in Runs : RunSteps(q)
      <4>1. PICK q \in Runs : RunSteps(q)
        BY <3>1
      <4> QED BY <1>1, <4>1, OtherRunSafe, OwnRunSafe
    <3>2. CASE OwnerSteps
      BY <1>1, <3>2, OwnerSafe
    <3> QED BY <2>1, <3>1, <3>2 DEF Next, OwnerSteps
  <2>2. CASE UNCHANGED vars
    BY <2>2 DEF vars, runVars, RunInv, RunSafe, Over, Unlocked
  <2> QED BY <2>1, <2>2
<1> QED BY <1>1, <1>2 DEF RunInv

\* The invariant holds in every state of the runs (run_inner, end_wait,
\* lock_ending_runs, Vault::unlock).
LEMMA Safe == Spec => []RunInv
<1>1. Init => RunInv
  BY InitSafe
<1>2. RunInv /\ [Next]_vars => RunInv'
  BY SafeStep
<1> QED BY <1>1, <1>2, PTL DEF Spec

\* ENDED_BY_LOCK and ENDED_BY_RESTART say that a run did not start: for any
\* number of runs, none that started has such an entry, nor a record that
\* could become one.
THEOREM TruthfulEntries == Spec => []EntriesTellTruth
<1>1. RunInv => EntriesTellTruth
  BY DEF RunInv, RunSafe, EntriesTellTruth, Denials, TypeOK
<1> QED BY <1>1, Safe, PTL

\* A decision belongs to one vault session (run_inner, spawn_in_session): a
\* command starts only in the session of its first check and with the
\* credentials as they were then.
THEOREM OwnSession == Spec => StartsInItsSession
<1> DEFINE Start == \A r \in started' \ started :
                      /\ vault.epoch = scope[r].epoch
                      /\ vault.phase \in {"open", "ending"}
                      /\ secrets[r] = scope[r].access
<1>1. ASSUME RunInv, Next PROVE Start
  <2>1. CASE \E q \in Runs : Deliver(q)
    BY <1>1, <2>1 DEF Deliver, Live, At, RunInv, RunSafe, TypeOK
  <2>2. CASE ~\E q \in Runs : Deliver(q)
    <3>1. started' = started
      BY <1>1, <2>2 DEF Next, RunSteps, Check, Decide, StartWait, Ask, Takes,
        WaitEnds, EndWait, DropTicket, Refuse, RecheckRefuses, RecheckFails,
        Recheck, Prevented, TakeFence, Report, Answer, ChangeAccess,
        LockBegins, LockEnds, InvalidateAll, Backup, ChangePassphrase,
        Unlock, Crash, runVars
    <3> QED BY <3>1
  <2> QED BY <2>1, <2>2
<1>2. RunInv /\ [Next]_vars => [Start]_vars
  BY <1>1
<1> QED BY <1>2, Safe, PTL DEF Spec, StartsInItsSession
=============================================================================
