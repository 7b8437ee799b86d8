------------------------- MODULE RunFlowEntryProofs -------------------------
(***************************************************************************)
(* Proofs about the entries of the runs that did not start, and about the  *)
(* questions of the runs, for any number of runs and vault sessions.       *)
(***************************************************************************)
EXTENDS RunFlowProofs, FiniteSetTheorems

\* The one entry of a run.
Single(S) == \E kind : S = {kind}

\* A run and the lock agree who writes the entry.  A record stands for an entry
\* that is still to be written; a run that takes the entry for its own has
\* neither; and a run that nobody approved writes at most once.
EntryOK(r) ==
  /\ r \in records => ticket[r] # "none"
  /\ r \in records /\ (pc[r] # "done" \/ question[r] # "granted") =>
       entries[r] = {}
  /\ pc[r] \in {"idle", "decide", "record"} => ticket[r] = "none"
  /\ pc[r] \in {"idle", "decide", "record", "ask"} => question[r] = "none"
  /\ pc[r] = "wait" => question[r] \in {"waiting", "approved", "denied", "ended"}
  /\ pc[r] \in {"idle", "decide", "record", "ask", "wait", "endwait"}
     /\ ticket[r] = "none" => entries[r] = {}
  /\ pc[r] \in {"drop", "refuse"} /\ own[r] => r \notin records /\ entries[r] = {}
  /\ pc[r] \in {"recheck", "spawn", "deliver", "report"}
     /\ question[r] # "granted" => r \notin records /\ entries[r] = {}
  /\ pc[r] = "lost" => IF r \in records THEN ~Unlocked /\ ticket[r] # "live"
                                        ELSE Single(entries[r])
  /\ question[r] # "granted" => entries[r] = {} \/ Single(entries[r])

EntryInv == TypeOK /\ \A r \in Runs : EntryOK(r)

\* The first entry of a run is its only one.
LEMMA FirstEntry ==
  ASSUME NEW S, NEW kind, S = {}
  PROVE  Single(S \cup {kind})
<1>1. S \cup {kind} = {kind}
  OBVIOUS
<1> QED BY <1>1 DEF Single

\* A run keeps the agreement in its own steps.
LEMMA OwnEntry ==
  ASSUME TypeOK, NEW r \in Runs, EntryOK(r), RunSteps(r)
  PROVE  EntryOK(r)'
<1>1. /\ \A kind : entries[r] = {} => Single(entries[r] \cup {kind})
      /\ TypeOK
  BY FirstEntry
<1> USE <1>1 DEF Goto, Record, At, Enters, EntryOK, Unlocked
<1>2. CASE Check(r)
  <2>1. /\ pc[r] = "idle" /\ pc'[r] \in {"decide", "done"}
        /\ entries'[r] = entries[r] \/
             (pc'[r] = "done" /\ entries'[r] = entries[r] \cup {"denied"})
        /\ UNCHANGED <<records, ticket, question, own, vault>>
    BY <1>2 DEF Check, TypeOK
  <2>2. entries[r] = {} /\ r \notin records
    BY <2>1
  <2>3. entries'[r] = {} \/ (pc'[r] = "done" /\ Single(entries'[r]))
    BY <2>1, <2>2
  <2> QED BY <2>1, <2>2, <2>3
<1>3. CASE Decide(r)
  BY <1>3 DEF Decide, TypeOK
<1>4. CASE StartWait(r)
  BY <1>4 DEF StartWait, TypeOK
<1>5. CASE Ask(r)
  BY <1>5 DEF Ask, TypeOK
<1>6. CASE Takes(r)
  BY <1>6 DEF Takes, TypeOK
<1>7. CASE WaitEnds(r)
  BY <1>7 DEF WaitEnds, TypeOK
<1>8. CASE EndWait(r)
  BY <1>8 DEF EndWait, TypeOK
<1>9. CASE DropTicket(r)
  BY <1>9 DEF DropTicket, TypeOK
<1>10. CASE Refuse(r)
  BY <1>10 DEF Refuse, TypeOK
<1>11. CASE RecheckRefuses(r)
  BY <1>11 DEF RecheckRefuses, TypeOK
<1>12. CASE RecheckFails(r)
  <2>1. /\ pc[r] = "recheck" /\ pc'[r] = "done"
        /\ \/ entries'[r] = entries[r] \cup {"denied"}
           \/ question[r] = "granted"
        /\ UNCHANGED <<records, ticket, question, own, vault>>
    BY <1>12 DEF RecheckFails, TypeOK
  <2>2. question[r] # "granted" =>
          /\ r \notin records /\ entries[r] = {}
          /\ entries'[r] = entries[r] \cup {"denied"}
    BY <2>1
  <2>3. question[r] # "granted" => Single(entries'[r])
    BY <2>2
  <2> QED BY <2>1, <2>2, <2>3
<1>13. CASE Recheck(r)
  BY <1>13 DEF Recheck, TypeOK
<1>14. CASE Prevented(r)
  BY <1>14 DEF Prevented, TypeOK
<1>15. CASE TakeFence(r)
  BY <1>15 DEF TakeFence, TypeOK
<1>16. CASE Deliver(r)
  BY <1>16 DEF Deliver, TypeOK
<1>17. CASE Report(r)
  BY <1>17 DEF Report, TypeOK
<1> QED BY <1>2, <1>3, <1>4, <1>5, <1>6, <1>7, <1>8, <1>9, <1>10, <1>11,
           <1>12, <1>13, <1>14, <1>15, <1>16, <1>17 DEF RunSteps

\* The owner, the vault and the process keep it for every run.
LEMMA OwnerEntry ==
  ASSUME TypeOK, NEW r \in Runs, EntryOK(r), OwnerSteps
  PROVE  EntryOK(r)'
<1>1. /\ \A kind : entries[r] = {} => Single(entries[r] \cup {kind})
      /\ TypeOK
  BY FirstEntry
<1> USE <1>1 DEF Record, At, EntryOK, Unlocked, runVars
<1>2. CASE \E q \in Runs : Answer(q)
  BY <1>2 DEF Answer, TypeOK
<1>3. CASE ChangeAccess \/ LockEnds \/ Backup \/ ChangePassphrase
  BY <1>3 DEF ChangeAccess, LockEnds, Backup, ChangePassphrase, TypeOK
<1>4. CASE LockBegins
  BY <1>4 DEF LockBegins, TypeOK
<1>5. CASE InvalidateAll
  BY <1>5 DEF InvalidateAll, InQueue, TypeOK
<1>6. CASE Unlock
  BY <1>6 DEF Unlock, TypeOK
<1>7. CASE Crash
  BY <1>7 DEF Crash, InQueue, TypeOK
<1> QED BY <1>2, <1>3, <1>4, <1>5, <1>6, <1>7 DEF OwnerSteps

LEMMA EntryStep == EntryInv /\ [Next]_vars => EntryInv'
<1> SUFFICES ASSUME EntryInv, [Next]_vars PROVE EntryInv'
  OBVIOUS
<1>1. TypeOK /\ TypeOK'
  BY TypeStep DEF EntryInv
<1>2. ASSUME NEW r \in Runs PROVE EntryOK(r)'
  <2>1. EntryOK(r)
    BY DEF EntryInv
  <2>2. ASSUME NEW q \in Runs, RunSteps(q), q # r
        PROVE  EntryOK(r)'
    BY <1>1, <2>1, <2>2, RunAlone DEF EntryOK, Unlocked
  <2>3. CASE UNCHANGED vars
    BY <2>1, <2>3 DEF vars, runVars, EntryOK, Unlocked
  <2> QED BY <1>1, <2>1, <2>2, <2>3, OwnEntry, OwnerEntry DEF Next, OwnerSteps
<1> QED BY <1>1, <1>2 DEF EntryInv

LEMMA Entries == Spec => []EntryInv
<1>1. Init => EntryInv
  <2> SUFFICES ASSUME Init PROVE EntryInv
    OBVIOUS
  <2>1. TypeOK
    BY InitType
  <2> QED BY <2>1 DEF Init, EntryInv, EntryOK
<1> QED BY <1>1, EntryStep, PTL DEF Spec

\* The sizes of no entry and of one.
LEMMA EntrySizes ==
  /\ Cardinality({}) = 0
  /\ \A S : Single(S) => Cardinality(S) = 1
BY FS_EmptySet, FS_Singleton DEF Single

\* A run that the owner did not approve never gets two entries, whatever locks,
\* unlocks and restarts come between its steps (end_wait, lock_ending_runs,
\* end_stale_waits).
THEOREM NeverRefusedTwice == Spec => []RefusedOnce
<1>1. EntryInv => RefusedOnce
  <2> SUFFICES ASSUME EntryInv, NEW r \in Runs, question[r] # "granted"
               PROVE  Cardinality(entries[r]) <= 1
    BY DEF RefusedOnce
  <2>1. entries[r] = {} \/ Single(entries[r])
    BY DEF EntryInv, EntryOK
  <2>2. Cardinality(entries[r]) \in {0, 1}
    BY <2>1, EntrySizes
  <2> QED BY <2>2
<1> QED BY <1>1, Entries, PTL

\* A run that waited when the process was gone has its record until the next
\* unlock, and exactly one entry from then on (end_stale_waits).
THEOREM CrashIsTold == Spec => []CrashedWaitTold
<1>1. EntryInv => CrashedWaitTold
  <2> SUFFICES ASSUME EntryInv, NEW r \in Runs, pc[r] = "lost"
               PROVE  IF r \in records THEN ~Unlocked /\ entries[r] = {}
                                       ELSE Cardinality(entries[r]) = 1
    BY DEF CrashedWaitTold, At
  <2>1. EntryOK(r)
    BY DEF EntryInv
  <2>2. CASE r \in records
    BY <2>1, <2>2 DEF EntryOK
  <2>3. CASE r \notin records
    BY <2>1, <2>3, EntrySizes DEF EntryOK
  <2> QED BY <2>2, <2>3
<1> QED BY <1>1, Entries, PTL

(***************************************************************************)
(* The questions of the runs are questions of the queue.                   *)
(***************************************************************************)

\* A step moves one question on, ends some, or leaves all as they are.
LEMMA QuestionMoves ==
  ASSUME EntryInv, [Next]_vars
  PROVE  \/ UNCHANGED question
         \/ \E r \in Runs : /\ question[r] = "none"
                           /\ question' = [question EXCEPT ![r] = "waiting"]
         \/ \E r \in Runs, a \in {"approved", "denied"} :
              question[r] = "waiting" /\ question' = [question EXCEPT ![r] = a]
         \/ \E r \in Runs, a \in {"granted", "refused"} :
              /\ question[r] \in {"approved", "denied"}
              /\ question' = [question EXCEPT ![r] = a]
         \/ \E S \in SUBSET {r \in Runs : InQueue(r)} :
              question' = [r \in Runs |-> IF r \in S THEN "ended"
                                                    ELSE question[r]]
<1> DEFINE Ended(S) == [r \in Runs |-> IF r \in S THEN "ended" ELSE question[r]]
<1>1. TypeOK /\ \A r \in Runs : EntryOK(r)
  BY DEF EntryInv
<1>2. ASSUME NEW r \in Runs, Ask(r)
      PROVE  UNCHANGED question \/ (question[r] = "none"
               /\ question' = [question EXCEPT ![r] = "waiting"])
  BY <1>1, <1>2 DEF Ask, At, EntryOK
<1>3. ASSUME NEW r \in Runs, Takes(r)
      PROVE  \E a \in {"granted", "refused"} :
               /\ question[r] \in {"approved", "denied"}
               /\ question' = [question EXCEPT ![r] = a]
  BY <1>1, <1>3 DEF Takes, TypeOK
<1>4. ASSUME NEW r \in Runs, WaitEnds(r)
      PROVE  \/ UNCHANGED question
             \/ InQueue(r) /\ question' = Ended({r})
  BY <1>1, <1>4 DEF WaitEnds, At, EntryOK, InQueue, TypeOK
<1>5. ASSUME NEW r \in Runs, RunSteps(r)
      PROVE  Ask(r) \/ Takes(r) \/ WaitEnds(r) \/ UNCHANGED question
  BY <1>5 DEF RunSteps, Check, Decide, StartWait, EndWait, DropTicket, Refuse,
              RecheckRefuses, RecheckFails, Recheck, Prevented, TakeFence,
              Deliver, Report
<1>6. ASSUME InvalidateAll \/ Crash
      PROVE  question' = Ended({r \in Runs : InQueue(r)})
  BY <1>6 DEF InvalidateAll, Crash
<1>7. CASE \E r \in Runs : RunSteps(r)
  <2>1. PICK r \in Runs : RunSteps(r)
    BY <1>7
  <2>2. InQueue(r) => {r} \in SUBSET {q \in Runs : InQueue(q)}
    OBVIOUS
  <2>3. CASE WaitEnds(r)
    BY <1>4, <2>2, <2>3
  <2> QED BY <1>2, <1>3, <1>5, <2>1, <2>3
<1>8. CASE \E r \in Runs : Answer(r)
  BY <1>8 DEF Answer
<1>9. CASE InvalidateAll \/ Crash
  BY <1>6, <1>9
<1>10. CASE \/ ChangeAccess \/ LockBegins \/ LockEnds \/ Backup
            \/ ChangePassphrase \/ Unlock \/ UNCHANGED vars
  BY <1>10 DEF ChangeAccess, LockBegins, LockEnds, Backup, ChangePassphrase,
               Unlock, vars, runVars
<1> QED BY <1>7, <1>8, <1>9, <1>10 DEF Next

\* Each of these moves is one that the queue promises.
LEMMA MovesArePromised ==
  ASSUME EntryInv, [Next]_vars
  PROVE  \/ Queue!Next
         \/ UNCHANGED <<[r \in Runs |-> Status(r)], [r \in Runs |-> Takers(r)]>>
<1> USE DEF Status, Takers
<1>1. question \in [Runs -> {"none", "waiting", "approved", "denied",
                             "granted", "refused", "ended"}]
  BY DEF EntryInv, TypeOK
<1>2. CASE UNCHANGED question
  BY <1>2
<1>3. ASSUME NEW r \in Runs, question[r] = "none",
             question' = [question EXCEPT ![r] = "waiting"]
      PROVE  Queue!Next
  <2>1. Queue!Ask(r, {})
    BY <1>1, <1>3 DEF Queue!Ask
  <2>2. {} \in SUBSET (Runs \ {r})
    OBVIOUS
  <2> QED BY <2>1, <2>2 DEF Queue!Next
<1>4. ASSUME NEW r \in Runs, NEW a \in {"approved", "denied"},
             question[r] = "waiting", question' = [question EXCEPT ![r] = a]
      PROVE  Queue!Next
  <2>1. Queue!Answer(r)
    BY <1>1, <1>4 DEF Queue!Answer
  <2> QED BY <2>1 DEF Queue!Next
<1>5. ASSUME NEW r \in Runs, NEW a \in {"granted", "refused"},
             question[r] \in {"approved", "denied"},
             question' = [question EXCEPT ![r] = a]
      PROVE  Queue!Next
  <2>1. Queue!Take(r, r)
    BY <1>1, <1>5 DEF Queue!Take
  <2> QED BY <2>1 DEF Queue!Next
<1>6. ASSUME NEW S \in SUBSET {r \in Runs : InQueue(r)},
             question' = [r \in Runs |-> IF r \in S THEN "ended" ELSE question[r]]
      PROVE  Queue!Next
  <2>1. Queue!End(S)
    BY <1>1, <1>6 DEF Queue!End, InQueue
  <2>2. S \in SUBSET Runs
    OBVIOUS
  <2> QED BY <2>1, <2>2 DEF Queue!Next
<1> QED BY <1>2, <1>3, <1>4, <1>5, <1>6, QuestionMoves

\* The runs use the queue as it promises: a run asks once, takes at most one
\* answer, and never one that a lock or a crash made void (take_decision,
\* invalidate_all).
THEOREM QueueIsUsed == Spec => QueueAsPromised
<1>1. Init => Queue!Init
  BY DEF Init, Queue!Init, Status, Takers
<1>2. EntryInv /\ [Next]_vars =>
        [Queue!Next]_<<[r \in Runs |-> Status(r)], [r \in Runs |-> Takers(r)]>>
  BY MovesArePromised
<1> QED BY <1>1, <1>2, Entries, PTL DEF Spec, QueueAsPromised, Queue!Spec

=============================================================================
