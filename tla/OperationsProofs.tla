-------------------------- MODULE OperationsProofs --------------------------
(***************************************************************************)
(* The properties of Operations for any number of calls, inquiries, agents,*)
(* sessions and records.                                                   *)
(*                                                                         *)
(* A record stays in the table as long as its operation could meet another *)
(* submission: until 15 minutes after its end, or until the end of its     *)
(* session (Kept).  So whoever is admitted meets no other submission of    *)
(* the same operation (Alone), and whoever runs is still in the table when *)
(* the session ends, and becomes invalid with it (CallOK).  Every call that*)
(* runs has a record of its own, so that the limits of the table are limits*)
(* of the calls (Counted).                                                 *)
(***************************************************************************)
EXTENDS Operations, FiniteSetTheorems, TLAPS

CallPlaces == {"idle", "admit", "begin", "enter", "waiting", "boundary",
               "effect", "finish", "remove", "done"}
InquiryPlaces == {"idle", "look", "mark", "await", "withdraw", "receipt", "done"}

\* Not admitted to the table yet.
Outside(t) == pc[t] \in {"idle", "admit", "look"}

\* The session of t is the one of the vault, and its end is not done.
Current(t) == scope[t].epoch = vault.epoch /\ vault.phase # "locked"

\* t has a record, or had one: an admitted call that may run or did run, or a
\* tombstone.
Issued(t) == IF t \in Calls THEN Running(t) \/ control[t].started
                            ELSE control[t].finished # "no"

DomainsOK == DOMAIN op = Threads /\ DOMAIN scope = Threads /\ DOMAIN told = Threads

VaultOK ==
  /\ session \in {0, vault.epoch}
  /\ vault.phase # "open" => session = 0

ThreadOK(t) ==
  /\ scope[t] \in Scopes => scope[t].epoch \in 1..vault.epoch
  /\ pc[t] \notin {"idle", "done"} => scope[t] \in Scopes
  /\ Issued(t) => ~Outside(t) /\ scope[t] \in Scopes
  /\ Outside(t) => control[t].finished = "no" /\ ~control[t].invalidated
  /\ control[t].invalidated => control[t].outcome = "none"
  /\ CancelTold(t) => /\ Target(t) \in Threads
                      /\ control[Target(t)].cancelled
                      /\ ~control[Target(t)].started

CallOK(c) ==
  /\ pc[c] \in CallPlaces
  /\ pc[c] # "idle" => /\ op[c].kind \in Kinds
                       /\ op[c].id \in Ids \cup {c}
                       /\ op[c].key \in Keys \cup {NoKey}
                       /\ op[c].id = c => op[c].key = NoKey
  /\ Running(c) => control[c].finished = "no"
  /\ Running(c) /\ ~Current(c) => control[c].invalidated
  /\ pc[c] = "enter" /\ op[c].kind \in {"change", "access"}
       => control[c].started
  /\ pc[c] = "effect" => control[c].started
  /\ c \in effects => control[c].started /\ pc[c] \in {"finish", "remove", "done"}
  /\ control[c].bound => control[c].started /\ pc[c] \in {"finish", "remove", "done"}
  /\ pc[c] \in {"finish", "remove", "done"} /\ told[c].what = "cancelled"
       => c \notin effects
  /\ pc[c] = "finish" => told[c].what \in Outcomes
  /\ pc[c] = "remove" => Legacy(c)

InquiryOK(x) ==
  /\ pc[x] \in InquiryPlaces
  /\ pc[x] # "idle" => op[x].kind \in {"status", "cancel"} /\ op[x].id \in Ids
  /\ ~control[x].started
  /\ pc[x] \in {"mark", "await", "withdraw", "receipt"} =>
       /\ Target(x) \in Threads \ {x}
       /\ ~Outside(Target(x))
       /\ scope[Target(x)] = scope[x]
  /\ told[x].what = "receipt" /\ Target(x) = x => control[x].finished # "no"
  /\ control[x].finished # "no" => pc[x] = "done"

\* A record is of the session that is there, and of the thread that it names.
RecordsOK ==
  \A id \in DOMAIN records :
    LET r == records[id]
    IN  /\ r.scope.epoch = vault.epoch
        /\ session = vault.epoch \/ vault.phase = "ending"
        /\ ~Outside(r.control)
        /\ op[r.control].id = id
        /\ scope[r.control] = r.scope

\* A call without an ID has removed its record.
Removed(t) == t \in Calls /\ Legacy(t) /\ pc[t] = "done"

HasRecord(t) ==
  /\ op[t].id \in DOMAIN records
  /\ records[op[t].id].control = t
  /\ records[op[t].id].scope = scope[t]
  /\ t \in Calls => /\ records[op[t].id].key = op[t].key
                    /\ records[op[t].id].fingerprint # "unknown"

Kept(t) ==
  Issued(t) /\ control[t].finished # "old" /\ Current(t) /\ ~Removed(t)
    => HasRecord(t)

\* Nothing of a session is in the table before its cleanup is registered.
NotYet ==
  vault.phase = "open" /\ session # vault.epoch =>
    \A t \in Threads : Issued(t) => scope[t].epoch # vault.epoch

Same(s, t) ==
  /\ scope[s] = scope[t]
  /\ \/ op[s].id = op[t].id
     \/ s \in Calls /\ t \in Calls /\ op[s].key = op[t].key /\ op[s].key # NoKey

Alone(s, t) ==
  s # t /\ Issued(s) /\ Issued(t) /\ Same(s, t)
    => "old" \in {control[s].finished, control[t].finished}

IInv ==
  /\ TypeOK /\ DomainsOK /\ VaultOK
  /\ \A t \in Threads : ThreadOK(t) /\ Kept(t)
  /\ \A c \in Calls : CallOK(c)
  /\ \A x \in Inquiries : InquiryOK(x)
  /\ RecordsOK /\ NotYet
  /\ \A s, t \in Threads : Alone(s, t)
  /\ AccessWithdrawn

(***************************************************************************)
(* A step of one thread.                                                   *)
(***************************************************************************)

\* The program starts in the invariant.
LEMMA InvInit == Init => IInv
<1> SUFFICES ASSUME Init PROVE IInv
  OBVIOUS
<1>1. TypeOK
  BY LimitsAssumption DEF Init, TypeOK, NewControl, Outcomes
<1>2. DomainsOK /\ VaultOK /\ RecordsOK /\ NotYet /\ AccessWithdrawn
  BY NamesAssumption
  DEF Init, DomainsOK, VaultOK, RecordsOK, NotYet, Issued, Running, NewControl,
      AccessWithdrawn, Threads
<1>3. \A t \in Threads : ThreadOK(t) /\ Kept(t) /\ ~Issued(t)
  BY NamesAssumption
  DEF Init, ThreadOK, Kept, Issued, Running, NewControl, CancelTold, NotTold,
      Outside, Scopes
<1>4. \A c \in Calls : CallOK(c)
  BY DEF Init, CallOK, CallPlaces, NewControl, Running, Threads
<1>5. \A x \in Inquiries : InquiryOK(x)
  BY DEF Init, InquiryOK, InquiryPlaces, NewControl, NotTold, Threads
<1> QED BY <1>1, <1>2, <1>3, <1>4, <1>5 DEF IInv, Alone

\* The operation of s is only cancelled, if it changes.
Alike(s) ==
  /\ control'[s].invalidated = control[s].invalidated
  /\ control'[s].started = control[s].started
  /\ control'[s].outcome = control[s].outcome
  /\ control'[s].finished = control[s].finished
  /\ control'[s].bound = control[s].bound
  /\ control[s].cancelled => control'[s].cancelled

\* What a step of the thread t that names no session may change.
StepOf(t) ==
  /\ UNCHANGED <<vault, session, op, scope>>
  /\ DOMAIN told' = Threads
  /\ ~Outside(t)'
  /\ \A s \in Threads \ {t} :
       pc'[s] = pc[s] /\ told'[s] = told[s] /\ Alike(s)
  /\ \A s \in Threads \ {t} : s \in effects' <=> s \in effects
  /\ control[t].finished = "old" => control'[t].finished = "old"
  /\ control[t].cancelled /\ ~control[t].started
       => control'[t].cancelled /\ ~control'[t].started

\* The other threads do not notice.
LEMMA ThreadsKeep ==
  ASSUME IInv, NEW t \in Threads, StepOf(t), ThreadOK(t)',
         t \in Calls => CallOK(t)', t \in Inquiries => InquiryOK(t)'
  PROVE  /\ DomainsOK' /\ VaultOK'
         /\ \A s \in Threads : ThreadOK(s)'
         /\ \A c \in Calls : CallOK(c)'
         /\ \A x \in Inquiries : InquiryOK(x)'
<1>1. DomainsOK' /\ VaultOK'
  BY DEF IInv, DomainsOK, VaultOK, StepOf
<1>2. ASSUME NEW s \in Threads PROVE ThreadOK(s)'
  <2>1. CASE s # t
    <3>1. ThreadOK(s)
      BY DEF IInv
    <3>2. /\ pc'[s] = pc[s] /\ told'[s] = told[s] /\ Alike(s)
          /\ scope' = scope /\ vault' = vault
      BY <2>1 DEF StepOf
    <3>3. CancelTold(s)' =>
            /\ Target(s) \in Threads /\ Target(s)' = Target(s)
            /\ control[Target(s)].cancelled /\ ~control[Target(s)].started
      BY <3>1, <3>2 DEF ThreadOK, CancelTold, Target
    <3>4. CancelTold(s)' =>
            /\ control'[Target(s)].cancelled /\ ~control'[Target(s)].started
      BY <3>3 DEF StepOf, Alike
    <3> QED BY <3>1, <3>2, <3>3, <3>4 DEF ThreadOK, Issued, Running, Outside, Alike
  <2> QED BY <2>1
<1>3. ASSUME NEW c \in Calls PROVE CallOK(c)'
  <2>1. CASE c # t
    <3>1. CallOK(c) /\ c \in Threads
      BY DEF IInv, Threads
    <3> QED BY <2>1, <3>1
        DEF CallOK, StepOf, Alike, Running, Current, Legacy
  <2> QED BY <2>1
<1>4. ASSUME NEW x \in Inquiries PROVE InquiryOK(x)'
  <2>1. CASE x # t
    <3>1. InquiryOK(x) /\ x \in Threads
      BY DEF IInv, Threads
    <3>2. /\ pc'[x] = pc[x] /\ told'[x] = told[x] /\ Alike(x)
          /\ scope' = scope /\ op' = op
      BY <2>1, <3>1 DEF StepOf
    <3>3. \A s \in Threads : ~Outside(s) => ~Outside(s)'
      BY DEF StepOf, Outside
    <3> QED BY <3>1, <3>2, <3>3 DEF InquiryOK, Target, Alike
  <2> QED BY <2>1
<1> QED BY <1>1, <1>2, <1>3, <1>4

\* A step after which t is not newly admitted meets no other operation.
LEMMA AloneKeeps ==
  ASSUME IInv, NEW t \in Threads, StepOf(t), Issued(t)' => Issued(t)
  PROVE  NotYet' /\ \A r, s \in Threads : Alone(r, s)'
<1>1. \A s \in Threads : Issued(s)' => Issued(s)
  BY DEF StepOf, Alike, Issued, Running
<1>2. NotYet'
  BY <1>1 DEF IInv, NotYet, StepOf
<1>3. ASSUME NEW r \in Threads, NEW s \in Threads PROVE Alone(r, s)'
  <2>1. Alone(r, s) /\ (Same(r, s)' => Same(r, s))
    BY DEF IInv, StepOf, Same
  <2>2. /\ control[r].finished = "old" => control'[r].finished = "old"
        /\ control[s].finished = "old" => control'[s].finished = "old"
    BY DEF StepOf, Alike
  <2> QED BY <1>1, <2>1, <2>2 DEF Alone
<1> QED BY <1>2, <1>3

\* Records leave the table when they are old, or with the call that drops its
\* own, and a tombstone takes the key and the arguments of a call.
TableKeeps ==
  /\ DOMAIN records' \subseteq DOMAIN records
  /\ \A id \in DOMAIN records \ DOMAIN records', t \in Threads :
       records[id].control = t => control[t].finished = "old" \/ Removed(t)'
  /\ \A id \in DOMAIN records' :
       /\ records'[id].scope = records[id].scope
       /\ records'[id].control = records[id].control
       /\ records[id].fingerprint # "unknown" => records'[id] = records[id]

LEMMA RecordsKeep ==
  ASSUME IInv, NEW t \in Threads, StepOf(t), TableKeeps,
         Issued(t)' => Issued(t), Removed(t) => Removed(t)'
  PROVE  RecordsOK' /\ \A s \in Threads : Kept(s)'
<1>1. RecordsOK'
  <2>1. ASSUME NEW id \in DOMAIN records', NEW s \in Threads,
               records[id].control = s
        PROVE  /\ records[id].scope.epoch = vault.epoch
               /\ session = vault.epoch \/ vault.phase = "ending"
               /\ ~Outside(s)'
               /\ op[s].id = id
               /\ scope[s] = records[id].scope
    <3>1. id \in DOMAIN records
      BY DEF TableKeeps
    <3>2. ~Outside(s)
      BY <2>1, <3>1 DEF IInv, RecordsOK
    <3>3. ~Outside(s)'
      BY <3>2 DEF StepOf, Outside
    <3> QED BY <2>1, <3>1, <3>3 DEF IInv, RecordsOK
  <2>2. \A id \in DOMAIN records' : records[id].control \in Threads
    BY DEF TableKeeps, IInv, TypeOK, Records
  <2> QED BY <2>1, <2>2 DEF RecordsOK, StepOf, TableKeeps, Outside
<1>2. ASSUME NEW s \in Threads PROVE Kept(s)'
  <2>1. Kept(s)
    BY DEF IInv
  <2>2. (Issued(s)' => Issued(s)) /\ (Removed(s) => Removed(s)')
    BY DEF StepOf, Alike, Issued, Running, Removed, Legacy
  <2>3. control[s].finished = "old" => control'[s].finished = "old"
    BY DEF StepOf, Alike
  <2>4. SUFFICES ASSUME HasRecord(s), control[s].finished # "old", ~Removed(s)'
                 PROVE  HasRecord(s)'
    BY <2>1, <2>2, <2>3 DEF Kept, StepOf, Current
  <2>5. op[s].id \in DOMAIN records'
    BY <2>4 DEF TableKeeps, HasRecord
  <2> QED BY <2>4, <2>5 DEF TableKeeps, HasRecord, StepOf
<1> QED BY <1>1, <1>2

\* Together.
LEMMA StepKeeps ==
  ASSUME IInv, NEW t \in Threads, StepOf(t), TableKeeps, TypeOK',
         Issued(t)' => Issued(t), Removed(t) => Removed(t)', ThreadOK(t)',
         t \in Calls => CallOK(t)', t \in Inquiries => InquiryOK(t)',
         AccessWithdrawn'
  PROVE  IInv'
BY ThreadsKeep, AloneKeeps, RecordsKeep DEF IInv

(***************************************************************************)
(* The steps of a call that runs.                                          *)
(***************************************************************************)

\* What a step of a running call may change, besides its own place.
LEMMA RunningStep ==
  ASSUME IInv, NEW c \in Calls, Running(c), StepOf(c), records' = records,
         TypeOK', CallOK(c)',
         told'[c] = told[c] \/ told'[c].what # "receipt",
         control'[c].invalidated = control[c].invalidated,
         control'[c].cancelled = control[c].cancelled,
         control'[c].invalidated => control'[c].outcome = "none",
         \A s \in Threads \ {c} : control'[s] = control[s],
         \A d \in Calls \ {c} : access'[d] = access[d],
         control'[c].bound =>
           \/ control[c].bound /\ access'[c] = access[c]
           \/ control'[c].cancelled => access'[c] = "withdrawn"
  PROVE  IInv'
<1>1. c \in Threads /\ c \notin Inquiries /\ Issued(c) /\ ~Removed(c)
  BY NamesAssumption DEF Threads, Issued, Running, Removed
<1>2. ThreadOK(c)'
  <2>1. ThreadOK(c)
    BY <1>1 DEF IInv
  <2>2. CancelTold(c)' =>
          /\ CancelTold(c) /\ Target(c)' = Target(c)
          /\ Target(c) \in Threads
          /\ control[Target(c)].cancelled /\ ~control[Target(c)].started
    BY <2>1 DEF ThreadOK, CancelTold, Target
  <2>3. CancelTold(c)' =>
          control'[Target(c)].cancelled /\ ~control'[Target(c)].started
    BY <2>2 DEF StepOf, Alike
  <2> QED BY <1>1, <2>1, <2>2, <2>3 DEF ThreadOK, StepOf
<1>3. AccessWithdrawn'
  <2> SUFFICES ASSUME NEW d \in Calls,
                      control'[d].bound, control'[d].cancelled,
                      SessionMatches(d)',
                      \A x \in Inquiries :
                        ~(pc'[x] \in {"await", "withdraw"} /\ Target(x)' = d)
               PROVE  access'[d] = "withdrawn"
    BY DEF AccessWithdrawn
  <2>1. \A x \in Inquiries : pc'[x] = pc[x] /\ Target(x)' = Target(x)
    BY <1>1 DEF StepOf, Target, Threads
  <2>2. SessionMatches(d)
    BY DEF StepOf, SessionMatches
  <2>3. control[d].bound /\ control[d].cancelled => access[d] = "withdrawn"
    BY <2>1, <2>2 DEF IInv, AccessWithdrawn
  <2>4. CASE d = c
    BY <2>3, <2>4
  <2>5. CASE d # c
    BY <2>3, <2>5 DEF StepOf, Alike, Threads
  <2> QED BY <2>4, <2>5
<1>4. TableKeeps
  BY DEF TableKeeps
<1> QED BY <1>1, <1>2, <1>3, <1>4, StepKeeps

\* The parts of TypeOK that most steps leave alone.
ControlType == [invalidated : BOOLEAN, cancelled : BOOLEAN, started : BOOLEAN,
                waiting : BOOLEAN, outcome : Outcomes,
                finished : {"no", "yes", "old"}, bound : BOOLEAN]
Places == CallPlaces \cup InquiryPlaces

LEMMA TypeKeeps ==
  ASSUME TypeOK, UNCHANGED <<vault, session, scope, records>>,
         control' \in [Threads -> ControlType], pc' \in [Threads -> Places],
         access' \in [Calls -> {"none", "open", "withdrawn"}],
         effects' \subseteq Calls
  PROVE  TypeOK'
BY DEF TypeOK, ControlType, Places, CallPlaces, InquiryPlaces

\* What the invariant says of a call that runs.
LEMMA RunningCall ==
  ASSUME IInv, NEW c \in Calls, Running(c)
  PROVE  /\ c \in Threads /\ CallOK(c) /\ ThreadOK(c)
         /\ scope[c] \in Scopes /\ control[c].finished = "no"
         /\ DOMAIN told = Threads /\ DOMAIN control = Threads
         /\ DOMAIN pc = Threads /\ DOMAIN access = Calls
BY DEF IInv, Threads, CallOK, ThreadOK, Issued, DomainsOK, TypeOK

\* Every start of an effect.
LEMMA StartKeeps ==
  ASSUME IInv, NEW c \in Calls, NEW at \in {"begin", "boundary"},
         NEW next \in {"enter", "effect"}, Start(c, at, next),
         at = "begin" <=> next = "enter"
  PROVE  IInv'
<1>1. Running(c)
  BY DEF Start, Running
<1>2. CallOK(c) /\ ThreadOK(c) /\ c \in Threads /\ TypeOK /\ DOMAIN told = Threads
  BY <1>1, RunningCall DEF IInv
<1>3. TypeOK'
  <2>1. control' \in [Threads -> ControlType]
    <3>1. control \in [Threads -> ControlType] /\ control[c] \in ControlType
      BY <1>2 DEF TypeOK, ControlType
    <3>2. [control[c] EXCEPT !.started = TRUE] \in ControlType
      BY <3>1 DEF ControlType
    <3>3. control' = [control EXCEPT ![c] = [control[c] EXCEPT !.started = TRUE]]
          \/ control' = control
      BY <1>2 DEF Start
    <3> QED BY <1>2, <3>1, <3>2, <3>3
  <2>2. pc' \in [Threads -> Places]
    BY <1>2 DEF TypeOK, Start, Goto, Reply, Places, CallPlaces, InquiryPlaces
  <2> QED BY <1>2, <2>1, <2>2, TypeKeeps DEF Start, TypeOK
<1>4. StepOf(c)
  BY <1>2 DEF StepOf, Alike, TypeOK, Start, Goto, Reply, MayStart, Outside, Threads
<1>5. CallOK(c)'
  BY <1>2
  DEF CallOK, TypeOK, Start, Goto, Reply, MayStart, Running, Current, Legacy,
      CallPlaces, Outcomes
<1>6. /\ told'[c] = told[c] \/ told'[c].what # "receipt"
      /\ control'[c].invalidated = control[c].invalidated
      /\ control'[c].cancelled = control[c].cancelled
      /\ control'[c].outcome = control[c].outcome
      /\ control'[c].bound = control[c].bound
      /\ \A s \in Threads \ {c} : control'[s] = control[s]
      /\ access' = access /\ records' = records
  BY <1>2 DEF TypeOK, Start, Goto, Reply
<1> QED BY <1>1, <1>2, <1>3, <1>4, <1>5, <1>6, RunningStep DEF ThreadOK

\* The steps that touch no more of the state of an operation than its wait.
Works(c) == \/ EnterLocked(c) \/ EnterChanges(c) \/ EnterUse(c)
            \/ WaitEnds(c) \/ Effect(c) \/ GivesUp(c)

LEMMA WorksKeeps ==
  ASSUME IInv, NEW c \in Calls, Works(c)
  PROVE  IInv'
<1>1. Running(c)
  BY DEF Works, EnterLocked, EnterChanges, EnterUse, WaitEnds, Effect, GivesUp,
         Running
<1>2. CallOK(c) /\ ThreadOK(c) /\ c \in Threads /\ TypeOK /\ DOMAIN told = Threads
  BY <1>1, RunningCall DEF IInv
<1>3. \E b \in BOOLEAN :
         control' = [control EXCEPT ![c] = [control[c] EXCEPT !.waiting = b]]
  <2>1. control = [control EXCEPT ![c] = [control[c] EXCEPT !.waiting = control[c].waiting]]
        /\ control[c].waiting \in BOOLEAN
    BY <1>2 DEF TypeOK
  <2> QED BY <2>1
      DEF Works, EnterLocked, EnterChanges, EnterUse, WaitEnds, Effect, GivesUp
<1>4. PICK b \in BOOLEAN :
         control' = [control EXCEPT ![c] = [control[c] EXCEPT !.waiting = b]]
  BY <1>3
<1>5. control \in [Threads -> ControlType] /\ control[c] \in ControlType
  BY <1>2 DEF TypeOK, ControlType
<1>6. [control[c] EXCEPT !.waiting = b] \in ControlType
  BY <1>5 DEF ControlType
<1>7. /\ control' \in [Threads -> ControlType]
      /\ \A s \in Threads \ {c} : control'[s] = control[s]
      /\ control'[c] = [control[c] EXCEPT !.waiting = b]
  BY <1>2, <1>4, <1>5, <1>6
<1>8. /\ control'[c].invalidated = control[c].invalidated
      /\ control'[c].cancelled = control[c].cancelled
      /\ control'[c].started = control[c].started
      /\ control'[c].outcome = control[c].outcome
      /\ control'[c].finished = control[c].finished
      /\ control'[c].bound = control[c].bound
  BY <1>5, <1>7 DEF ControlType
<1>9. \E place \in {"waiting", "boundary", "finish"} :
         pc' = [pc EXCEPT ![c] = place]
  BY DEF Works, EnterLocked, EnterChanges, EnterUse, WaitEnds, Effect, GivesUp,
         Goto, Reply
<1>10. PICK place \in {"waiting", "boundary", "finish"} :
         pc' = [pc EXCEPT ![c] = place]
  BY <1>9
<1>11. /\ UNCHANGED <<vault, session, records, op, scope, access>>
       /\ effects' \in {effects, effects \cup {c}}
       /\ \/ told' = told /\ place # "finish"
          \/ \E what \in {"locked", "ok", "failed"} :
                told' = [told EXCEPT ![c] = [what |-> what]]
  BY <1>2, <1>10
  DEF Works, EnterLocked, EnterChanges, EnterUse, WaitEnds, Effect, GivesUp,
      Goto, Reply, TypeOK
<1>12. /\ pc' \in [Threads -> Places] /\ pc'[c] = place
       /\ \A s \in Threads \ {c} : pc'[s] = pc[s]
  BY <1>2, <1>10 DEF TypeOK, Places, CallPlaces, InquiryPlaces
<1>13. TypeOK'
  BY <1>2, <1>7, <1>11, <1>12, TypeKeeps DEF TypeOK
<1>14. StepOf(c)
  BY <1>2, <1>7, <1>8, <1>11, <1>12 DEF StepOf, Alike, Outside
<1>15. pc[c] \in {"enter", "waiting", "boundary", "effect"}
  BY DEF Works, EnterLocked, EnterChanges, EnterUse, WaitEnds, Effect, GivesUp
<1>16. place = "finish" => told'[c].what \in {"locked", "ok", "failed"}
  BY <1>2, <1>11
<1>17. CallOK(c)'
  <2>1. c \notin effects /\ ~control[c].bound
    BY <1>2, <1>15 DEF CallOK
  <2>2. c \in effects' => control[c].started /\ place = "finish"
    <3>1. CASE EnterChanges(c) \/ Effect(c)
      BY <1>2, <1>12, <3>1 DEF EnterChanges, Effect, Reply, Goto, CallOK, TypeOK
    <3>2. CASE EnterLocked(c) \/ EnterUse(c) \/ WaitEnds(c) \/ GivesUp(c)
      BY <2>1, <3>2 DEF EnterLocked, EnterUse, WaitEnds, GivesUp
    <3> QED BY <3>1, <3>2 DEF Works
  <2>3. Running(c)' => pc'[c] \in {"waiting", "boundary", "finish"}
    BY <1>12
  <2>4. Current(c)' = Current(c) /\ Legacy(c)' = Legacy(c)
    BY <1>11 DEF Current, Legacy
  <2>5. place = "finish" => told'[c].what \in Outcomes \ {"cancelled"}
    BY <1>16 DEF Outcomes
  <2> QED BY <1>1, <1>2, <1>8, <1>11, <1>12, <1>15, <2>1, <2>2, <2>3, <2>4, <2>5
      DEF CallOK, CallPlaces
<1>18. told'[c] = told[c] \/ told'[c].what # "receipt"
  BY <1>2, <1>11
<1>19. control[c].invalidated => control[c].outcome = "none"
  BY <1>2 DEF ThreadOK
<1> QED BY <1>1, <1>7, <1>8, <1>11, <1>13, <1>14, <1>17, <1>18, <1>19, RunningStep

\* An access request is bound to its call.
LEMMA EnterBindsKeeps ==
  ASSUME IInv, NEW c \in Calls, EnterBinds(c)
  PROVE  IInv'
<1>1. Running(c)
  BY DEF EnterBinds, Running
<1>2. CallOK(c) /\ ThreadOK(c) /\ c \in Threads /\ TypeOK /\ DOMAIN told = Threads
  BY <1>1, RunningCall DEF IInv
<1>3. control \in [Threads -> ControlType] /\ control[c] \in ControlType
  BY <1>2 DEF TypeOK, ControlType
<1>4. [control[c] EXCEPT !.bound = TRUE] \in ControlType
  BY <1>3 DEF ControlType
<1>5. control' = [control EXCEPT ![c] = [control[c] EXCEPT !.bound = TRUE]]
  BY DEF EnterBinds
<1>6. /\ control' \in [Threads -> ControlType]
      /\ \A s \in Threads \ {c} : control'[s] = control[s]
      /\ control'[c].invalidated = control[c].invalidated
      /\ control'[c].cancelled = control[c].cancelled
      /\ control'[c].started = control[c].started
      /\ control'[c].outcome = control[c].outcome
      /\ control'[c].finished = control[c].finished
  BY <1>2, <1>3, <1>4, <1>5 DEF ControlType
<1>7. /\ pc' \in [Threads -> Places] /\ pc'[c] = "finish"
      /\ \A s \in Threads \ {c} : pc'[s] = pc[s]
  BY <1>2 DEF EnterBinds, Reply, Goto, TypeOK, Places, CallPlaces, InquiryPlaces
<1>8. /\ UNCHANGED <<vault, session, records, op, scope>>
      /\ access' \in [Calls -> {"none", "open", "withdrawn"}]
      /\ \A d \in Calls \ {c} : access'[d] = access[d]
      /\ control[c].cancelled => access'[c] = "withdrawn"
  BY <1>2 DEF EnterBinds, TypeOK
<1>9. /\ \E what \in {"cancelled", "ok"} :
            /\ told' = [told EXCEPT ![c] = [what |-> what]]
            /\ effects' = IF what = "ok" THEN effects \cup {c} ELSE effects
  BY DEF EnterBinds, Reply
<1>10. TypeOK'
  BY <1>2, <1>6, <1>7, <1>8, <1>9, TypeKeeps DEF TypeOK
<1>11. StepOf(c)
  BY <1>2, <1>6, <1>7, <1>8, <1>9 DEF StepOf, Alike, Outside
<1>12. pc[c] = "enter" /\ op[c].kind = "access"
  BY DEF EnterBinds
<1>13. /\ told'[c].what \in {"cancelled", "ok"}
       /\ effects' = IF told'[c].what = "ok" THEN effects \cup {c} ELSE effects
  BY <1>2, <1>9
<1>14. CallOK(c)'
  <2>1. c \notin effects /\ control[c].started
    BY <1>2, <1>12 DEF CallOK
  <2>2. Current(c)' = Current(c) /\ Legacy(c)' = Legacy(c)
    BY <1>8 DEF Current, Legacy
  <2>3. told'[c].what \in Outcomes /\ (told'[c].what = "cancelled" => c \notin effects')
    BY <1>13, <2>1 DEF Outcomes
  <2> QED BY <1>1, <1>2, <1>6, <1>7, <1>8, <1>12, <2>1, <2>2, <2>3
      DEF CallOK, CallPlaces
<1> QED BY <1>1, <1>2, <1>6, <1>8, <1>10, <1>11, <1>13, <1>14, RunningStep
    DEF ThreadOK

\* The end of a call.
LEMMA FinishKeeps ==
  ASSUME IInv, NEW c \in Calls, Finish(c)
  PROVE  IInv'
<1>1. Running(c)
  BY DEF Finish, Running
<1>2. CallOK(c) /\ ThreadOK(c) /\ c \in Threads /\ TypeOK /\ DOMAIN told = Threads
  BY <1>1, RunningCall DEF IInv
<1> DEFINE what == IF control[c].cancelled /\ ~control[c].invalidated
                      /\ ~control[c].started
                     THEN "cancelled" ELSE told[c].what
           done == [control[c] EXCEPT !.finished = "yes", !.waiting = FALSE,
                      !.outcome = IF control[c].invalidated THEN @ ELSE what]
<1>3. control \in [Threads -> ControlType] /\ control[c] \in ControlType
  BY <1>2 DEF TypeOK, ControlType
<1>4. what \in Outcomes /\ (what = "cancelled" => c \notin effects)
  BY <1>2 DEF CallOK, Finish, Outcomes
<1>5. /\ done \in ControlType
      /\ done.finished = "yes"
      /\ done.invalidated = control[c].invalidated
      /\ done.cancelled = control[c].cancelled
      /\ done.started = control[c].started
      /\ done.bound = control[c].bound
      /\ done.invalidated => done.outcome = control[c].outcome
  BY <1>3, <1>4 DEF ControlType
<1>6. /\ control' = [control EXCEPT ![c] = done]
      /\ told' = [told EXCEPT ![c] = [what |-> what]]
  BY DEF Finish
<1>7. /\ control' \in [Threads -> ControlType] /\ control'[c] = done
      /\ \A s \in Threads \ {c} : control'[s] = control[s]
      /\ told'[c].what = what
  BY <1>2, <1>3, <1>5, <1>6
<1>8. /\ pc' \in [Threads -> Places] /\ pc'[c] \in {"remove", "done"}
      /\ pc'[c] = "remove" => Legacy(c)
      /\ \A s \in Threads \ {c} : pc'[s] = pc[s]
  BY <1>2 DEF Finish, Goto, TypeOK, Places, CallPlaces, InquiryPlaces
<1>9. UNCHANGED <<vault, session, records, op, scope, access, effects>>
  BY DEF Finish
<1>10. TypeOK'
  BY <1>2, <1>7, <1>8, <1>9, TypeKeeps DEF TypeOK
<1>11. StepOf(c)
  <2>1. DOMAIN told' = Threads /\ \A s \in Threads \ {c} : told'[s] = told[s]
    BY <1>2, <1>6
  <2>2. control[c].finished = "no"
    BY <1>1, <1>2 DEF CallOK
  <2> HIDE DEF what, done
  <2> QED BY <1>5, <1>7, <1>8, <1>9, <2>1, <2>2 DEF StepOf, Alike, Outside
<1>12. what # "receipt"
  BY <1>4 DEF Outcomes
<1>13. CallOK(c)'
  <2>1. ~Running(c)' /\ pc[c] = "finish"
    BY <1>8 DEF Running, Finish
  <2> QED BY <1>2, <1>4, <1>5, <1>7, <1>8, <1>9, <2>1
      DEF CallOK, CallPlaces, Legacy
<1> QED BY <1>1, <1>2, <1>5, <1>7, <1>9, <1>10, <1>11, <1>12, <1>13, RunningStep
    DEF ThreadOK

(***************************************************************************)
(* The steps of other threads.                                             *)
(***************************************************************************)

\* Who withdraws an access request still will.
LEMMA AccessKeeps ==
  ASSUME IInv, UNCHANGED <<vault, scope, access>>,
         \A c \in Calls : /\ control'[c].bound = control[c].bound
                          /\ control'[c].cancelled = control[c].cancelled,
         \A x \in Inquiries :
           pc[x] \in {"await", "withdraw"} =>
             pc'[x] \in {"await", "withdraw"} /\ Target(x)' = Target(x)
  PROVE  AccessWithdrawn'
BY DEF IInv, AccessWithdrawn, SessionMatches

\* TypeOK of a step that changes the table.
LEMMA TypeKeepsTable ==
  ASSUME TypeOK, UNCHANGED <<vault, session, scope, access, effects>>,
         DOMAIN records' \subseteq Ids \cup Calls,
         records' \in [DOMAIN records' -> Records],
         control' \in [Threads -> ControlType],
         pc' \in [Threads -> Places]
  PROVE  TypeOK'
BY DEF TypeOK, ControlType, Places, CallPlaces, InquiryPlaces

\* The records that are not old.
LEMMA RetainedRecords ==
  ASSUME TypeOK
  PROVE  /\ DOMAIN Retained =
              {id \in DOMAIN records :
                 control[records[id].control].finished # "old"}
         /\ \A id \in DOMAIN Retained : Retained[id] = records[id]
         /\ Retained \in [DOMAIN Retained -> Records]
         /\ DOMAIN Retained \subseteq Ids \cup Calls
BY DEF Retained, Restrict, TypeOK

\* A thread that is not admitted is answered at once.
LEMMA AnsweredKeeps ==
  ASSUME IInv, NEW t \in Threads, pc[t] \in {"admit", "look"}, NEW m,
         pc' = [pc EXCEPT ![t] = "done"], told' = [told EXCEPT ![t] = m],
         UNCHANGED <<vault, session, control, op, scope, access, effects>>,
         m.what = "receipt" =>
           t \in Calls /\ \E k \in Threads : m = Receipt(k),
         TableKeeps, records' \in [DOMAIN records' -> Records]
  PROVE  IInv'
<1>1. /\ TypeOK /\ ThreadOK(t) /\ DOMAIN told = Threads
      /\ t \in Calls => CallOK(t)
      /\ t \in Inquiries => InquiryOK(t)
  BY DEF IInv, DomainsOK
<1>2. /\ pc'[t] = "done" /\ told'[t] = m
      /\ \A s \in Threads \ {t} : pc'[s] = pc[s] /\ told'[s] = told[s]
      /\ DOMAIN told' = Threads
  BY <1>1 DEF TypeOK
<1>3. ~Issued(t) /\ ~Issued(t)' /\ control[t].finished = "no"
      /\ ~control[t].invalidated
  <2>1. ~Issued(t) /\ control[t].finished = "no" /\ ~control[t].invalidated
    BY <1>1 DEF ThreadOK, Outside
  <2> QED BY <1>2, <2>1 DEF Issued, Running
<1>4. TypeOK'
  <2>1. pc' \in [Threads -> Places]
    BY <1>1 DEF TypeOK, Places, CallPlaces, InquiryPlaces
  <2>2. control' \in [Threads -> ControlType]
    BY <1>1 DEF TypeOK, ControlType
  <2>3. DOMAIN records' \subseteq Ids \cup Calls
    BY <1>1 DEF TypeOK, TableKeeps
  <2> QED BY <1>1, <2>1, <2>2, <2>3, TypeKeepsTable
<1>5. StepOf(t)
  BY <1>2 DEF StepOf, Alike, Outside
<1>6. ThreadOK(t)'
  <2>1. CancelTold(t)' => /\ Target(t)' \in Threads
                          /\ control[Target(t)'].cancelled
                          /\ ~control[Target(t)'].started
    BY <1>2 DEF CancelTold, Target, Receipt
  <2>2. Target(t)' \in Threads => control'[Target(t)'] = control[Target(t)']
    OBVIOUS
  <2> QED BY <1>1, <1>2, <1>3, <2>1, <2>2 DEF ThreadOK, Outside
<1>7. ASSUME t \in Calls PROVE CallOK(t)'
  <2>1. CallOK(t) /\ t \notin effects /\ ~control[t].bound
    BY <1>1, <1>3, <1>7 DEF CallOK, Issued
  <2> QED BY <1>2, <2>1 DEF CallOK, CallPlaces, Running
<1>8. ASSUME t \in Inquiries PROVE InquiryOK(t)'
  <2>1. t \notin Calls
    BY <1>8, NamesAssumption
  <2> QED BY <1>1, <1>2, <1>3, <1>8, <2>1 DEF InquiryOK, InquiryPlaces
<1>9. AccessWithdrawn'
  <2>1. \A x \in Inquiries :
          pc[x] \in {"await", "withdraw"} =>
            pc'[x] = pc[x] /\ Target(x)' = Target(x)
    BY <1>2 DEF Target, Threads
  <2> QED BY <2>1, AccessKeeps
<1>10. Removed(t) => Removed(t)'
  BY DEF Removed
<1> QED BY <1>3, <1>4, <1>5, <1>6, <1>7, <1>8, <1>9, <1>10, StepKeeps

\* A thread finds the session over.
LEMMA LateKeeps ==
  ASSUME IInv, NEW t \in Threads, NEW at \in {"admit", "look"}, Late(t, at)
  PROVE  IInv'
<1>1. TableKeeps /\ records' \in [DOMAIN records' -> Records]
  BY DEF Late, TableKeeps, IInv, TypeOK
<1> QED BY <1>1, AnsweredKeeps DEF Late, Answer, Goto

\* The table without its old records.
LEMMA RetainedKeeps ==
  ASSUME IInv, records' = Retained
  PROVE  TableKeeps /\ records' \in [DOMAIN records' -> Records]
BY RetainedRecords DEF TableKeeps, IInv

\* There is no room for a call, or nothing that an inquiry asks about.
LEMMA RefusedKeeps ==
  ASSUME IInv, NEW t \in Threads, AdmitBusy(t) \/ LookNothing(t)
  PROVE  IInv'
<1>1. TableKeeps /\ records' \in [DOMAIN records' -> Records]
  BY RetainedKeeps DEF AdmitBusy, LookNothing
<1>2. \E what \in {"busy", "operation_not_found"} :
         told' = [told EXCEPT ![t] = [what |-> what]]
  BY DEF AdmitBusy, LookNothing, Answer
<1>3. /\ pc[t] \in {"admit", "look"} /\ pc' = [pc EXCEPT ![t] = "done"]
      /\ UNCHANGED <<vault, session, control, op, scope, access, effects>>
  BY DEF AdmitBusy, LookNothing, Answer, Goto
<1> QED BY <1>1, <1>2, <1>3, AnsweredKeeps

\* A retry.
LEMMA AdmitKnownKeeps ==
  ASSUME IInv, NEW c \in Calls, AdmitKnown(c)
  PROVE  IInv'
<1>1. TypeOK /\ c \in Threads /\ CallOK(c)
  BY DEF IInv, Threads
<1>2. PICK id \in Known(c) :
         \/ records' = Retained
         \/ /\ Retained[id].fingerprint = "unknown"
            /\ records' = [Retained EXCEPT ![id].fingerprint = op[c].kind,
                                           ![id].key = op[c].key]
  BY DEF AdmitKnown
<1>3. \E k \in Threads, what \in {"operation_conflict", "access_once_unavailable",
                                   "idempotency_conflict"} :
        \/ told' = [told EXCEPT ![c] = [what |-> what]]
        \/ told' = [told EXCEPT ![c] = Receipt(k)]
  <2>1. \A i \in Known(c) : Retained[i].control \in Threads
    BY <1>1, RetainedRecords DEF Known, OfScope, Records
  <2> QED BY <1>1, <2>1 DEF AdmitKnown, Answer
<1>4. /\ pc[c] \in {"admit", "look"} /\ pc' = [pc EXCEPT ![c] = "done"]
      /\ UNCHANGED <<vault, session, control, op, scope, access, effects>>
  BY DEF AdmitKnown, Answer, Goto
<1>5. TableKeeps /\ records' \in [DOMAIN records' -> Records]
  <2>1. CASE records' = Retained
    BY <2>1, RetainedKeeps
  <2>2. CASE /\ Retained[id].fingerprint = "unknown"
             /\ records' = [Retained EXCEPT ![id].fingerprint = op[c].kind,
                                            ![id].key = op[c].key]
    <3>1. op[c].kind \in Kinds /\ op[c].key \in Keys \cup {NoKey}
      BY <1>1, <1>4 DEF CallOK
    <3>2. id \in DOMAIN Retained /\ Retained[id] \in Records
      BY <1>1, RetainedRecords DEF Known, OfScope
    <3>3. [Retained[id] EXCEPT !.fingerprint = op[c].kind, !.key = op[c].key]
            \in Records
      BY <3>1, <3>2 DEF Records
    <3>4. records' = [Retained EXCEPT ![id] =
             [Retained[id] EXCEPT !.fingerprint = op[c].kind, !.key = op[c].key]]
      BY <2>2
    <3>5. /\ DOMAIN records' = DOMAIN Retained
          /\ \A i \in DOMAIN records' \ {id} : records'[i] = Retained[i]
          /\ records'[id].scope = Retained[id].scope
          /\ records'[id].control = Retained[id].control
          /\ records'[id] \in Records
      BY <3>2, <3>3, <3>4 DEF Records
    <3>6. records' \in [DOMAIN records' -> Records]
      BY <1>1, <3>3, <3>4, <3>5, RetainedRecords
    <3> QED BY <1>1, <2>2, <3>2, <3>5, <3>6, RetainedRecords DEF TableKeeps
  <2> QED BY <1>2, <2>1, <2>2
<1> QED BY <1>1, <1>3, <1>4, <1>5, AnsweredKeeps

\* A call without an ID of its own drops its record.
LEMMA RemoveLegacyKeeps ==
  ASSUME IInv, NEW c \in Calls, RemoveLegacy(c)
  PROVE  IInv'
<1>1. /\ TypeOK /\ ThreadOK(c) /\ CallOK(c) /\ c \in Threads
      /\ c \notin Inquiries /\ pc[c] = "remove" /\ op[c].id = c
  BY NamesAssumption DEF IInv, Threads, RemoveLegacy, CallOK, Legacy
<1>2. /\ pc'[c] = "done" /\ pc' \in [Threads -> Places]
      /\ \A s \in Threads \ {c} : pc'[s] = pc[s]
      /\ UNCHANGED <<vault, session, control, op, scope, told, access, effects>>
  BY <1>1 DEF RemoveLegacy, Goto, TypeOK, Places, CallPlaces, InquiryPlaces
<1>3. /\ DOMAIN records' = DOMAIN records \ {c}
      /\ \A id \in DOMAIN records' : records'[id] = records[id]
      /\ records' \in [DOMAIN records' -> Records]
  BY <1>1 DEF RemoveLegacy, Restrict, TypeOK
<1>4. TypeOK'
  <2>1. control' \in [Threads -> ControlType]
    BY <1>1, <1>2 DEF TypeOK, ControlType
  <2>2. DOMAIN records' \subseteq Ids \cup Calls
    BY <1>1, <1>3 DEF TypeOK
  <2> QED BY <1>1, <1>2, <1>3, <2>1, <2>2, TypeKeepsTable
<1>5. StepOf(c)
  BY <1>2 DEF StepOf, Alike, Outside, IInv, DomainsOK
<1>6. TableKeeps
  <2>1. ASSUME NEW t \in Threads, c \in DOMAIN records, records[c].control = t
        PROVE  Removed(t)'
    <3>1. op[t].id = c /\ pc[t] # "idle"
      BY <2>1 DEF IInv, RecordsOK, Outside
    <3>2. t \in Calls /\ op[t].id \in Ids \cup {t}
      BY <3>1, NamesAssumption DEF IInv, InquiryOK, CallOK, Threads
    <3>3. t = c
      BY <3>1, <3>2, NamesAssumption
    <3> QED BY <1>1, <1>2, <3>3 DEF Removed, Legacy
  <2> QED BY <1>3, <2>1 DEF TableKeeps
<1>7. ThreadOK(c)'
  BY <1>1, <1>2
  DEF ThreadOK, CancelTold, Target, Outside, Issued, Running
<1>8. CallOK(c)'
  BY <1>1, <1>2 DEF CallOK, CallPlaces, Running, Legacy
<1>9. AccessWithdrawn'
  <2>1. \A x \in Inquiries : pc'[x] = pc[x] /\ Target(x)' = Target(x)
    BY <1>1, <1>2 DEF Target, Threads
  <2> QED BY <1>2, <2>1, AccessKeeps
<1>10. (Issued(c)' => Issued(c)) /\ (Removed(c) => Removed(c)')
  BY <1>1, <1>2 DEF Issued, Running, Removed
<1> QED BY <1>1, <1>4, <1>5, <1>6, <1>7, <1>8, <1>9, <1>10, StepKeeps

\* What the invariant says of an inquiry that is about a thread.
LEMMA BusyInquiry ==
  ASSUME IInv, NEW x \in Inquiries, pc[x] \in {"mark", "await", "withdraw", "receipt"}
  PROVE  /\ x \in Threads /\ x \notin Calls
         /\ TypeOK /\ ThreadOK(x) /\ InquiryOK(x)
         /\ DOMAIN told = Threads
         /\ control[x].finished = "no"
         /\ Target(x) \in Threads \ {x}
BY NamesAssumption DEF IInv, Threads, InquiryOK, DomainsOK

\* The rest of a step of such an inquiry that answers nothing.
LEMMA InquiryStep ==
  ASSUME IInv, NEW x \in Inquiries,
         pc[x] \in {"mark", "await", "withdraw", "receipt"},
         NEW place \in {"mark", "await", "withdraw", "receipt", "done"},
         pc' = [pc EXCEPT ![x] = place],
         UNCHANGED <<vault, session, records, op, scope, effects>>,
         DOMAIN told' = Threads,
         \A s \in Threads \ {x} : told'[s] = told[s] /\ Alike(s),
         \A s \in Threads \ {x} :
            control'[s].cancelled => control[s].cancelled \/ place = "await",
         control'[x] = control[x], control' \in [Threads -> ControlType],
         access' \in [Calls -> {"none", "open", "withdrawn"}],
         \/ told' = told
         \/ place = "done" /\ told'[x] = Receipt(Target(x))
         \/ place = "done" /\ told'[x].what # "receipt",
         AccessWithdrawn'
  PROVE  IInv'
<1>1. /\ x \in Threads /\ x \notin Calls /\ TypeOK /\ ThreadOK(x) /\ InquiryOK(x)
      /\ control[x].finished = "no" /\ Target(x) \in Threads \ {x}
  BY BusyInquiry
<1>2. /\ pc'[x] = place /\ pc' \in [Threads -> Places]
      /\ \A s \in Threads \ {x} : pc'[s] = pc[s]
  BY <1>1 DEF TypeOK, Places, CallPlaces, InquiryPlaces
<1>3. TypeOK'
  BY <1>1, <1>2, TypeKeeps DEF TypeOK
<1>4. StepOf(x)
  BY <1>1, <1>2 DEF StepOf, Outside, Alike
<1>5. TableKeeps
  BY DEF TableKeeps
<1>6. ~Issued(x) /\ ~Issued(x)' /\ (Removed(x) => Removed(x)')
  BY <1>1, <1>2 DEF Issued, Removed
<1>7. ThreadOK(x)'
  <2>1. CancelTold(x)' => /\ Target(x)' \in Threads
                          /\ control'[Target(x)'].cancelled
                          /\ ~control'[Target(x)'].started
    <3>1. CASE told' = told
      <4>1. CancelTold(x)' => CancelTold(x) /\ Target(x)' = Target(x)
        BY <3>1 DEF CancelTold, Target
      <4> QED BY <1>1, <1>4, <4>1 DEF ThreadOK, StepOf, Alike
    <3>2. CASE told'[x] = Receipt(Target(x))
      <4>1. CancelTold(x)' => /\ Target(x)' = Target(x)
                              /\ control[Target(x)].cancelled
                              /\ ~control[Target(x)].started
        BY <3>2 DEF CancelTold, Target, Receipt
      <4> QED BY <1>1, <4>1 DEF Alike
    <3>3. CASE told'[x].what # "receipt"
      BY <3>3 DEF CancelTold
    <3> QED BY <3>1, <3>2, <3>3
  <2> QED BY <1>1, <1>2, <1>6, <2>1 DEF ThreadOK, Outside
<1>8. InquiryOK(x)'
  <2>1. pc[x] # "idle" /\ pc'[x] \in InquiryPlaces \ {"idle"}
    BY <1>2 DEF InquiryPlaces
  <2>2. ~Outside(Target(x)) /\ scope[Target(x)] = scope[x]
    BY <1>1 DEF InquiryOK
  <2>3. ~Outside(Target(x)) => ~(pc'[Target(x)] \in {"idle", "admit", "look"})
    BY <1>1, <1>2 DEF Outside
  <2>4. place # "done" => Target(x)' = Target(x)
    BY DEF Target
  <2>5. told'[x].what = "receipt" => Target(x)' # x
    BY <1>1 DEF Target, Receipt, InquiryOK
  <2> QED BY <1>1, <1>2, <2>1, <2>2, <2>3, <2>4, <2>5 DEF InquiryOK, Outside
<1> QED BY <1>1, <1>3, <1>4, <1>5, <1>6, <1>7, <1>8, StepKeeps

\* A cancel request marks its operation, and will withdraw what is bound to it.
LEMMA MarkKeeps ==
  ASSUME IInv, NEW x \in Inquiries, Mark(x)
  PROVE  IInv'
<1>1. pc[x] = "mark" /\ pc' = [pc EXCEPT ![x] = "await"]
      /\ UNCHANGED <<vault, session, records, op, scope, told, access, effects>>
  BY DEF Mark, Goto
<1>2. /\ x \in Threads /\ x \notin Calls /\ TypeOK /\ DOMAIN told = Threads
      /\ Target(x) \in Threads \ {x}
  BY <1>1, BusyInquiry
<1> DEFINE k == Target(x)
           marked == [control[k] EXCEPT !.cancelled =
                        @ \/ control[k].outcome = "none" \/ control[k].bound]
<1>3. control \in [Threads -> ControlType] /\ control[k] \in ControlType
  BY <1>2 DEF TypeOK, ControlType
<1>4. (control[k].cancelled \/ control[k].outcome = "none" \/ control[k].bound)
        \in BOOLEAN
  BY <1>3 DEF ControlType
<1>5. marked \in ControlType
  BY <1>3, <1>4 DEF ControlType
<1>6. control' = [control EXCEPT ![k] = marked]
  BY DEF Mark
<1>7. /\ control' \in [Threads -> ControlType] /\ control'[k] = marked
      /\ \A s \in Threads \ {k} : control'[s] = control[s]
  BY <1>2, <1>3, <1>5, <1>6
<1>8. Alike(k)
  BY <1>3, <1>7 DEF Alike, ControlType
<1>9. \A s \in Threads : Alike(s)
  BY <1>7, <1>8 DEF Alike
<1>10. control'[x] = control[x]
  BY <1>2, <1>7
<1>11. AccessWithdrawn'
  <2> SUFFICES ASSUME NEW c \in Calls,
                      control'[c].bound, control'[c].cancelled,
                      SessionMatches(c)',
                      \A y \in Inquiries :
                        ~(pc'[y] \in {"await", "withdraw"} /\ Target(y)' = c)
               PROVE  access'[c] = "withdrawn"
    BY DEF AccessWithdrawn
  <2>1. SessionMatches(c) /\ control[c].bound
    BY <1>1, <1>9 DEF SessionMatches, Alike, Threads
  <2>2. pc'[x] = "await" /\ Target(x)' = Target(x) /\ k # c
    BY <1>1, <1>2 DEF TypeOK, Target
  <2>3. control[c].cancelled
    BY <1>7, <2>2 DEF Threads
  <2>4. \A y \in Inquiries : ~(pc[y] \in {"await", "withdraw"} /\ Target(y) = c)
    BY <1>1, <1>2 DEF TypeOK, Target
  <2> QED BY <1>1, <2>1, <2>3, <2>4 DEF IInv, AccessWithdrawn
<1>12. access' \in [Calls -> {"none", "open", "withdrawn"}]
  BY <1>1, <1>2 DEF TypeOK
<1> HIDE DEF k, marked
<1> QED BY <1>1, <1>2, <1>7, <1>9, <1>10, <1>11, <1>12, InquiryStep

\* The wait of a cancel request is over.
LEMMA AwaitEndsKeeps ==
  ASSUME IInv, NEW x \in Inquiries, AwaitEnds(x)
  PROVE  IInv'
<1>1. /\ pc[x] = "await" /\ Target(x)' = Target(x)
      /\ UNCHANGED <<vault, session, records, control, op, scope, told, access,
                     effects>>
  BY DEF AwaitEnds, Target
<1>2. x \in Threads /\ TypeOK /\ DOMAIN told = Threads
  BY <1>1, BusyInquiry
<1>3. PICK place \in {"withdraw", "receipt"} :
        /\ pc' = [pc EXCEPT ![x] = place]
        /\ place = "receipt" => ~control[Target(x)].bound
  BY DEF AwaitEnds, Goto
<1>4. AccessWithdrawn'
  <2> SUFFICES ASSUME NEW c \in Calls,
                      control[c].bound, control[c].cancelled,
                      SessionMatches(c),
                      \A y \in Inquiries :
                        ~(pc'[y] \in {"await", "withdraw"} /\ Target(y) = c)
               PROVE  access[c] = "withdrawn"
    BY <1>1 DEF AccessWithdrawn, SessionMatches, Target
  <2>1. \A y \in Inquiries : ~(pc[y] \in {"await", "withdraw"} /\ Target(y) = c)
    BY <1>2, <1>3 DEF TypeOK
  <2> QED BY <2>1 DEF IInv, AccessWithdrawn
<1>5. /\ control' \in [Threads -> ControlType]
      /\ access' \in [Calls -> {"none", "open", "withdrawn"}]
  BY <1>1, <1>2 DEF TypeOK, ControlType
<1> QED BY <1>1, <1>2, <1>3, <1>4, <1>5, InquiryStep DEF Alike

\* An inquiry is answered.
LEMMA GiveReceiptKeeps ==
  ASSUME IInv, NEW x \in Inquiries, GiveReceipt(x)
  PROVE  IInv'
<1>1. /\ pc[x] = "receipt" /\ pc' = [pc EXCEPT ![x] = "done"]
      /\ told' = [told EXCEPT ![x] = Receipt(Target(x))]
      /\ UNCHANGED <<vault, session, records, control, op, scope, access, effects>>
  BY DEF GiveReceipt, Goto
<1>2. x \in Threads /\ TypeOK /\ DOMAIN told = Threads
  BY <1>1, BusyInquiry
<1>3. AccessWithdrawn'
  <2>1. \A y \in Inquiries :
          pc[y] \in {"await", "withdraw"} =>
            pc'[y] = pc[y] /\ Target(y)' = Target(y)
    BY <1>1, <1>2 DEF TypeOK, Target, Threads
  <2> QED BY <1>1, <2>1, AccessKeeps
<1>4. /\ control' \in [Threads -> ControlType]
      /\ access' \in [Calls -> {"none", "open", "withdrawn"}]
  BY <1>1, <1>2 DEF TypeOK, ControlType
<1>5. /\ DOMAIN told' = Threads /\ told'[x] = Receipt(Target(x))
      /\ \A s \in Threads \ {x} : told'[s] = told[s] /\ Alike(s)
  BY <1>1, <1>2 DEF Alike
<1> QED BY <1>1, <1>3, <1>4, <1>5, InquiryStep

\* A cancel request withdraws the access request of its operation.
LEMMA WithdrawAccessKeeps ==
  ASSUME IInv, NEW x \in Inquiries, WithdrawAccess(x)
  PROVE  IInv'
<1>1. pc[x] = "withdraw"
      /\ UNCHANGED <<vault, session, records, control, op, scope, effects>>
  BY DEF WithdrawAccess
<1>2. /\ x \in Threads /\ TypeOK /\ DOMAIN told = Threads /\ InquiryOK(x)
      /\ Target(x) \in Threads \ {x}
  BY <1>1, BusyInquiry
<1>3. /\ control' \in [Threads -> ControlType]
      /\ \A s \in Threads : control'[s] = control[s] /\ Alike(s)
  BY <1>1, <1>2 DEF TypeOK, ControlType, Alike
<1>4. CASE SessionMatches(x)
  <2>1. /\ access' = [access EXCEPT ![Target(x)] = "withdrawn"]
        /\ pc' = [pc EXCEPT ![x] = "receipt"] /\ told' = told
    BY <1>4 DEF WithdrawAccess, Goto
  <2>2. access' \in [Calls -> {"none", "open", "withdrawn"}]
    BY <1>2, <2>1 DEF TypeOK
  <2>3. AccessWithdrawn'
    <3> SUFFICES ASSUME NEW c \in Calls,
                        control[c].bound, control[c].cancelled,
                        SessionMatches(c),
                        \A y \in Inquiries :
                          ~(pc'[y] \in {"await", "withdraw"} /\ Target(y) = c)
                 PROVE  access'[c] = "withdrawn"
      BY <1>1, <2>1 DEF AccessWithdrawn, SessionMatches, Target
    <3>1. CASE Target(x) = c
      BY <1>2, <2>1, <3>1 DEF TypeOK
    <3>2. CASE Target(x) # c
      <4>1. \A y \in Inquiries : ~(pc[y] \in {"await", "withdraw"} /\ Target(y) = c)
        BY <1>2, <2>1, <3>2 DEF TypeOK
      <4>2. access'[c] = access[c]
        BY <1>2, <2>1, <3>2 DEF TypeOK
      <4> QED BY <4>1, <4>2 DEF IInv, AccessWithdrawn
    <3> QED BY <3>1, <3>2
  <2> QED BY <1>1, <1>2, <1>3, <2>1, <2>2, <2>3, InquiryStep
<1>5. CASE ~SessionMatches(x)
  <2>1. /\ access' = access /\ told' = [told EXCEPT ![x] = [what |-> "locked"]]
        /\ pc' = [pc EXCEPT ![x] = "done"]
    BY <1>5 DEF WithdrawAccess, Answer, Goto
  <2>2. /\ DOMAIN told' = Threads /\ told'[x].what # "receipt"
        /\ \A s \in Threads \ {x} : told'[s] = told[s]
    BY <1>2, <2>1
  <2>3. AccessWithdrawn'
    <3> SUFFICES ASSUME NEW c \in Calls,
                        control[c].bound, control[c].cancelled,
                        SessionMatches(c),
                        \A y \in Inquiries :
                          ~(pc'[y] \in {"await", "withdraw"} /\ Target(y)' = c)
                 PROVE  access[c] = "withdrawn"
      BY <1>1, <2>1 DEF AccessWithdrawn, SessionMatches
    <3>1. Target(x) # c
      BY <1>1, <1>2, <1>5 DEF InquiryOK, SessionMatches
    <3>2. \A y \in Inquiries : ~(pc[y] \in {"await", "withdraw"} /\ Target(y) = c)
      BY <1>2, <2>1, <2>2, <3>1 DEF TypeOK, Target, Threads
    <3> QED BY <3>2 DEF IInv, AccessWithdrawn
  <2>4. access' \in [Calls -> {"none", "open", "withdrawn"}]
    BY <1>2, <2>1 DEF TypeOK
  <2> QED BY <1>1, <1>2, <1>3, <2>1, <2>2, <2>3, <2>4, InquiryStep
<1> QED BY <1>4, <1>5

\* An inquiry finds the operation that it is about.
LEMMA LookKnownKeeps ==
  ASSUME IInv, NEW x \in Inquiries, LookKnown(x)
  PROVE  IInv'
<1>1. /\ x \in Threads /\ x \notin Calls /\ TypeOK /\ ThreadOK(x) /\ InquiryOK(x)
      /\ DOMAIN told = Threads /\ pc[x] = "look"
  BY NamesAssumption DEF IInv, Threads, DomainsOK, LookKnown
<1> DEFINE k == records[op[x].id].control
<1>2. /\ op[x].id \in DOMAIN records /\ k \in Threads /\ ~Outside(k)
      /\ scope[k] = scope[x] /\ k # x
      /\ told' = [told EXCEPT ![x] = [what |-> "about", of |-> k]]
  <2>1. /\ op[x].id \in DOMAIN Retained /\ Retained[op[x].id].scope = scope[x]
        /\ told' = [told EXCEPT ![x] =
                      [what |-> "about", of |-> Retained[op[x].id].control]]
    BY DEF LookKnown, OfScope
  <2>2. /\ op[x].id \in DOMAIN records
        /\ Retained[op[x].id] = records[op[x].id]
    BY <1>1, <2>1, RetainedRecords
  <2>3. k \in Threads
    BY <1>1, <2>2 DEF TypeOK, Records
  <2>4. ~Outside(k) /\ scope[k] = records[op[x].id].scope
    BY <2>2 DEF IInv, RecordsOK
  <2> QED BY <1>1, <2>1, <2>2, <2>3, <2>4 DEF Outside
<1>3. PICK place \in {"mark", "receipt"} : pc' = [pc EXCEPT ![x] = place]
  BY DEF LookKnown, Goto
<1>4. /\ pc'[x] = place /\ pc' \in [Threads -> Places]
      /\ \A s \in Threads \ {x} : pc'[s] = pc[s]
      /\ \A s \in Threads \ {x} : told'[s] = told[s]
      /\ told'[x] = [what |-> "about", of |-> k] /\ DOMAIN told' = Threads
  BY <1>1, <1>2, <1>3 DEF TypeOK, Places, CallPlaces, InquiryPlaces
<1>5. /\ records' = Retained
      /\ UNCHANGED <<vault, session, control, op, scope, access, effects>>
  BY DEF LookKnown
<1>6. TableKeeps /\ records' \in [DOMAIN records' -> Records]
  BY <1>5, RetainedKeeps
<1>7. TypeOK'
  <2>1. control' \in [Threads -> ControlType] /\ DOMAIN records' \subseteq Ids \cup Calls
    BY <1>1, <1>5, RetainedRecords DEF TypeOK, ControlType
  <2> QED BY <1>1, <1>4, <1>5, <1>6, <2>1, TypeKeepsTable
<1>8. StepOf(x)
  BY <1>4, <1>5 DEF StepOf, Alike, Outside
<1>9. ~Issued(x) /\ ~Issued(x)' /\ (Removed(x) => Removed(x)')
  BY <1>1, <1>5 DEF Issued, Removed, InquiryOK
<1>10. ThreadOK(x)'
  BY <1>1, <1>4, <1>5, <1>9 DEF ThreadOK, Outside, CancelTold
<1>11. InquiryOK(x)'
  <2>1. Target(x)' = k /\ ~(pc'[k] \in {"idle", "admit", "look"})
    BY <1>2, <1>4 DEF Target, Outside
  <2> HIDE DEF k
  <2> QED BY <1>1, <1>2, <1>4, <1>5, <2>1 DEF InquiryOK, InquiryPlaces, Outside
<1>12. AccessWithdrawn'
  <2>1. \A y \in Inquiries :
          pc[y] \in {"await", "withdraw"} =>
            pc'[y] = pc[y] /\ Target(y)' = Target(y)
    BY <1>1, <1>4 DEF Target, Threads
  <2> QED BY <1>5, <2>1, AccessKeeps
<1> QED BY <1>1, <1>6, <1>7, <1>8, <1>9, <1>10, <1>11, <1>12, StepKeeps

\* A finished operation gets old.
LEMMA GetsOldKeeps ==
  ASSUME IInv, NEW k \in Threads, GetsOld(k)
  PROVE  IInv'
<1>1. /\ TypeOK /\ ThreadOK(k) /\ DOMAIN told = Threads
      /\ k \in Calls => CallOK(k)
      /\ k \in Inquiries => InquiryOK(k)
  BY DEF IInv, DomainsOK
<1>2. control \in [Threads -> ControlType] /\ control[k] \in ControlType
      /\ control[k].finished = "yes"
  BY <1>1 DEF TypeOK, ControlType, GetsOld
<1> DEFINE old == [control[k] EXCEPT !.finished = "old"]
<1>3. old \in ControlType
  BY <1>2 DEF ControlType
<1>4. /\ UNCHANGED <<vault, session, records, pc, op, scope, told, access, effects>>
      /\ control' = [control EXCEPT ![k] = old]
  BY DEF GetsOld
<1>5. /\ control' \in [Threads -> ControlType] /\ control'[k] = old
      /\ \A s \in Threads \ {k} : control'[s] = control[s]
  BY <1>2, <1>3, <1>4
<1>6. /\ control'[k].invalidated = control[k].invalidated
      /\ control'[k].cancelled = control[k].cancelled
      /\ control'[k].started = control[k].started
      /\ control'[k].outcome = control[k].outcome
      /\ control'[k].bound = control[k].bound
      /\ control'[k].finished = "old"
  BY <1>2, <1>5 DEF ControlType
<1> HIDE DEF old
<1>7. TypeOK'
  <2>1. pc' \in [Threads -> Places]
    BY <1>1, <1>4 DEF TypeOK, Places, CallPlaces, InquiryPlaces
  <2> QED BY <1>1, <1>4, <1>5, <2>1, TypeKeeps DEF TypeOK
<1>8. ~Outside(k)
  BY <1>1, <1>2 DEF ThreadOK
<1>9. StepOf(k)
  BY <1>1, <1>4, <1>5, <1>6, <1>8 DEF StepOf, Alike, Outside
<1>10. (Issued(k)' => Issued(k)) /\ (Removed(k) => Removed(k)')
  BY <1>2, <1>4, <1>6 DEF Issued, Removed, Running, Legacy
<1>11. ThreadOK(k)'
  <2>1. CancelTold(k)' => /\ Target(k)' \in Threads
                          /\ control'[Target(k)'].cancelled
                          /\ ~control'[Target(k)'].started
    <3>1. CancelTold(k)' => CancelTold(k) /\ Target(k)' = Target(k)
      BY <1>4 DEF CancelTold, Target
    <3> QED BY <1>1, <1>5, <1>6, <3>1 DEF ThreadOK
  <2> QED BY <1>1, <1>4, <1>6, <1>8, <1>10, <2>1 DEF ThreadOK, Outside
<1>12. ASSUME k \in Calls PROVE CallOK(k)'
  <2>1. CallOK(k) /\ ~Running(k)
    BY <1>1, <1>2, <1>12 DEF CallOK
  <2> QED BY <1>4, <1>6, <2>1 DEF CallOK, Running, Legacy
<1>13. ASSUME k \in Inquiries PROVE InquiryOK(k)'
  <2>1. InquiryOK(k) /\ pc[k] = "done"
    BY <1>1, <1>2, <1>13 DEF InquiryOK
  <2> QED BY <1>4, <1>6, <2>1 DEF InquiryOK, Target
<1>14. AccessWithdrawn'
  <2>1. \A c \in Calls : /\ control'[c].bound = control[c].bound
                         /\ control'[c].cancelled = control[c].cancelled
    BY <1>5, <1>6 DEF Threads
  <2> QED BY <1>4, <2>1, AccessKeeps DEF Target
<1>15. TableKeeps
  BY <1>4 DEF TableKeeps
<1> QED BY <1>7, <1>9, <1>10, <1>11, <1>12, <1>13, <1>14, <1>15, StepKeeps

(***************************************************************************)
(* The steps that put a record into the table.                             *)
(***************************************************************************)

\* A thread whose session is not over is in the session of the vault.
LEMMA InSession ==
  ASSUME IInv, NEW t \in Threads, pc[t] \in {"admit", "look"}, ~SessionOver(t)
  PROVE  /\ scope[t] \in Scopes /\ scope[t].epoch = vault.epoch
         /\ session = vault.epoch /\ vault.phase = "open"
         /\ ~Issued(t) /\ control[t].finished = "no" /\ ~control[t].invalidated
<1>1. ThreadOK(t) /\ VaultOK /\ Outside(t) /\ TypeOK
  BY DEF IInv, Outside
<1>2. scope[t] \in Scopes /\ scope[t].epoch \in 1..vault.epoch
  BY <1>1 DEF ThreadOK
<1>3. session = scope[t].epoch /\ session # 0
  BY <1>2 DEF SessionOver
<1> QED BY <1>1, <1>2, <1>3 DEF ThreadOK, VaultOK, TypeOK

\* An operation of the session that is not old is in the table, for its ID
\* and for its key.
LEMMA InTable ==
  ASSUME IInv, NEW t \in Threads, pc[t] \in {"admit", "look"}, ~SessionOver(t),
         NEW s \in Threads, Issued(s), control[s].finished # "old", Same(s, t)
  PROVE  /\ op[s].id \in DOMAIN Retained /\ Retained[op[s].id].scope = scope[t]
         /\ s \in Calls => Retained[op[s].id].key = op[s].key
<1>1. Current(s) /\ s # t
  BY InSession DEF Current, Same
<1>2. ~Removed(s)
  <2> SUFFICES ASSUME Removed(s) PROVE FALSE
    OBVIOUS
  <2>1. s \in Calls /\ op[s].id = s /\ op[s].key = NoKey
    BY DEF Removed, Legacy, IInv, CallOK
  <2>2. op[t].id = s
    BY <2>1 DEF Same
  <2>3. op[t].id \in Ids \cup {t}
    BY DEF IInv, CallOK, InquiryOK, Threads
  <2> QED BY <1>1, <2>1, <2>2, <2>3, NamesAssumption
<1>3. HasRecord(s)
  BY <1>1, <1>2 DEF IInv, Kept
<1>4. TypeOK
  BY DEF IInv
<1> QED BY <1>3, <1>4, RetainedRecords DEF HasRecord, Same

\* So whoever finds nothing in the table meets no other operation.
LEMMA NewcomerAlone ==
  ASSUME IInv, NEW t \in Threads, pc[t] \in {"admit", "look"}, ~SessionOver(t),
         t \in Calls => Known(t) = {},
         op[t].id \notin DOMAIN Retained,
         NEW s \in Threads, Issued(s), Same(s, t)
  PROVE  control[s].finished = "old"
<1> SUFFICES ASSUME control[s].finished # "old" PROVE FALSE
  OBVIOUS
<1>1. /\ op[s].id \in DOMAIN Retained /\ Retained[op[s].id].scope = scope[t]
      /\ s \in Calls => Retained[op[s].id].key = op[s].key
  BY InTable
<1>2. s \in Calls /\ t \in Calls /\ op[s].key = op[t].key /\ op[s].key # NoKey
  BY <1>1 DEF Same
<1>3. op[s].id \in {id \in OfScope(Retained, scope[t]) :
                     op[t].key # NoKey /\ Retained[id].key = op[t].key}
  BY <1>1, <1>2 DEF OfScope
<1> QED BY <1>2, <1>3 DEF Known

\* The table with the record r of t.
LEMMA RecordsGrow ==
  ASSUME IInv, NEW t \in Threads, pc[t] \in {"admit", "look"}, ~SessionOver(t),
         t \in Calls => Known(t) = {},
         op[t].id \notin DOMAIN Retained, op[t].id \in Ids \cup Calls,
         StepOf(t), NEW r \in Records, records' = Put(Retained, op[t].id, r),
         r.scope = scope[t], r.control = t,
         t \in Calls => r.key = op[t].key /\ r.fingerprint # "unknown"
  PROVE  /\ RecordsOK' /\ NotYet'
         /\ \A s \in Threads : Kept(s)'
         /\ \A s1, s2 \in Threads : Alone(s1, s2)'
         /\ DOMAIN records' \subseteq Ids \cup Calls
         /\ records' \in [DOMAIN records' -> Records]
<1> DEFINE new == op[t].id
<1>1. TypeOK /\ Outside(t)
  BY DEF IInv, Outside
<1>2. /\ DOMAIN records' = DOMAIN Retained \cup {new}
      /\ records'[new] = r
      /\ \A id \in DOMAIN Retained :
           id \in DOMAIN records /\ id # new /\ records'[id] = records[id]
      /\ records' \in [DOMAIN records' -> Records]
      /\ DOMAIN records' \subseteq Ids \cup Calls
  <2>1. /\ \A id \in DOMAIN Retained :
             /\ id \in DOMAIN records /\ id # new
             /\ Retained[id] = records[id] /\ Retained[id] \in Records
        /\ DOMAIN Retained \subseteq Ids \cup Calls
    BY <1>1, RetainedRecords
  <2> QED BY <2>1 DEF Put
<1>3. /\ scope[t].epoch = vault.epoch /\ session = vault.epoch /\ vault.phase = "open"
      /\ ~Issued(t)
  BY InSession
<1>4. UNCHANGED <<vault, session, op, scope>> /\ ~Outside(t)'
  BY DEF StepOf
<1>5. RecordsOK'
  <2>1. ASSUME NEW id \in DOMAIN records', NEW s \in Threads, records'[id].control = s
        PROVE  /\ records'[id].scope.epoch = vault.epoch
               /\ ~Outside(s)'
               /\ op[s].id = id /\ scope[s] = records'[id].scope
    <3>1. CASE id = new
      BY <1>2, <1>3, <1>4, <2>1, <3>1
    <3>2. CASE id \in DOMAIN Retained
      <4>1. id \in DOMAIN records /\ records'[id] = records[id]
        BY <1>2, <3>2
      <4>2. ~Outside(s)
        BY <2>1, <4>1 DEF IInv, RecordsOK
      <4>3. ~Outside(s)'
        BY <4>2 DEF StepOf, Outside
      <4> QED BY <2>1, <4>1, <4>3 DEF IInv, RecordsOK
    <3> QED BY <1>2, <3>1, <3>2
  <2>2. \A id \in DOMAIN records' : records'[id].control \in Threads
    BY <1>2 DEF Records
  <2> QED BY <1>3, <1>4, <2>1, <2>2 DEF RecordsOK, Outside
<1>6. NotYet'
  BY <1>3, <1>4 DEF NotYet
<1>7. \A s \in Threads \ {t} :
        /\ Issued(s)' = Issued(s) /\ Removed(s)' = Removed(s)
        /\ control'[s].finished = control[s].finished
  BY <1>4 DEF StepOf, Alike, Issued, Running, Removed, Legacy
<1>8. ASSUME NEW s \in Threads PROVE Kept(s)'
  <2>1. CASE s = t
    BY <1>2, <1>4, <2>1 DEF Kept, HasRecord
  <2>2. CASE s # t
    <3>1. SUFFICES ASSUME HasRecord(s), control[s].finished # "old"
                   PROVE  HasRecord(s)'
      BY <1>4, <1>7, <2>2 DEF IInv, Kept, Current
    <3>2. op[s].id \in DOMAIN Retained
      BY <1>1, <3>1, RetainedRecords DEF HasRecord
    <3> QED BY <1>2, <1>4, <3>1, <3>2 DEF HasRecord
  <2> QED BY <2>1, <2>2
<1>9. ASSUME NEW s1 \in Threads, NEW s2 \in Threads PROVE Alone(s1, s2)'
  <2>1. \A u, v \in Threads : Same(u, v)' = Same(u, v) /\ (Same(u, v) => Same(v, u))
    BY <1>4 DEF Same
  <2>2. CASE s1 # t /\ s2 # t
    BY <1>7, <2>1, <2>2 DEF IInv, Alone
  <2>3. CASE s1 = t /\ s2 # t
    BY <1>7, <2>1, <2>3, NewcomerAlone DEF Alone
  <2>4. CASE s1 # t /\ s2 = t
    BY <1>7, <2>1, <2>4, NewcomerAlone DEF Alone
  <2> QED BY <2>2, <2>3, <2>4 DEF Alone
<1> QED BY <1>2, <1>5, <1>6, <1>8, <1>9

\* A new call.
LEMMA AdmitNewKeeps ==
  ASSUME IInv, NEW c \in Calls, AdmitNew(c)
  PROVE  IInv'
<1>1. /\ c \in Threads /\ c \notin Inquiries /\ TypeOK /\ ThreadOK(c) /\ CallOK(c)
      /\ DOMAIN told = Threads /\ pc[c] = "admit" /\ ~SessionOver(c)
      /\ Known(c) = {}
  BY NamesAssumption DEF IInv, Threads, DomainsOK, AdmitNew
<1>2. /\ scope[c] \in Scopes /\ Current(c) /\ ~Issued(c)
      /\ control[c].finished = "no" /\ ~control[c].invalidated
  BY <1>1, InSession DEF Current
<1>3. PICK place \in {"enter", "begin"} :
        /\ pc' = [pc EXCEPT ![c] = place]
        /\ place = "enter" => op[c].kind \in {"use", "once"}
  BY DEF AdmitNew, Goto
<1>4. /\ pc'[c] = place /\ pc' \in [Threads -> Places]
      /\ \A s \in Threads \ {c} : pc'[s] = pc[s]
      /\ UNCHANGED <<vault, session, control, op, scope, told, access, effects>>
  BY <1>1, <1>3 DEF AdmitNew, TypeOK, Places, CallPlaces, InquiryPlaces
<1> DEFINE r == [scope |-> scope[c], fingerprint |-> op[c].kind,
                 key |-> op[c].key, control |-> c]
<1>5. /\ op[c].id \in Ids \cup {c} /\ op[c].kind \in Kinds
      /\ r \in Records /\ records' = Put(Retained, op[c].id, r)
  BY <1>1, <1>2 DEF AdmitNew, CallOK, Records
<1>6. op[c].id \notin DOMAIN Retained
  BY <1>1 DEF Known
<1>7. StepOf(c)
  BY <1>1, <1>4 DEF StepOf, Alike, Outside
<1>8. "unknown" \notin Kinds
  BY DEF Kinds
<1>9. /\ RecordsOK' /\ NotYet'
      /\ \A s \in Threads : Kept(s)'
      /\ \A s1, s2 \in Threads : Alone(s1, s2)'
      /\ DOMAIN records' \subseteq Ids \cup Calls
      /\ records' \in [DOMAIN records' -> Records]
  <2>1. /\ r.scope = scope[c] /\ r.control = c /\ r.key = op[c].key
        /\ r.fingerprint = op[c].kind
    OBVIOUS
  <2> HIDE DEF r
  <2> QED BY <1>1, <1>5, <1>6, <1>7, <1>8, <2>1, RecordsGrow
<1>10. TypeOK'
  <2>1. control' \in [Threads -> ControlType]
    BY <1>1, <1>4 DEF TypeOK, ControlType
  <2> QED BY <1>1, <1>4, <1>9, <2>1, TypeKeepsTable
<1>11. ThreadOK(c)'
  <2>1. CancelTold(c)' => CancelTold(c) /\ Target(c)' = Target(c)
    BY <1>4 DEF CancelTold, Target
  <2> QED BY <1>1, <1>2, <1>4, <2>1 DEF ThreadOK, Outside
<1>12. CallOK(c)'
  <2>1. c \notin effects /\ ~control[c].bound
    BY <1>1, <1>2 DEF CallOK, Issued
  <2> QED BY <1>1, <1>2, <1>3, <1>4, <2>1
      DEF CallOK, CallPlaces, Running, Current, Legacy
<1>13. AccessWithdrawn'
  <2>1. \A x \in Inquiries : pc'[x] = pc[x] /\ Target(x)' = Target(x)
    BY <1>1, <1>4 DEF Target, Threads
  <2> QED BY <1>4, <2>1, AccessKeeps
<1> QED BY <1>1, <1>7, <1>9, <1>10, <1>11, <1>12, <1>13, ThreadsKeep DEF IInv

\* A tombstone.
LEMMA LookTombstoneKeeps ==
  ASSUME IInv, NEW x \in Inquiries, LookTombstone(x)
  PROVE  IInv'
<1>1. /\ x \in Threads /\ x \notin Calls /\ TypeOK /\ ThreadOK(x) /\ InquiryOK(x)
      /\ DOMAIN told = Threads /\ pc[x] = "look" /\ ~SessionOver(x)
  BY NamesAssumption DEF IInv, Threads, DomainsOK, LookTombstone
<1>2. /\ scope[x] \in Scopes /\ ~Issued(x) /\ ~control[x].started
      /\ control[x].finished = "no" /\ ~control[x].invalidated
  BY <1>1, InSession DEF InquiryOK
<1> DEFINE dead == [control[x] EXCEPT !.cancelled = TRUE, !.finished = "yes",
                                      !.outcome = "cancelled"]
           r == [scope |-> scope[x], fingerprint |-> "unknown", key |-> NoKey,
                 control |-> x]
           m == [what |-> "receipt", of |-> x, outcome |-> "cancelled",
                 cancelled |-> TRUE, mayHaveRun |-> FALSE]
<1>3. /\ UNCHANGED <<vault, session, op, scope, access, effects>>
      /\ control' = [control EXCEPT ![x] = dead]
      /\ records' = Put(Retained, op[x].id, r)
      /\ told' = [told EXCEPT ![x] = m]
      /\ pc' = [pc EXCEPT ![x] = "done"]
      /\ op[x].id \notin DOMAIN Retained
  BY DEF LookTombstone, Goto
<1>4. control \in [Threads -> ControlType] /\ control[x] \in ControlType
  BY <1>1 DEF TypeOK, ControlType
<1>5. /\ dead \in ControlType /\ dead.finished = "yes" /\ dead.cancelled
      /\ dead.started = control[x].started
      /\ dead.invalidated = control[x].invalidated
  BY <1>4 DEF ControlType, Outcomes
<1>6. /\ control' \in [Threads -> ControlType] /\ control'[x] = dead
      /\ \A s \in Threads \ {x} : control'[s] = control[s]
      /\ told'[x] = m /\ DOMAIN told' = Threads
      /\ \A s \in Threads \ {x} : told'[s] = told[s]
      /\ pc' \in [Threads -> Places] /\ pc'[x] = "done"
      /\ \A s \in Threads \ {x} : pc'[s] = pc[s]
  BY <1>1, <1>3, <1>4, <1>5 DEF TypeOK, Places, CallPlaces, InquiryPlaces
<1>7. /\ r \in Records /\ r.scope = scope[x] /\ r.control = x
      /\ m.what = "receipt" /\ m.of = x
  BY <1>1, <1>2 DEF Records
<1> HIDE DEF dead, r, m
<1>8. StepOf(x)
  BY <1>2, <1>3, <1>5, <1>6 DEF StepOf, Alike, Outside
<1>9. op[x].id \in Ids
  BY <1>1 DEF InquiryOK
<1>10. /\ RecordsOK' /\ NotYet'
       /\ \A s \in Threads : Kept(s)'
       /\ \A s1, s2 \in Threads : Alone(s1, s2)'
       /\ DOMAIN records' \subseteq Ids \cup Calls
       /\ records' \in [DOMAIN records' -> Records]
  BY <1>1, <1>3, <1>7, <1>8, <1>9, RecordsGrow
<1>11. TypeOK'
  BY <1>1, <1>3, <1>6, <1>10, TypeKeepsTable
<1>12. ThreadOK(x)'
  BY <1>1, <1>2, <1>3, <1>5, <1>6, <1>7
  DEF ThreadOK, Outside, CancelTold, Target
<1>13. InquiryOK(x)'
  BY <1>1, <1>2, <1>3, <1>5, <1>6 DEF InquiryOK, InquiryPlaces
<1>14. AccessWithdrawn'
  <2>1. /\ \A c \in Calls : control'[c] = control[c]
        /\ \A y \in Inquiries :
             pc[y] \in {"await", "withdraw"} =>
               pc'[y] = pc[y] /\ Target(y)' = Target(y)
    BY <1>1, <1>6 DEF Target, Threads
  <2> QED BY <1>3, <2>1, AccessKeeps
<1> QED BY <1>1, <1>8, <1>10, <1>11, <1>12, <1>13, <1>14, ThreadsKeep DEF IInv

(***************************************************************************)
(* The vault session, and the requests that authenticate in it.            *)
(***************************************************************************)

\* Nothing is in the table before the first request of a session.
LEMMA TableEmpty ==
  ASSUME IInv, session # vault.epoch, vault.phase # "ending"
  PROVE  DOMAIN records = {}
BY DEF IInv, RecordsOK

\* A vault session ends.
LEMMA SessionEndsKeeps ==
  ASSUME IInv, SessionEnds
  PROVE  IInv'
<1>1. TypeOK /\ DomainsOK /\ VaultOK
  BY DEF IInv
<1>2. /\ vault.phase = "open" /\ session' = 0
      /\ vault'.epoch = vault.epoch /\ vault'.phase \in {"ending", "locked"}
      /\ vault'.phase = "ending" <=> session = vault.epoch
      /\ UNCHANGED <<records, control, pc, op, scope, told, access, effects>>
  BY <1>1 DEF SessionEnds, TypeOK
<1>3. TypeOK'
  <2>1. vault' \in [epoch : 1..MaxEpoch, phase : {"open", "ending", "locked"}]
    BY <1>1 DEF SessionEnds, TypeOK
  <2>2. session' \in 0..MaxEpoch
    BY <1>2, LimitsAssumption
  <2> QED BY <1>1, <1>2, <2>1, <2>2 DEF TypeOK
<1>4. DomainsOK' /\ VaultOK'
  BY <1>1, <1>2 DEF DomainsOK, VaultOK
<1>5. \A t \in Threads : Issued(t)' = Issued(t) /\ (Current(t)' => Current(t))
  BY <1>2 DEF Issued, Running, Current
<1>6. ASSUME NEW t \in Threads PROVE ThreadOK(t)' /\ Kept(t)'
  <2>1. ThreadOK(t)'
    BY <1>2, <1>5 DEF IInv, ThreadOK, Outside, CancelTold, Target
  <2>2. Kept(t)'
    BY <1>2, <1>5 DEF IInv, Kept, HasRecord, Removed, Legacy
  <2> QED BY <2>1, <2>2
<1>7. ASSUME NEW c \in Calls PROVE CallOK(c)'
  <2>1. CallOK(c) /\ c \in Threads
    BY DEF IInv, Threads
  <2>2. Running(c) /\ ~Current(c)' => control[c].invalidated
    <3>1. Running(c) /\ Current(c) => session = vault.epoch
      BY <1>2, <2>1 DEF IInv, NotYet, Issued, Current
    <3> QED BY <1>2, <2>1, <3>1 DEF CallOK, Current
  <2> QED BY <1>2, <2>1, <2>2 DEF CallOK, Running, Legacy
<1>8. ASSUME NEW x \in Inquiries PROVE InquiryOK(x)'
  BY <1>2 DEF IInv, InquiryOK, Outside, Target
<1>9. RecordsOK'
  <2>1. session = vault.epoch \/ DOMAIN records = {}
    BY <1>2, TableEmpty
  <2> QED BY <1>2, <2>1 DEF IInv, RecordsOK, Outside
<1>10. NotYet' /\ AccessWithdrawn'
  BY <1>2 DEF NotYet, AccessWithdrawn, SessionMatches
<1>11. ASSUME NEW s \in Threads, NEW t \in Threads PROVE Alone(s, t)'
  BY <1>2, <1>5 DEF IInv, Alone, Same
<1> QED BY <1>3, <1>4, <1>6, <1>7, <1>8, <1>9, <1>10, <1>11 DEF IInv

\* The cleanup of a session empties the table; its operations are invalid.
LEMMA SessionClearedKeeps ==
  ASSUME IInv, SessionCleared
  PROVE  IInv'
<1>1. TypeOK /\ DomainsOK /\ VaultOK
  BY DEF IInv
<1>2. /\ vault.phase = "ending" /\ session' = session /\ session = 0
      /\ vault'.epoch = vault.epoch /\ vault'.phase = "locked"
      /\ records' = <<>> /\ DOMAIN records' = {}
      /\ control' = Cleared
      /\ UNCHANGED <<pc, op, scope, told, access, effects>>
  BY <1>1 DEF SessionCleared, ClearRecords, TypeOK, VaultOK
<1>3. ASSUME NEW k \in Threads
      PROVE  /\ control'[k] \in ControlType
             /\ control'[k].started = control[k].started
             /\ control'[k].finished = control[k].finished
             /\ control[k].cancelled => control'[k].cancelled
             /\ control[k].bound = control'[k].bound
             /\ IF \E id \in DOMAIN records : records[id].control = k
                  THEN control'[k].invalidated /\ control'[k].outcome = "none"
                  ELSE control'[k] = control[k]
  <2>1. control[k] \in ControlType
    BY <1>1 DEF TypeOK, ControlType
  <2>2. control'[k] = IF \E id \in DOMAIN records : records[id].control = k
                        THEN [control[k] EXCEPT !.cancelled = TRUE,
                                                !.invalidated = TRUE,
                                                !.outcome = "none"]
                        ELSE control[k]
    BY <1>2 DEF Cleared
  <2> QED BY <2>1, <2>2 DEF ControlType, Outcomes
<1>4. control' \in [Threads -> ControlType]
  BY <1>2, <1>3 DEF Cleared
<1>5. TypeOK'
  <2>1. vault' \in [epoch : 1..MaxEpoch, phase : {"open", "ending", "locked"}]
    BY <1>1 DEF SessionCleared, TypeOK
  <2>2. records' \in [DOMAIN records' -> Records]
    BY <1>2
  <2> QED BY <1>1, <1>2, <1>4, <2>1, <2>2 DEF TypeOK, ControlType
<1>6. DomainsOK' /\ VaultOK'
  BY <1>1, <1>2 DEF DomainsOK, VaultOK
<1>7. \A t \in Threads : Issued(t)' = Issued(t) /\ ~Current(t)'
  BY <1>2, <1>3 DEF Issued, Running, Current
<1>8. ASSUME NEW t \in Threads PROVE ThreadOK(t)' /\ Kept(t)'
  <2>1. ThreadOK(t)
    BY DEF IInv
  <2>2. Outside(t) => control'[t] = control[t]
    BY <1>3 DEF IInv, RecordsOK
  <2>3. control'[t].invalidated => control'[t].outcome = "none"
    BY <1>3, <2>1 DEF ThreadOK
  <2>4. CancelTold(t) => /\ Target(t) \in Threads
                         /\ control'[Target(t)].cancelled
                         /\ ~control'[Target(t)].started
    BY <1>3, <2>1 DEF ThreadOK
  <2>5. ThreadOK(t)'
    BY <1>2, <1>7, <2>1, <2>2, <2>3, <2>4
    DEF ThreadOK, Outside, CancelTold, Target
  <2> QED BY <1>7, <2>5 DEF Kept
<1>9. ASSUME NEW c \in Calls PROVE CallOK(c)'
  <2>1. CallOK(c) /\ c \in Threads
    BY DEF IInv, Threads
  <2>2. Running(c) => control'[c].invalidated
    <3>1. CASE Current(c)
      <4>1. Running(c) => HasRecord(c)
        BY <2>1, <3>1 DEF IInv, Kept, Issued, CallOK, Removed, Running
      <4> QED BY <1>3, <2>1, <4>1 DEF HasRecord
    <3>2. CASE ~Current(c)
      BY <1>3, <2>1, <3>2 DEF CallOK
    <3> QED BY <3>1, <3>2
  <2> QED BY <1>2, <1>3, <2>1, <2>2 DEF CallOK, Running, Legacy
<1>10. ASSUME NEW x \in Inquiries PROVE InquiryOK(x)'
  <2>1. InquiryOK(x) /\ x \in Threads
    BY DEF IInv, Threads
  <2> QED BY <1>2, <1>3, <2>1 DEF InquiryOK, Outside, Target
<1>11. RecordsOK' /\ NotYet' /\ AccessWithdrawn'
  BY <1>2 DEF RecordsOK, NotYet, AccessWithdrawn, SessionMatches
<1>12. ASSUME NEW s \in Threads, NEW t \in Threads PROVE Alone(s, t)'
  <2>1. Alone(s, t) /\ (Same(s, t)' => Same(s, t))
    BY <1>2 DEF IInv, Same
  <2> QED BY <1>3, <1>7, <2>1 DEF Alone
<1> QED BY <1>5, <1>6, <1>8, <1>9, <1>10, <1>11, <1>12 DEF IInv

\* A vault session begins.
LEMMA UnlockKeeps ==
  ASSUME IInv, Unlock
  PROVE  IInv'
<1>1. TypeOK /\ DomainsOK /\ VaultOK
  BY DEF IInv
<1>2. /\ vault.phase = "locked" /\ session' = session /\ session = 0
      /\ vault.epoch \in 1..MaxEpoch /\ vault'.epoch = vault.epoch + 1
      /\ vault'.phase = "open"
      /\ UNCHANGED <<records, control, pc, op, scope, told, access, effects>>
  BY <1>1 DEF Unlock, TypeOK, VaultOK
<1>3. DOMAIN records = {}
  BY <1>2, TableEmpty
<1>4. TypeOK'
  <2>1. vault' \in [epoch : 1..MaxEpoch, phase : {"open", "ending", "locked"}]
    BY <1>1, LimitsAssumption DEF Unlock, TypeOK
  <2> QED BY <1>1, <1>2, <2>1 DEF TypeOK
<1>5. DomainsOK' /\ VaultOK'
  BY <1>1, <1>2 DEF DomainsOK, VaultOK
<1>6. \A t \in Threads :
        /\ Issued(t)' = Issued(t)
        /\ Issued(t) => scope[t].epoch \in 1..vault.epoch
  BY <1>2 DEF IInv, ThreadOK, Issued, Running
<1>7. \A t \in Threads : Issued(t) => ~Current(t)'
  BY <1>2, <1>6 DEF Current
<1>8. ASSUME NEW t \in Threads PROVE ThreadOK(t)' /\ Kept(t)'
  <2>1. ThreadOK(t)
    BY DEF IInv
  <2>2. \A n \in 1..vault.epoch : n \in 1..vault'.epoch
    BY <1>2
  <2>3. ThreadOK(t)'
    BY <1>2, <1>6, <2>1, <2>2 DEF ThreadOK, Outside, CancelTold, Target
  <2> QED BY <1>6, <1>7, <2>3 DEF Kept
<1>9. ASSUME NEW c \in Calls PROVE CallOK(c)'
  <2>1. CallOK(c)
    BY DEF IInv
  <2>2. Running(c) => control[c].invalidated
    BY <1>2, <2>1 DEF CallOK, Current
  <2> QED BY <1>2, <2>1, <2>2 DEF CallOK, Running, Legacy
<1>10. ASSUME NEW x \in Inquiries PROVE InquiryOK(x)'
  BY <1>2 DEF IInv, InquiryOK, Outside, Target
<1>11. RecordsOK' /\ NotYet'
  BY <1>2, <1>3, <1>6, <1>7 DEF RecordsOK, NotYet, Current
<1>12. AccessWithdrawn'
  <2>1. ASSUME NEW c \in Calls, control[c].bound PROVE ~SessionMatches(c)'
    <3>1. Issued(c) /\ c \in Threads
      BY <2>1 DEF IInv, CallOK, Issued, Threads
    <3> QED BY <1>2, <1>6, <3>1 DEF SessionMatches
  <2> QED BY <1>2, <2>1 DEF AccessWithdrawn
<1>13. ASSUME NEW s \in Threads, NEW t \in Threads PROVE Alone(s, t)'
  BY <1>2, <1>6 DEF IInv, Alone, Same
<1> QED BY <1>4, <1>5, <1>8, <1>9, <1>10, <1>11, <1>12, <1>13 DEF IInv

\* What a request says.
RequestOK(t, o) ==
  /\ o.agent \in Agents
  /\ t \in Calls => /\ o.kind \in Kinds /\ o.id \in Ids \cup {t}
                    /\ o.key \in Keys \cup {NoKey}
                    /\ o.id = t => o.key = NoKey
  /\ t \in Inquiries => o.kind \in {"status", "cancel"} /\ o.id \in Ids

\* A request authenticates, or finds the vault locked.
LEMMA AuthenticateKeeps ==
  ASSUME IInv, NEW t \in Threads, NEW o, NEW next \in {"admit", "look"},
         t \in Calls <=> next = "admit",
         RequestOK(t, o), Authenticate(t, o, next)
  PROVE  IInv'
<1>1. /\ TypeOK /\ DomainsOK /\ VaultOK /\ ThreadOK(t) /\ pc[t] = "idle"
      /\ t \in Calls => t \notin Inquiries /\ CallOK(t)
      /\ t \in Inquiries => t \notin Calls /\ InquiryOK(t)
      /\ vault.phase # "ending"
  BY NamesAssumption DEF IInv, Authenticate
<1>2. /\ UNCHANGED <<vault, access, effects>> /\ op' = [op EXCEPT ![t] = o]
      /\ \/ /\ vault.phase = "locked"
            /\ told' = [told EXCEPT ![t] = [what |-> "locked"]]
            /\ pc' = [pc EXCEPT ![t] = "done"]
            /\ UNCHANGED <<session, records, control, scope>>
         \/ /\ vault.phase = "open"
            /\ scope' = [scope EXCEPT ![t] =
                           [epoch |-> vault.epoch, agent |-> o.agent]]
            /\ session' = vault.epoch
            /\ \/ UNCHANGED <<records, control>>
               \/ session # vault.epoch /\ control' = Cleared /\ records' = <<>>
            /\ pc' = [pc EXCEPT ![t] = next] /\ told' = told
  BY <1>1 DEF Authenticate, Answer, Goto, ClearRecords, TypeOK
<1>3. UNCHANGED control /\ DOMAIN records' = DOMAIN records
      /\ \A id \in DOMAIN records : records'[id] = records[id]
  <2>1. CASE UNCHANGED <<records, control>>
    BY <2>1
  <2>2. CASE session # vault.epoch /\ control' = Cleared /\ records' = <<>>
    <3>1. DOMAIN records = {} /\ DOMAIN records' = {}
      BY <1>1, <2>2, TableEmpty
    <3>2. Cleared = [k \in Threads |-> control[k]]
      BY <3>1 DEF Cleared
    <3> QED BY <1>1, <2>2, <3>1, <3>2 DEF TypeOK
  <2> QED BY <1>2, <2>1, <2>2
<1>4. \A s \in Threads \ {t} : /\ pc'[s] = pc[s] /\ told'[s] = told[s]
                              /\ op'[s] = op[s] /\ scope'[s] = scope[s]
  BY <1>1, <1>2 DEF TypeOK, DomainsOK
<1>5. /\ op'[t] = o /\ pc'[t] \in {"done", next} /\ pc' \in [Threads -> Places]
      /\ scope'[t] \in Scopes => scope'[t].epoch \in 1..vault.epoch
      /\ pc'[t] = next => scope'[t] \in Scopes
      /\ scope'[t] \in Scopes \cup {NoScope}
      /\ told'[t] = told[t] \/ told'[t].what = "locked"
      /\ pc'[t] = "done" => told'[t].what = "locked"
  <2>1. vault.epoch \in 1..vault.epoch /\ vault.epoch \in Nat
    BY <1>1 DEF TypeOK
  <2>2. CASE vault.phase = "locked"
    BY <1>1, <1>2, <2>2
    DEF TypeOK, DomainsOK, Places, CallPlaces, InquiryPlaces, ThreadOK
  <2>3. CASE vault.phase = "open"
    <3>1. scope'[t] = [epoch |-> vault.epoch, agent |-> o.agent]
      BY <1>1, <1>2, <2>3 DEF DomainsOK
    <3>2. scope'[t] \in Scopes /\ scope'[t].epoch = vault.epoch
      BY <2>1, <3>1 DEF Scopes, RequestOK
    <3> QED BY <1>1, <1>2, <2>1, <2>3, <3>2
        DEF TypeOK, DomainsOK, Places, CallPlaces, InquiryPlaces
  <2> QED BY <1>2, <2>2, <2>3
<1>6. session' \in {session, vault.epoch}
      /\ (vault.phase # "open" => session' = session)
      /\ (vault.phase = "open" => session' = vault.epoch)
  BY <1>2
<1>7. TypeOK'
  <2>1. session' \in 0..MaxEpoch
    BY <1>1, <1>6 DEF TypeOK
  <2>2. records' \in [DOMAIN records' -> Records] /\ DOMAIN records' \subseteq Ids \cup Calls
    <3>1. records' = records \/ records' = <<>>
      BY <1>2
    <3> QED BY <1>1, <1>3, <3>1 DEF TypeOK
  <2>3. pc' \in [Threads -> {"idle", "admit", "begin", "enter", "waiting",
                         "boundary", "effect", "finish", "remove", "look",
                         "mark", "await", "withdraw", "receipt", "done"}]
    BY <1>5 DEF Places, CallPlaces, InquiryPlaces
  <2>4. \A s \in Threads : scope'[s] \in Scopes \cup {NoScope}
    BY <1>1, <1>4, <1>5 DEF TypeOK
  <2> QED BY <1>1, <1>2, <1>3, <2>1, <2>2, <2>3, <2>4 DEF TypeOK
<1>8. DomainsOK' /\ VaultOK'
  BY <1>1, <1>2, <1>6 DEF DomainsOK, VaultOK
<1>9. ~Issued(t) /\ ~Issued(t)' /\ control[t].finished = "no"
      /\ ~control[t].invalidated
  <2>1. Outside(t)
    BY <1>1 DEF Outside
  <2> QED BY <1>1, <1>3, <1>5, <2>1 DEF ThreadOK, Issued, Running
<1>10. \A s \in Threads \ {t} : Issued(s)' = Issued(s)
  BY <1>3, <1>4 DEF Issued, Running
<1>11. ASSUME NEW s \in Threads PROVE ThreadOK(s)'
  <2>1. ThreadOK(s)
    BY DEF IInv
  <2>2. CancelTold(s)' => CancelTold(s) /\ Target(s)' = Target(s)
    BY <1>4, <1>5 DEF CancelTold, Target
  <2>3. CASE s = t
    BY <1>1, <1>2, <1>3, <1>5, <1>9, <2>1, <2>2, <2>3 DEF ThreadOK, Outside
  <2>4. CASE s # t
    BY <1>2, <1>3, <1>4, <1>10, <2>1, <2>2, <2>4 DEF ThreadOK, Outside
  <2> QED BY <2>3, <2>4
<1>12. ASSUME NEW s \in Threads PROVE Kept(s)'
  <2>1. CASE s = t
    BY <1>9, <2>1 DEF Kept
  <2>2. CASE s # t
    <3>1. Kept(s)
      BY DEF IInv
    <3>2. HasRecord(s) => HasRecord(s)'
      BY <1>3, <1>4, <2>2 DEF HasRecord
    <3>3. /\ Current(s)' = Current(s) /\ Removed(s)' = Removed(s)
      BY <1>2, <1>4, <2>2 DEF Current, Removed, Legacy
    <3> QED BY <1>3, <1>10, <2>2, <3>1, <3>2, <3>3 DEF Kept
  <2> QED BY <2>1, <2>2
<1>13. ASSUME NEW c \in Calls PROVE CallOK(c)'
  <2>1. CallOK(c) /\ c \in Threads
    BY DEF IInv, Threads
  <2>2. CASE c = t
    <3>1. c \notin effects /\ ~control[c].bound /\ pc'[c] \in {"admit", "done"}
      BY <1>1, <1>5, <2>1, <2>2 DEF CallOK
    <3> QED BY <1>2, <1>3, <1>5, <2>2, <3>1 DEF CallOK, CallPlaces, Running, RequestOK
  <2>3. CASE c # t
    BY <1>2, <1>3, <1>4, <2>1, <2>3 DEF CallOK, Running, Current, Legacy
  <2> QED BY <2>2, <2>3
<1>14. ASSUME NEW x \in Inquiries PROVE InquiryOK(x)'
  <2>1. InquiryOK(x) /\ x \in Threads
    BY DEF IInv, Threads
  <2>2. CASE x = t
    <3>1. pc'[x] \in {"look", "done"}
      BY <1>1, <1>5, <2>2
    <3>2. told'[x].what = "receipt" => told'[x] = told[x]
      BY <1>5, <2>2
    <3> QED BY <1>3, <1>5, <1>9, <2>1, <2>2, <3>1, <3>2
        DEF InquiryOK, InquiryPlaces, RequestOK, Target
  <2>3. CASE x # t
    <3>1. ~Outside(Target(x)) => Target(x) # t
      BY <1>1 DEF Outside
    <3>2. Target(x)' = Target(x) /\ scope'[x] = scope[x] /\ pc'[x] = pc[x]
          /\ op'[x] = op[x]
      BY <1>4, <2>1, <2>3 DEF Target
    <3>3. Target(x) \in Threads \ {x} /\ ~Outside(Target(x)) =>
            /\ ~(pc'[Target(x)] \in {"idle", "admit", "look"})
            /\ scope'[Target(x)] = scope[Target(x)]
      BY <1>4, <3>1 DEF Outside
    <3> QED BY <1>3, <1>4, <2>1, <2>3, <3>2, <3>3 DEF InquiryOK, Outside
  <2> QED BY <2>2, <2>3
<1>15. RecordsOK'
  <2>1. ASSUME NEW id \in DOMAIN records, NEW k \in Threads, records[id].control = k
        PROVE  /\ records[id].scope.epoch = vault.epoch /\ session = vault.epoch
               /\ ~Outside(k)' /\ op'[k].id = id /\ scope'[k] = records[id].scope
    <3>1. k # t
      BY <1>1, <2>1 DEF IInv, RecordsOK, Outside
    <3>2. pc'[k] = pc[k] /\ op'[k] = op[k] /\ scope'[k] = scope[k]
      BY <1>4, <3>1
    <3> QED BY <1>1, <2>1, <3>2 DEF IInv, RecordsOK, Outside
  <2>2. \A id \in DOMAIN records : records[id].control \in Threads
    BY <1>1 DEF TypeOK, Records
  <2> QED BY <1>2, <1>3, <1>6, <2>1, <2>2 DEF RecordsOK, Outside
<1>16. NotYet'
  BY <1>2, <1>6 DEF NotYet
<1>17. AccessWithdrawn'
  <2> SUFFICES ASSUME NEW c \in Calls,
                      control[c].bound, control[c].cancelled,
                      SessionMatches(c)',
                      \A y \in Inquiries :
                        ~(pc'[y] \in {"await", "withdraw"} /\ Target(y)' = c)
               PROVE  access[c] = "withdrawn"
    BY <1>2, <1>3 DEF AccessWithdrawn
  <2>1. c # t /\ c \in Threads
    BY <1>1 DEF CallOK, Threads
  <2>2. SessionMatches(c)
    BY <1>2, <1>4, <2>1 DEF SessionMatches
  <2>3. \A y \in Inquiries : ~(pc[y] \in {"await", "withdraw"} /\ Target(y) = c)
    BY <1>1, <1>4 DEF Target, Threads
  <2> QED BY <2>2, <2>3 DEF IInv, AccessWithdrawn
<1>18. ASSUME NEW r \in Threads, NEW s \in Threads PROVE Alone(r, s)'
  <2>1. CASE r = t \/ s = t
    BY <1>9, <2>1 DEF Alone
  <2>2. CASE r # t /\ s # t
    <3>1. Same(r, s)' => Same(r, s)
      BY <1>4, <2>2 DEF Same
    <3> QED BY <1>3, <1>10, <2>2, <3>1 DEF IInv, Alone
  <2> QED BY <2>1, <2>2
<1> QED BY <1>7, <1>8, <1>11, <1>12, <1>13, <1>14, <1>15, <1>16, <1>17, <1>18
    DEF IInv

(***************************************************************************)
(* Every step, and the theorems.                                           *)
(***************************************************************************)

\* A step that does nothing.
LEMMA StutterKeeps ==
  ASSUME IInv, UNCHANGED vars
  PROVE  IInv'
<1>1. \A s \in Threads : ThreadOK(s)' /\ Kept(s)'
  BY DEF vars, IInv, ThreadOK, Kept, Issued, Running, Outside, CancelTold, Target,
         Current, Removed, Legacy, HasRecord
<1>2. \A c \in Calls : CallOK(c)'
  BY DEF vars, IInv, CallOK, Running, Current, Legacy
<1>3. \A x \in Inquiries : InquiryOK(x)'
  BY DEF vars, IInv, InquiryOK, Target, Outside
<1>4. RecordsOK' /\ NotYet' /\ DomainsOK' /\ VaultOK'
  BY DEF vars, IInv, RecordsOK, NotYet, DomainsOK, VaultOK, Outside, Issued, Running
<1>5. \A s, t \in Threads : Alone(s, t)'
  BY DEF vars, IInv, Alone, Issued, Running, Same
<1>6. TypeOK' /\ AccessWithdrawn'
  BY DEF vars, IInv, TypeOK, AccessWithdrawn, SessionMatches, Target
<1> QED BY <1>1, <1>2, <1>3, <1>4, <1>5, <1>6 DEF IInv

\* Every step keeps the invariant.
LEMMA InvNext == IInv /\ [Next]_vars => IInv'
<1> SUFFICES ASSUME IInv, [Next]_vars PROVE IInv'
  OBVIOUS
<1>1. ASSUME NEW c \in Calls, NEW o \in Submissions, Submit(c, o) PROVE IInv'
  <2>1. RequestOK(c, o)
    BY RequestsAssumption, NamesAssumption DEF RequestOK
  <2> QED BY <1>1, <2>1, AuthenticateKeeps DEF Submit, Threads
<1>2. ASSUME NEW c \in Calls, NEW o \in Untracked, Submit(c, OwnId(c, o)) PROVE IInv'
  <2>1. RequestOK(c, OwnId(c, o))
    BY RequestsAssumption, NamesAssumption DEF RequestOK, OwnId
  <2> QED BY <1>2, <2>1, AuthenticateKeeps DEF Submit, Threads
<1>3. ASSUME NEW c \in Calls, CallSteps(c) PROVE IInv'
  <2>1. c \in Threads
    BY DEF Threads
  <2>2. CASE Late(c, "admit")
    BY <2>1, <2>2, LateKeeps
  <2>3. CASE AdmitKnown(c)
    BY <2>3, AdmitKnownKeeps
  <2>4. CASE AdmitBusy(c)
    BY <2>1, <2>4, RefusedKeeps
  <2>5. CASE AdmitNew(c)
    BY <2>5, AdmitNewKeeps
  <2>6. CASE Begin(c)
    BY <2>6, StartKeeps DEF Begin
  <2>7. CASE AtBoundary(c)
    BY <2>7, StartKeeps DEF AtBoundary
  <2>8. CASE EnterBinds(c)
    BY <2>8, EnterBindsKeeps
  <2>9. CASE Works(c)
    BY <2>9, WorksKeeps
  <2>10. CASE Finish(c)
    BY <2>10, FinishKeeps
  <2>11. CASE RemoveLegacy(c)
    BY <2>11, RemoveLegacyKeeps
  <2> QED BY <1>3, <2>2, <2>3, <2>4, <2>5, <2>6, <2>7, <2>8, <2>9, <2>10, <2>11
      DEF CallSteps, Works
<1>4. ASSUME NEW x \in Inquiries, NEW o \in Questions, Inquire(x, o) PROVE IInv'
  <2>1. RequestOK(x, o) /\ x \notin Calls
    BY RequestsAssumption, NamesAssumption DEF RequestOK
  <2> QED BY <1>4, <2>1, AuthenticateKeeps DEF Inquire, Threads
<1>5. ASSUME NEW x \in Inquiries, InquirySteps(x) PROVE IInv'
  <2>1. x \in Threads
    BY DEF Threads
  <2>2. CASE Late(x, "look")
    BY <2>1, <2>2, LateKeeps
  <2>3. CASE LookKnown(x)
    BY <2>3, LookKnownKeeps
  <2>4. CASE LookTombstone(x)
    BY <2>4, LookTombstoneKeeps
  <2>5. CASE LookNothing(x)
    BY <2>1, <2>5, RefusedKeeps
  <2>6. CASE Mark(x)
    BY <2>6, MarkKeeps
  <2>7. CASE AwaitEnds(x)
    BY <2>7, AwaitEndsKeeps
  <2>8. CASE WithdrawAccess(x)
    BY <2>8, WithdrawAccessKeeps
  <2>9. CASE GiveReceipt(x)
    BY <2>9, GiveReceiptKeeps
  <2> QED BY <1>5, <2>2, <2>3, <2>4, <2>5, <2>6, <2>7, <2>8, <2>9
      DEF InquirySteps
<1>6. CASE UNCHANGED vars
  BY <1>6, StutterKeeps
<1> QED BY <1>1, <1>2, <1>3, <1>4, <1>5, <1>6, SessionEndsKeeps,
           SessionClearedKeeps, UnlockKeeps, GetsOldKeeps DEF Next

\* The invariant holds in every state of every behaviour of the broker.
THEOREM Invariant == Spec => []IInv
<1> QED BY InvInit, InvNext, PTL DEF Spec

\* Every variable keeps its type.
THEOREM TypeCorrect == Spec => []TypeOK
<1>1. IInv => TypeOK
  BY DEF IInv
<1> QED BY <1>1, Invariant, PTL

\* While a record is kept, no second submission of its operation starts
\* (Operations::begin, the lookup by key and by ID).
THEOREM RunsOnceCorrect == Spec => []RunsOnce
<1>1. IInv => RunsOnce
  <2> SUFFICES ASSUME IInv, NEW c \in Calls, NEW d \in Calls, c # d,
                      control[c].started, control[d].started,
                      SameOperation(c, d)
               PROVE  "old" \in {control[c].finished, control[d].finished}
    BY DEF RunsOnce
  <2>1. c \in Threads /\ d \in Threads /\ Issued(c) /\ Issued(d) /\ Same(c, d)
    BY DEF Threads, Issued, Same, SameOperation
  <2> QED BY <2>1 DEF IInv, Alone
<1> QED BY <1>1, Invariant, PTL

\* A call that was cancelled before its effect never has one, whoever says so
\* (start_effect, receipt, and the tombstone of cancel).
THEOREM CancelledNeverRunsCorrect == Spec => []CancelledNeverRuns
<1>1. IInv => CancelledNeverRuns
  <2> SUFFICES ASSUME IInv PROVE CancelledNeverRuns
    OBVIOUS
  <2>1. \A c \in Calls : c \in effects => control[c].started
    BY DEF IInv, CallOK
  <2>2. effects \subseteq Calls
    BY DEF IInv, TypeOK
  <2>3. \A c \in Calls : pc[c] = "done" /\ told[c].what = "cancelled" => c \notin effects
    BY DEF IInv, CallOK
  <2>4. \A t \in Threads : CancelTold(t) => Target(t) \notin effects
    BY <2>1, <2>2 DEF IInv, ThreadOK
  <2>5. ASSUME NEW x \in Inquiries, NEW c \in Calls,
               CancelTold(x), Target(x) = x,
               scope[c] = scope[x], op[c].id = op[x].id, c \in effects
        PROVE  "old" \in {control[x].finished, control[c].finished}
    <3>1. x \in Threads /\ c \in Threads /\ x # c /\ x \notin Calls
      BY NamesAssumption DEF Threads
    <3>2. Issued(x) /\ Issued(c)
      BY <2>1, <2>5, <3>1 DEF IInv, InquiryOK, CancelTold, Issued
    <3> QED BY <2>5, <3>1, <3>2 DEF IInv, Alone, Same
  <2> QED BY <2>3, <2>4, <2>5 DEF CancelledNeverRuns
<1> QED BY <1>1, Invariant, PTL

\* A session that ended leaves no record and no outcome (clear_records, and
\* complete after it).
THEOREM SessionErasedCorrect == Spec => []SessionErased
<1>1. IInv => SessionErased
  BY DEF IInv, SessionErased, RecordsOK, VaultOK, ThreadOK, TypeOK
<1> QED BY <1>1, Invariant, PTL

\* A cancelled operation leaves no access request open (bind_access, cancel).
THEOREM AccessWithdrawnCorrect == Spec => []AccessWithdrawn
<1>1. IInv => AccessWithdrawn
  BY DEF IInv
<1> QED BY <1>1, Invariant, PTL

\* Only a start marks the effect of a call as started.
LEMMA StartedBy ==
  ASSUME IInv, Next, NEW c \in Calls, control'[c].started, ~control[c].started
  PROVE  Begin(c) \/ AtBoundary(c)
<1>1. /\ control \in [Threads -> ControlType] /\ control[c] \in ControlType
      /\ c \in Threads
  BY DEF IInv, TypeOK, ControlType, Threads
<1>2. CASE \E d \in Calls : Begin(d) \/ AtBoundary(d)
  BY <1>1, <1>2 DEF Begin, AtBoundary, Start
<1>3. CASE \E d \in Calls :
             \/ EnterBinds(d) \/ Finish(d) \/ Works(d) \/ Late(d, "admit")
             \/ AdmitKnown(d) \/ AdmitBusy(d) \/ AdmitNew(d) \/ RemoveLegacy(d)
  BY <1>1, <1>3
  DEF ControlType, EnterBinds, Finish, Works, EnterLocked, EnterChanges, EnterUse,
      WaitEnds, Effect, GivesUp, Late, AdmitKnown, AdmitBusy, AdmitNew, RemoveLegacy
<1>4. CASE \E x \in Inquiries : InquirySteps(x)
  BY <1>1, <1>4
  DEF ControlType, InquirySteps, Late, LookKnown, LookTombstone, LookNothing, Mark,
      AwaitEnds, WithdrawAccess, GiveReceipt
<1>5. control' = Cleared => control'[c].started = control[c].started
  <2>1. Cleared[c] \in {control[c], [control[c] EXCEPT !.cancelled = TRUE,
                                                     !.invalidated = TRUE,
                                                     !.outcome = "none"]}
    BY <1>1 DEF Cleared
  <2> QED BY <1>1, <2>1 DEF ControlType
<1>6. CASE \E t \in Threads, next \in {"admit", "look"} : \E o : Authenticate(t, o, next)
  BY <1>5, <1>6 DEF Authenticate, ClearRecords
<1>7. CASE SessionEnds \/ SessionCleared \/ Unlock \/ \E k \in Threads : GetsOld(k)
  BY <1>1, <1>5, <1>7
  DEF ControlType, SessionEnds, SessionCleared, ClearRecords, Unlock, GetsOld
<1> QED BY <1>2, <1>3, <1>4, <1>6, <1>7
    DEF Next, CallSteps, Works, Submit, Inquire, Threads

\* An operation of a session that ended starts no effect (start_effect after
\* clear_records).
THEOREM NoStartAfterSessionCorrect == Spec => NoStartAfterSession
<1>1. IInv /\ [Next]_vars =>
        [\A c \in Calls :
           control'[c].started /\ ~control[c].started =>
             vault.phase # "locked" /\ vault.epoch = scope[c].epoch]_vars
  <2> SUFFICES ASSUME IInv, Next, NEW c \in Calls,
                      control'[c].started, ~control[c].started
               PROVE  vault.phase # "locked" /\ vault.epoch = scope[c].epoch
    BY DEF vars
  <2>1. Begin(c) \/ AtBoundary(c)
    BY StartedBy
  <2>2. Running(c) /\ ~control[c].invalidated
    BY <2>1 DEF Begin, AtBoundary, Start, MayStart, Running, Reply
  <2> QED BY <2>2 DEF IInv, CallOK, Current
<1> QED BY <1>1, Invariant, PTL DEF NoStartAfterSession, Spec

(***************************************************************************)
(* How many operations run.  Every call that runs in the session has an    *)
(* active record of its own, and the active records are bounded when one   *)
(* is added.                                                               *)
(***************************************************************************)

Counted ==
  /\ IsFiniteSet(DOMAIN records)
  /\ Cardinality(Active(records)) <= MaxActive
  /\ \A s \in Scopes :
       Cardinality(Active(records) \cap OfScope(records, s)) <= MaxAgentActive

\* Few records stay few.
LEMMA CountedShrinks ==
  ASSUME Counted, IsFiniteSet(DOMAIN records'),
         Active(records)' \subseteq Active(records),
         \A id \in Active(records)' : records'[id].scope = records[id].scope
  PROVE  Counted'
<1>1. IsFiniteSet(Active(records))
  BY FS_Subset DEF Counted, Active
<1>2. IsFiniteSet(Active(records)')
  BY <1>1, FS_Subset
<1>3. Cardinality(Active(records)') <= MaxActive
  <2>1. Cardinality(Active(records)') <= Cardinality(Active(records))
    BY <1>1, FS_Subset
  <2> QED BY <1>1, <1>2, <2>1, FS_CardinalityType, LimitsAssumption DEF Counted
<1>4. ASSUME NEW s \in Scopes
      PROVE  Cardinality(Active(records)' \cap OfScope(records', s)) <= MaxAgentActive
  <2> DEFINE S == Active(records) \cap OfScope(records, s)
             T == Active(records)' \cap OfScope(records', s)
  <2>1. T \subseteq S
    BY DEF OfScope, Active
  <2>2. IsFiniteSet(S) /\ Cardinality(S) <= MaxAgentActive
    BY <1>1, FS_Subset DEF Counted
  <2> HIDE DEF S, T
  <2>3. IsFiniteSet(T) /\ Cardinality(T) <= Cardinality(S)
    BY <2>1, <2>2, FS_Subset
  <2>4. Cardinality(T) <= MaxAgentActive
    BY <2>2, <2>3, FS_CardinalityType, LimitsAssumption
  <2> QED BY <2>4 DEF T
<1> QED BY <1>3, <1>4 DEF Counted

\* In most steps no record is added, and no operation becomes active.
LEMMA CountedKeeps ==
  ASSUME IInv, IInv', Counted, DOMAIN records' \subseteq DOMAIN records,
         \A id \in DOMAIN records' : /\ records'[id].scope = records[id].scope
                                     /\ records'[id].control = records[id].control,
         \A k \in Threads : control'[k].finished = "no" => control[k].finished = "no"
  PROVE  Counted'
<1>1. IsFiniteSet(DOMAIN records')
  BY FS_Subset DEF Counted
<1>2. \A id \in DOMAIN records : records[id].control \in Threads
  BY DEF IInv, TypeOK, Records
<1>3. Active(records)' \subseteq Active(records)
  BY <1>2 DEF Active
<1>4. \A id \in Active(records)' : records'[id].scope = records[id].scope
  BY DEF Active
<1> QED BY <1>1, <1>3, <1>4, CountedShrinks

\* One more is one more.
LEMMA AddOne ==
  ASSUME NEW S, NEW e, IsFiniteSet(S)
  PROVE  /\ IsFiniteSet(S \cup {e})
         /\ Cardinality(S \cup {e}) <= Cardinality(S) + 1
<1>1. Cardinality(S) \in Nat
  BY FS_CardinalityType
<1>2. /\ IsFiniteSet(S \cup {e})
      /\ Cardinality(S \cup {e}) =
           IF e \in S THEN Cardinality(S) ELSE Cardinality(S) + 1
  BY FS_AddElement
<1> QED BY <1>1, <1>2

\* A new call had room.
LEMMA CountedAdmitNew ==
  ASSUME IInv, Counted, NEW c \in Calls, AdmitNew(c)
  PROVE  Counted'
<1>1. TypeOK /\ pc[c] = "admit" /\ Room(c) /\ control' = control
      /\ scope[c] \in Scopes
      /\ records' = Put(Retained, op[c].id,
                        [scope |-> scope[c], fingerprint |-> op[c].kind,
                         key |-> op[c].key, control |-> c])
  BY DEF IInv, AdmitNew, ThreadOK, Threads
<1> DEFINE new == op[c].id
<1>2. /\ DOMAIN records' = DOMAIN Retained \cup {new}
      /\ \A id \in DOMAIN Retained \ {new} : records'[id] = Retained[id]
      /\ records'[new].scope = scope[c]
  BY <1>1 DEF Put
<1>3. IsFiniteSet(DOMAIN Retained) /\ IsFiniteSet(DOMAIN records')
  <2>1. DOMAIN Retained \subseteq DOMAIN records
    BY <1>1, RetainedRecords
  <2> QED BY <1>2, <2>1, FS_Subset, FS_AddElement DEF Counted
<1>4. /\ Active(Retained) = Active(records)
      /\ \A s \in Scopes : Active(Retained) \cap OfScope(Retained, s) =
                            Active(records) \cap OfScope(records, s)
  BY <1>1, RetainedRecords DEF Active, OfScope
<1>5. /\ Active(records)' \subseteq Active(Retained) \cup {new}
      /\ \A s \in Scopes :
           Active(records)' \cap OfScope(records', s)
             \subseteq IF s = scope[c]
                         THEN (Active(Retained) \cap OfScope(Retained, s)) \cup {new}
                         ELSE Active(Retained) \cap OfScope(Retained, s)
  BY <1>1, <1>2 DEF Active, OfScope
<1>6. IsFiniteSet(Active(Retained))
  BY <1>3, FS_Subset DEF Active
<1>7. Cardinality(Active(records)') <= MaxActive
  <2>1. /\ IsFiniteSet(Active(Retained) \cup {new})
        /\ Cardinality(Active(Retained) \cup {new}) <= Cardinality(Active(Retained)) + 1
    BY <1>6, AddOne
  <2>2. /\ IsFiniteSet(Active(records)')
        /\ Cardinality(Active(records)') <= Cardinality(Active(Retained) \cup {new})
    BY <1>5, <2>1, FS_Subset
  <2>3. Cardinality(Active(Retained)) < MaxActive
    BY <1>1 DEF Room
  <2> QED BY <1>6, <2>1, <2>2, <2>3, FS_CardinalityType, LimitsAssumption
<1>8. ASSUME NEW s \in Scopes
      PROVE  Cardinality(Active(records)' \cap OfScope(records', s)) <= MaxAgentActive
  <2> DEFINE S == Active(Retained) \cap OfScope(Retained, s)
             T == Active(records)' \cap OfScope(records', s)
  <2>1. IsFiniteSet(S)
    BY <1>6, FS_Subset
  <2>2. T \subseteq IF s = scope[c] THEN S \cup {new} ELSE S
    BY <1>5
  <2>3. s = scope[c] => Cardinality(S) < MaxAgentActive
    BY <1>1 DEF Room
  <2>4. Cardinality(S) <= MaxAgentActive
    BY <1>4 DEF Counted
  <2> HIDE DEF S, T
  <2>5. IsFiniteSet(S \cup {new}) /\ Cardinality(S \cup {new}) <= Cardinality(S) + 1
    BY <2>1, AddOne
  <2>6. CASE s = scope[c]
    <3>1. IsFiniteSet(T) /\ Cardinality(T) <= Cardinality(S \cup {new})
      BY <2>2, <2>5, <2>6, FS_Subset
    <3>2. Cardinality(T) <= MaxAgentActive
      BY <2>1, <2>3, <2>5, <2>6, <3>1, FS_CardinalityType, LimitsAssumption
    <3> QED BY <3>2 DEF T
  <2>7. CASE s # scope[c]
    <3>1. IsFiniteSet(T) /\ Cardinality(T) <= Cardinality(S)
      BY <2>1, <2>2, <2>7, FS_Subset
    <3>2. Cardinality(T) <= MaxAgentActive
      BY <2>1, <2>4, <3>1, FS_CardinalityType, LimitsAssumption
    <3> QED BY <3>2 DEF T
  <2> QED BY <2>6, <2>7
<1> QED BY <1>3, <1>7, <1>8 DEF Counted

\* A tombstone is not active.
LEMMA CountedTombstone ==
  ASSUME IInv, Counted, NEW x \in Inquiries, LookTombstone(x)
  PROVE  Counted'
<1>1. TypeOK /\ x \in Threads
  BY DEF IInv, Threads
<1> DEFINE new == op[x].id
           r == [scope |-> scope[x], fingerprint |-> "unknown", key |-> NoKey,
                 control |-> x]
<1>2. /\ records' = Put(Retained, new, r) /\ r.control = x
      /\ control' = [control EXCEPT ![x].cancelled = TRUE,
                                    ![x].finished = "yes",
                                    ![x].outcome = "cancelled"]
  BY DEF LookTombstone
<1>3. /\ control'[x].finished = "yes"
      /\ \A k \in Threads \ {x} : control'[k] = control[k]
  <2>1. control \in [Threads -> ControlType] /\ control[x] \in ControlType
    BY <1>1 DEF TypeOK, ControlType
  <2>2. control' = [control EXCEPT ![x] =
           [control[x] EXCEPT !.cancelled = TRUE, !.finished = "yes",
                              !.outcome = "cancelled"]]
    BY <1>2
  <2> QED BY <1>1, <2>1, <2>2 DEF ControlType
<1> HIDE DEF r
<1>4. /\ DOMAIN records' = DOMAIN Retained \cup {new}
      /\ records'[new] = r
      /\ \A id \in DOMAIN Retained \ {new} :
           /\ records'[id] = Retained[id] /\ Retained[id].control \in Threads
           /\ Retained[id] = records[id] /\ id \in DOMAIN records
  <2>1. \A id \in DOMAIN Retained :
          /\ Retained[id] = records[id] /\ id \in DOMAIN records
          /\ Retained[id].control \in Threads
    BY <1>1, RetainedRecords DEF Records
  <2> QED BY <1>2, <2>1 DEF Put
<1>5. IsFiniteSet(DOMAIN records')
  <2>1. DOMAIN Retained \subseteq DOMAIN records
    BY <1>1, RetainedRecords
  <2> QED BY <1>4, <2>1, FS_Subset, FS_AddElement DEF Counted
<1>6. ASSUME NEW id \in Active(records)'
      PROVE  id \in Active(records) /\ records'[id].scope = records[id].scope
  <2>1. id \in DOMAIN records' /\ control'[records'[id].control].finished = "no"
    BY DEF Active
  <2>2. id # new
    BY <1>2, <1>3, <1>4, <2>1
  <2>3. /\ records'[id] = records[id] /\ id \in DOMAIN records
        /\ records[id].control \in Threads
    BY <1>4, <2>1, <2>2
  <2>4. control[records[id].control].finished = "no"
    BY <1>3, <2>1, <2>3
  <2> QED BY <2>3, <2>4 DEF Active
<1> QED BY <1>5, <1>6, CountedShrinks

\* The steps that only drop records, or none.
Quiet ==
  /\ DOMAIN records' \subseteq DOMAIN records
  /\ \A id \in DOMAIN records' : /\ records'[id].scope = records[id].scope
                                 /\ records'[id].control = records[id].control
  /\ \A k \in Threads : control'[k].finished = "no" => control[k].finished = "no"

\* A step of a call that is not its admission.
LEMMA QuietCall ==
  ASSUME IInv, NEW c \in Calls, CallSteps(c), ~AdmitNew(c)
  PROVE  Quiet
<1>1. /\ TypeOK /\ control \in [Threads -> ControlType] /\ c \in Threads
      /\ control[c] \in ControlType
  BY DEF IInv, TypeOK, ControlType, Threads
<1>2. CASE records' = records /\ control' = control
  BY <1>2 DEF Quiet
<1>3. CASE \E at, next \in {"begin", "enter", "boundary", "effect"} : Start(c, at, next)
  BY <1>1, <1>3 DEF Quiet, Start, ControlType
<1>4. CASE EnterBinds(c) \/ Works(c) \/ Finish(c)
  <2>1. records' = records
    BY <1>4 DEF EnterBinds, Works, EnterLocked, EnterChanges, EnterUse,
                WaitEnds, Effect, GivesUp, Finish
  <2>2. \A k \in Threads : control'[k].finished = "no" => control[k].finished = "no"
    BY <1>1, <1>4
    DEF EnterBinds, Works, EnterLocked, EnterChanges, EnterUse, WaitEnds, Effect,
        GivesUp, Finish, ControlType
  <2> QED BY <2>1, <2>2 DEF Quiet
<1>5. CASE records' = Retained /\ control' = control
  BY <1>1, <1>5, RetainedRecords DEF Quiet
<1>6. CASE AdmitKnown(c)
  <2>1. control' = control
    BY <1>6 DEF AdmitKnown
  <2>2. CASE records' = Retained
    BY <1>5, <2>1, <2>2
  <2>3. CASE records' # Retained
    <3>1. PICK id \in Known(c) :
            records' = [Retained EXCEPT ![id].fingerprint = op[c].kind,
                                        ![id].key = op[c].key]
      BY <1>6, <2>3 DEF AdmitKnown
    <3>2. id \in DOMAIN Retained /\ Retained[id] \in Records
      BY <1>1, RetainedRecords DEF Known, OfScope
    <3>3. records' = [Retained EXCEPT ![id] =
            [Retained[id] EXCEPT !.fingerprint = op[c].kind, !.key = op[c].key]]
      BY <3>1
    <3>4. /\ DOMAIN records' = DOMAIN Retained
          /\ \A i \in DOMAIN records' : /\ records'[i].scope = Retained[i].scope
                                        /\ records'[i].control = Retained[i].control
      BY <3>2, <3>3 DEF Records
    <3> QED BY <1>1, <2>1, <3>4, RetainedRecords DEF Quiet
  <2> QED BY <2>2, <2>3
<1>7. CASE RemoveLegacy(c)
  BY <1>7 DEF RemoveLegacy, Restrict, Quiet
<1>8. Late(c, "admit") => records' = records /\ control' = control
  BY DEF Late
<1>9. AdmitBusy(c) => records' = Retained /\ control' = control
  BY DEF AdmitBusy
<1>10. Begin(c) \/ AtBoundary(c) =>
         \E at, next \in {"begin", "enter", "boundary", "effect"} : Start(c, at, next)
  BY DEF Begin, AtBoundary
<1> QED BY <1>2, <1>3, <1>4, <1>5, <1>6, <1>7, <1>8, <1>9, <1>10
    DEF CallSteps, Works

\* A step of an inquiry that leaves no tombstone.
LEMMA QuietInquiry ==
  ASSUME IInv, NEW x \in Inquiries, InquirySteps(x), ~LookTombstone(x)
  PROVE  Quiet
<1>1. TypeOK /\ control \in [Threads -> ControlType]
  BY DEF IInv, TypeOK, ControlType
<1>2. CASE records' = records /\ control' = control
  BY <1>2 DEF Quiet
<1>3. CASE records' = Retained /\ control' = control
  BY <1>1, <1>3, RetainedRecords DEF Quiet
<1>4. CASE Mark(x)
  BY <1>1, <1>4 DEF Mark, Quiet, ControlType
<1>5. Late(x, "look") \/ AwaitEnds(x) \/ WithdrawAccess(x) \/ GiveReceipt(x) =>
        records' = records /\ control' = control
  BY DEF Late, AwaitEnds, WithdrawAccess, GiveReceipt
<1>6. LookKnown(x) \/ LookNothing(x) => records' = Retained /\ control' = control
  BY DEF LookKnown, LookNothing
<1> QED BY <1>2, <1>3, <1>4, <1>5, <1>6 DEF InquirySteps

\* A step of the vault, of time, or an authentication.
LEMMA QuietRest ==
  ASSUME IInv,
         \/ SessionEnds \/ SessionCleared \/ Unlock \/ (\E k \in Threads : GetsOld(k))
         \/ (\E t \in Threads, next \in {"admit", "look"} : \E o : Authenticate(t, o, next))
         \/ UNCHANGED vars
  PROVE  Quiet
<1>1. TypeOK /\ control \in [Threads -> ControlType]
  BY DEF IInv, TypeOK, ControlType
<1>2. CASE records' = records /\ control' = control
  BY <1>2 DEF Quiet
<1>3. CASE ClearRecords
  <2>1. ASSUME NEW k \in Threads PROVE control'[k].finished = control[k].finished
    <3>1. control'[k] \in {control[k], [control[k] EXCEPT !.cancelled = TRUE,
                                                          !.invalidated = TRUE,
                                                          !.outcome = "none"]}
      BY <1>3 DEF ClearRecords, Cleared
    <3> QED BY <1>1, <3>1 DEF ControlType
  <2>2. DOMAIN records' = {}
    BY <1>3 DEF ClearRecords
  <2> QED BY <2>1, <2>2 DEF Quiet
<1>4. CASE \E k \in Threads : GetsOld(k)
  BY <1>1, <1>4 DEF GetsOld, Quiet, ControlType
<1>5. SessionEnds \/ Unlock \/ UNCHANGED vars => records' = records /\ control' = control
  BY DEF SessionEnds, Unlock, vars
<1>6. SessionCleared => ClearRecords
  BY DEF SessionCleared
<1>7. (\E t \in Threads, next \in {"admit", "look"} : \E o : Authenticate(t, o, next)) =>
        ClearRecords \/ (records' = records /\ control' = control)
  BY DEF Authenticate
<1> QED BY <1>2, <1>3, <1>4, <1>5, <1>6, <1>7

\* The active records stay bounded.
LEMMA CountedNext == IInv /\ IInv' /\ Counted /\ [Next]_vars => Counted'
<1> SUFFICES ASSUME IInv, IInv', Counted, [Next]_vars PROVE Counted'
  OBVIOUS
<1>1. CASE Quiet
  BY <1>1, CountedKeeps DEF Quiet
<1>2. CASE \E c \in Calls : AdmitNew(c)
  BY <1>2, CountedAdmitNew
<1>3. CASE \E x \in Inquiries : LookTombstone(x)
  BY <1>3, CountedTombstone
<1>4. CASE \E c \in Calls : CallSteps(c) /\ ~AdmitNew(c)
  BY <1>1, <1>4, QuietCall
<1>5. CASE \E x \in Inquiries : InquirySteps(x) /\ ~LookTombstone(x)
  BY <1>1, <1>5, QuietInquiry
<1>6. CASE \/ SessionEnds \/ SessionCleared \/ Unlock \/ (\E k \in Threads : GetsOld(k))
           \/ (\E t \in Threads, next \in {"admit", "look"} : \E o : Authenticate(t, o, next))
           \/ UNCHANGED vars
  BY <1>1, <1>6, QuietRest
<1> QED BY <1>2, <1>3, <1>4, <1>5, <1>6 DEF Next, Submit, Inquire, Threads

\* MAX_ACTIVE and MAX_AGENT_ACTIVE bound the calls that run (Operations::begin).
THEOREM ActiveBoundCorrect == Spec => []ActiveBound
<1>1. Init => Counted
  <2> SUFFICES ASSUME Init PROVE Counted
    OBVIOUS
  <2>1. DOMAIN records = {} /\ Active(records) = {}
    BY DEF Init, Active
  <2>2. \A s \in Scopes : Active(records) \cap OfScope(records, s) = {}
    BY <2>1
  <2> QED BY <2>1, <2>2, FS_EmptySet, LimitsAssumption DEF Counted
<1>2. IInv /\ Counted => ActiveBound
  <2> SUFFICES ASSUME IInv, Counted, vault.phase = "open" PROVE ActiveBound
    BY DEF ActiveBound
  <2> DEFINE R == {c \in Calls : Running(c) /\ scope[c].epoch = vault.epoch}
             A == Active(records)
             f == [c \in R |-> op[c].id]
  <2>1. ASSUME NEW c \in R
        PROVE  /\ f[c] \in A /\ records[f[c]].control = c
               /\ records[f[c]].scope = scope[c] /\ scope[c] \in Scopes
               /\ scope[c].epoch = vault.epoch
    <3>1. c \in Threads /\ Issued(c) /\ Current(c) /\ ~Removed(c)
          /\ control[c].finished = "no" /\ scope[c] \in Scopes
      BY <2>1 DEF Threads, Issued, Current, Removed, Running, IInv, CallOK, ThreadOK
    <3>2. HasRecord(c)
      BY <3>1 DEF IInv, Kept
    <3> QED BY <2>1, <3>1, <3>2 DEF HasRecord, Active
  <2>2. IsFiniteSet(A)
    BY FS_Subset DEF Counted, Active
  <2> HIDE DEF A
  <2>3. Cardinality(R) <= MaxActive
    <3>1. f \in Injection(R, A)
      BY <2>1 DEF Injection, IsInjective
    <3> HIDE DEF R, f
    <3>2. IsFiniteSet(R) /\ Cardinality(R) <= Cardinality(A)
      BY <2>2, <3>1, FS_Injection
    <3>3. Cardinality(A) <= MaxActive
      BY DEF Counted, A
    <3> QED BY <2>2, <3>2, <3>3, FS_CardinalityType, LimitsAssumption
  <2>4. ASSUME NEW a \in Agents
        PROVE  Cardinality({c \in R : scope[c].agent = a}) <= MaxAgentActive
    <3> DEFINE s == [epoch |-> vault.epoch, agent |-> a]
               Ra == {c \in R : scope[c].agent = a}
               Aa == A \cap OfScope(records, s)
               fa == [c \in Ra |-> op[c].id]
    <3>1. s \in Scopes
      BY DEF IInv, TypeOK, Scopes
    <3>2. ASSUME NEW c \in Ra PROVE scope[c] = s /\ op[c].id \in Aa
      <4>1. /\ op[c].id \in A /\ scope[c] \in Scopes /\ scope[c].epoch = vault.epoch
            /\ records[op[c].id].scope = scope[c] /\ scope[c].agent = a
        BY <2>1
      <4>2. scope[c] = s
        BY <4>1 DEF Scopes
      <4> QED BY <4>1, <4>2 DEF OfScope, A, Active
    <3>3. fa \in Injection(Ra, Aa)
      <4>1. fa \in [Ra -> Aa]
        BY <3>2
      <4>2. \A c \in Ra : records[fa[c]].control = c
        BY <2>1
      <4>3. \A c, d \in Ra : fa[c] = fa[d] => c = d
        BY <4>2
      <4> HIDE DEF fa, Ra, Aa
      <4> QED BY <4>1, <4>3 DEF Injection, IsInjective
    <3>4. IsFiniteSet(Aa)
      BY <2>2, FS_Subset
    <3>5. Cardinality(Aa) <= MaxAgentActive
      BY <3>1 DEF Counted, A
    <3> HIDE DEF Ra, Aa, fa
    <3>6. IsFiniteSet(Ra) /\ Cardinality(Ra) <= Cardinality(Aa)
      BY <3>3, <3>4, FS_Injection
    <3>7. Cardinality(Ra) <= MaxAgentActive
      BY <3>4, <3>5, <3>6, FS_CardinalityType, LimitsAssumption
    <3> QED BY <3>7 DEF Ra
  <2> QED BY <2>3, <2>4 DEF ActiveBound
<1>3. Spec => []Counted
  <2>1. IInv /\ IInv' /\ Counted /\ [Next]_vars => Counted'
    BY CountedNext
  <2> QED BY <1>1, <2>1, Invariant, PTL DEF Spec
<1> QED BY <1>2, <1>3, Invariant, PTL
=============================================================================
