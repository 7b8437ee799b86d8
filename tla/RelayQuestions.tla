--------------------------- MODULE RelayQuestions ---------------------------
(***************************************************************************)
(* The waiting runs of a Mac as questions on the relay                     *)
(* (src/questions/worker.rs, and crates/apassy-relay/src/server/           *)
(* questions.rs for the relay).  Two threads of the worker share `asked`   *)
(* under one mutex: the poster posts the runs that wait in the queue and   *)
(* settles the questions whose runs ended; the reader takes the answers of *)
(* the devices and gives them to the queue.  Between any two of their      *)
(* steps the owner answers on the Mac, a run ends, a device answers, the   *)
(* vault locks, or a relay call is lost.                                   *)
(*                                                                         *)
(* The queue is here what the worker sees of it: a run waits, then it is   *)
(* over, once, with an end (ApprovalQueue).  A run that waits does not     *)
(* change, so its digest is the run, and a posted card is never replaced.  *)
(*                                                                         *)
(* A device sends the same signed answer again when it does not hear from  *)
(* the relay, so an answer that is signed can arrive at the relay any      *)
(* number of times, and two answers in any order.                          *)
(*                                                                         *)
(* Abstracted: the cards, envelopes, keys and signatures, the routing, the *)
(* quotas of the relay, the ten minutes and the day after which it purges  *)
(* a question, the loss of an end when 256 wait for the poster, the other  *)
(* Macs, the feed, and connect cards.                                      *)
(***************************************************************************)
EXTENDS Naturals, Sequences, FiniteSets, SequencesExt

CONSTANTS
  Runs,            \* the runs of the queue
  Devices,         \* the iPhones of the vault
  Mac,             \* this Mac
  Decisions,       \* the answers that end a question
  MaxAnswers,      \* MAX_ANSWERS_PER_DEVICE
  MaxAllAnswers,   \* MAX_ANSWERS_PER_QUESTION
  Answers,         \* what the devices can sign, for any question
  MaxTime,         \* bound: the clocks
  MaxQuestions,    \* bound: cards that are made
  MaxChanges,      \* bound: environments that the owner sets on the Mac
  MaxEpoch,        \* bound: sessions of the vault
  MaxFaults,       \* bound: relay calls that are lost or refused
  MaxSent          \* bound: answers that the relay takes

Nobody == "nobody"

ASSUME RelayQuestionsAssumption ==
  /\ Mac \notin Devices
  /\ Nobody \notin Devices \cup {Mac}
  /\ Decisions \subseteq {"approved", "denied"}
  /\ Answers \subseteq [device : Devices, time : 1..MaxTime,
                        choice : Decisions \cup {"correct"}]
  /\ {MaxAnswers, MaxAllAnswers, MaxTime, MaxQuestions, MaxChanges, MaxEpoch,
      MaxFaults, MaxSent} \subseteq Nat
  /\ MaxEpoch # 0

VARIABLES
  runs,            \* the queue: what each run is, and how it ended
  ends,            \* ... the runs whose end take_ended has not returned
  vault,           \* the vault: open or locked, its session
  declared,        \* the newest change of the environment of the credential
  active,          \* the worker: the session that it asks for, 0 without one
  asked,           \* ... the questions that it asks, by run
  localOnly,       \* ... the runs that stay on this Mac
  mark,            \* ... the last correction through the relay
  poster,          \* the poster thread
  reader,          \* the reader thread
  relay,           \* the cards by qid, with what the relay has of each
  faults,          \* how many relay calls failed
  history          \* history: the answers that counted, the time of the last
                   \* correction, the questions that the worker forgot, and
                   \* those of which a call was lost

queue == <<runs, ends>>
worker == <<active, asked, localOnly, mark>>
vars == <<runs, ends, vault, declared, active, asked, localOnly, mark, poster,
          reader, relay, faults, history>>

-----------------------------------------------------------------------------

Times == 1..MaxTime
Outcomes == Decisions \cup {"timed_out", "invalidated"}
Ends == [outcome : Outcomes, by : Devices \cup {Mac, Nobody}]
NoEnd == [outcome |-> "none", by |-> Nobody]

NotAsked == [qid |-> 0, posted |-> FALSE, last |-> 0, applying |-> FALSE,
             ended |-> FALSE, finished |-> FALSE,
             applied |-> [d \in Devices |-> 0]]

IsAsked(r) == asked[r].qid # 0

Waiting == {r \in Runs : runs[r].state = "waits"}
NoEvent == [event |-> 0, at |-> 0]

Resting == [pc |-> "runs", epoch |-> 0, snap |-> {}, got |-> {}, run |-> {},
            qid |-> 0]
NotReading == [pc |-> "idle", epoch |-> 0, run |-> {}, qid |-> 0, next |-> 0,
               upto |-> 0, open |-> TRUE, mark |-> NoEvent,
               verdict |-> "none"]

Init ==
  /\ runs = [r \in Runs |-> [state |-> "new", end |-> NoEnd]]
  /\ ends = {}
  /\ vault = [open |-> TRUE, epoch |-> 1]
  /\ declared = NoEvent
  /\ active = 0
  /\ asked = [r \in Runs |-> NotAsked]
  /\ localOnly = {}
  /\ mark = NoEvent
  /\ poster = Resting
  /\ reader = NotReading
  /\ relay = <<>>
  /\ faults = 0
  /\ history = [counted |-> {}, corrected |-> 0,
                forgotten |-> {}, lost |-> {}]

\* The vault that a thread started with: vault_of.
SameVault(epoch) == vault.open /\ vault.epoch = epoch

Fails ==
  /\ faults < MaxFaults
  /\ faults' = faults + 1

-----------------------------------------------------------------------------
(* The queue, the vault and the owner on this Mac *)

StartsToWait(r) ==
  /\ vault.open /\ runs[r].state = "new"
  /\ runs' = [runs EXCEPT ![r].state = "waits"]
  /\ UNCHANGED <<ends, vault, declared, worker, poster, reader, relay,
                 faults, history>>

\* Runs that wait are over, and the poster will hear of it: note_end.
End(over, outcome, by) ==
  /\ runs' = [r \in Runs |->
       IF r \in over
         THEN [state |-> "over", end |-> [outcome |-> outcome, by |-> by]]
         ELSE runs[r]]
  /\ ends' = ends \cup over

EndsHere(r) ==
  /\ r \in Waiting
  /\ \/ \E outcome \in Decisions :
          vault.open /\ End({r}, outcome, Mac)
     \/ \E outcome \in {"timed_out", "invalidated"} : End({r}, outcome, Nobody)
  /\ UNCHANGED <<vault, declared, worker, poster, reader, relay,
                 faults, history>>

\* Another way than a correction through the relay.  The clock of the Mac and
\* those of the devices differ.
ChangesEnvironment ==
  /\ vault.open /\ declared.event < MaxChanges
  /\ \E t \in Times :
       declared' = [event |-> declared.event + 1, at |-> t]
  /\ history' = [history EXCEPT !.corrected = 0]
  /\ UNCHANGED <<queue, vault, worker, poster, reader, relay, faults>>

Lock ==
  /\ vault.open
  /\ vault' = [vault EXCEPT !.open = FALSE]
  /\ End(Waiting, "invalidated", Nobody)
  /\ UNCHANGED <<declared, worker, poster, reader, relay, faults,
                 history>>

Unlock ==
  /\ ~vault.open /\ vault.epoch < MaxEpoch
  /\ vault' = [open |-> TRUE, epoch |-> vault.epoch + 1]
  /\ UNCHANGED <<queue, declared, worker, poster, reader, relay,
                 faults, history>>

-----------------------------------------------------------------------------
(* The relay and the devices *)

Settles(q, settle) ==
  IF relay[q].state = "open"
    THEN [relay EXCEPT ![q].state = "settled", ![q].settle = settle]
    ELSE relay

Expires(q) ==
  /\ relay[q].state = "open"
  /\ relay' = [relay EXCEPT ![q].state = "expired"]
  /\ UNCHANGED <<queue, vault, declared, worker, poster, reader,
                 faults, history>>

OfDevice(q, d) ==
  {i \in DOMAIN relay[q].answers : relay[q].answers[i].device = d}

Sent == FoldLeft(LAMBDA sent, card : sent + Len(card.answers), 0, relay)

\* The relay stamps an answer and stores it: one that a device signed now, or
\* before, and perhaps one that it has already.
TakesAnswer(q, a) ==
  /\ relay[q].state = "open"
  /\ Cardinality(OfDevice(q, a.device)) < MaxAnswers
  /\ Len(relay[q].answers) < MaxAllAnswers
  /\ Sent < MaxSent
  /\ relay' = [relay EXCEPT ![q].answers = Append(@, a)]
  /\ UNCHANGED <<queue, vault, declared, worker, poster, reader, faults,
                 history>>

-----------------------------------------------------------------------------
(* The session of the worker *)

\* Drop the questions without a settle: they expire on the relay.
DropAsked ==
  /\ asked' = [r \in Runs |-> NotAsked]
  /\ localOnly' = {}
  /\ history' = [history EXCEPT
       !.forgotten = @ \cup {asked[r].qid : r \in {s \in Runs : IsAsked(s)}},
       !.counted = {}, !.corrected = 0]

ForgetSession ==
  /\ active' = 0
  /\ mark' = NoEvent
  /\ DropAsked

\* The window, when the vault locks.
Forget ==
  /\ ~vault.open /\ active # 0
  /\ ForgetSession
  /\ UNCHANGED <<queue, vault, declared, poster, reader, relay, faults>>

-----------------------------------------------------------------------------
(* The poster *)

PosterAt(pc) == poster.pc = pc

\* A turn of the poster, after the last one.
ReadsPending ==
  /\ PosterAt("runs") /\ poster.snap = {}
  /\ poster' = [Resting EXCEPT !.pc = "take", !.snap = Waiting]
  /\ UNCHANGED <<queue, vault, declared, worker, reader, relay,
                 faults, history>>

TakesEnded ==
  /\ PosterAt("take")
  /\ poster' = [poster EXCEPT !.pc = "session", !.got = ends, !.snap = @ \ ends]
  /\ ends' = {}
  /\ UNCHANGED <<runs, vault, declared, worker, reader, relay, faults,
                 history>>

\* The same session, or a new one.
FindsSession ==
  /\ PosterAt("session")
  /\ vault.open
  /\ poster' = [poster EXCEPT !.pc = "ends", !.epoch = vault.epoch]
  /\ active' = vault.epoch
  /\ IF active = vault.epoch
       THEN UNCHANGED <<asked, localOnly, history>>
       ELSE DropAsked
  /\ UNCHANGED <<queue, vault, declared, mark, reader, relay, faults>>

\* The vault is locked, or the membership of this Mac cannot be found.
FindsNoSession ==
  /\ PosterAt("session")
  /\ \/ ~vault.open /\ UNCHANGED faults
     \/ vault.open /\ Fails
  /\ poster' = Resting
  /\ IF active # 0 THEN ForgetSession ELSE UNCHANGED <<worker, history>>
  /\ UNCHANGED <<queue, vault, declared, reader, relay>>

\* Post settles, by qid, best effort: with the client of another session, when
\* the call is lost, or before the card, the questions stay as they are.
SendSettle(epoch, q, settle) ==
  \/ /\ epoch = active /\ relay[q].state # "unposted"
     /\ relay' = Settles(q, settle)
     /\ UNCHANGED <<faults, history>>
  \/ /\ \/ (epoch # active \/ relay[q].state = "unposted") /\ UNCHANGED faults
        \/ Fails
     /\ history' = [history EXCEPT !.lost = @ \cup {q}]
     /\ UNCHANGED relay

\* An end on this Mac: settle_local names this Mac.
LocalSettle(r) ==
  [outcome |-> runs[r].end.outcome,
   by |-> IF runs[r].end.outcome \in Decisions THEN Mac ELSE Nobody]

\* The question of r goes, and is settled when it was posted.
SettleLocal(epoch, r) ==
  /\ asked' = [asked EXCEPT ![r] = NotAsked]
  /\ IF asked[r].posted
       THEN SendSettle(epoch, asked[r].qid, LocalSettle(r))
       ELSE UNCHANGED <<relay, faults, history>>

HandlesEnd(r) ==
  /\ PosterAt("ends") /\ r \in poster.got
  /\ localOnly' = localOnly \ {r}
  /\ CASE ~IsAsked(r) -> UNCHANGED <<asked, relay, faults, history>>
       [] IsAsked(r) /\ asked[r].applying ->
            /\ asked' = [asked EXCEPT ![r].ended = TRUE]
            /\ UNCHANGED <<relay, faults, history>>
       [] IsAsked(r) /\ ~asked[r].applying -> SettleLocal(poster.epoch, r)
  /\ poster' = [poster EXCEPT !.got = @ \ {r}]
  /\ UNCHANGED <<queue, vault, declared, active, mark, reader>>

\* Mutant of Gone: also while the reader applies an answer.
GoneAnyway == {r \in Runs \ poster.snap : IsAsked(r)}

\* The questions whose run no longer waits, without an end.
Gone == {r \in Runs \ poster.snap : IsAsked(r) /\ ~asked[r].applying}

\* One after the other.
DropsGone ==
  /\ PosterAt("ends") /\ poster.got = {}
  /\ localOnly' = localOnly \cap poster.snap
  /\ IF Gone = {}
       THEN /\ poster' = [poster EXCEPT !.pc = "runs"]
            /\ UNCHANGED <<asked, relay, faults, history>>
       ELSE \E r \in Gone :
            /\ asked' = [asked EXCEPT ![r] = NotAsked]
            /\ IF asked[r].posted
                 THEN SendSettle(poster.epoch, asked[r].qid,
                                 [outcome |-> "invalidated", by |-> Nobody])
                 ELSE UNCHANGED <<relay, faults, history>>
            /\ UNCHANGED poster
  /\ UNCHANGED <<queue, vault, declared, active, mark, reader>>

\* The poster turns to the run r of its snapshot.
Turns(r) ==
  /\ PosterAt("runs") /\ r \in poster.snap
  /\ UNCHANGED <<queue, vault, declared, active, mark, reader, faults,
                 history>>

\* Posted before, or it stays here.
Skips(r) ==
  /\ Turns(r)
  /\ r \in localOnly \/ asked[r].posted \/ asked[r].applying
     \/ (~IsAsked(r) /\ ~SameVault(poster.epoch))
  /\ poster' = [poster EXCEPT !.snap = @ \ {r}]
  /\ UNCHANGED <<asked, localOnly, relay>>

\* Its card is too long, ends too soon, or may not leave this Mac.
KeepsLocal(r) ==
  /\ Turns(r)
  /\ r \notin localOnly /\ ~IsAsked(r)
  /\ localOnly' = localOnly \cup {r}
  /\ poster' = [poster EXCEPT !.snap = @ \ {r}]
  /\ UNCHANGED <<asked, relay>>

\* A new card.  The snapshot says that the run waits.
Asks(r) ==
  /\ Turns(r)
  /\ r \notin localOnly /\ ~IsAsked(r)
  /\ SameVault(poster.epoch)
  /\ Len(relay) < MaxQuestions
  /\ relay' = Append(relay, [run |-> r, state |-> "unposted", settle |-> NoEnd,
                             answers |-> <<>>])
  /\ asked' = [asked EXCEPT ![r] = [NotAsked EXCEPT !.qid = Len(relay')]]
  /\ poster' = [poster EXCEPT !.pc = "post", !.snap = @ \ {r}, !.run = {r},
                              !.qid = Len(relay')]
  /\ UNCHANGED localOnly

Retries(r) ==
  /\ Turns(r)
  /\ r \notin localOnly /\ IsAsked(r) /\ ~asked[r].posted
  /\ poster' = [poster EXCEPT !.pc = "post", !.snap = @ \ {r}, !.run = {r},
                              !.qid = asked[r].qid]
  /\ UNCHANGED <<asked, localOnly, relay>>

\* The card is on the relay; a card that was there before is a conflict.
Lands(q) ==
  IF relay[q].state = "unposted"
    THEN [relay EXCEPT ![q].state = "open"]
    ELSE relay

Posting(r) ==
  /\ PosterAt("post") /\ r \in poster.run
  /\ poster' = [poster EXCEPT !.pc = "runs", !.run = {},
                              !.qid = 0]
  /\ UNCHANGED <<queue, vault, declared, active, mark, reader>>

Posts(r) ==
  /\ Posting(r)
  /\ IsAsked(r) /\ active = poster.epoch
  /\ relay' = Lands(poster.qid)
  /\ asked' = [asked EXCEPT ![r].posted = TRUE]
  /\ history' = [history EXCEPT !.lost = @ \ {poster.qid}]
  /\ UNCHANGED <<localOnly, faults>>

\* Mutant of PostBreaks: a call without an answer counts as posted.
PostBreaksPosted(r) ==
  /\ Posting(r)
  /\ IsAsked(r) /\ active = poster.epoch
  /\ Fails
  /\ relay' \in {relay, Lands(poster.qid)}
  /\ asked' = [asked EXCEPT ![r].posted = TRUE]
  /\ UNCHANGED <<localOnly, history>>

\* No answer: the card landed, or not, and the next turn tries again.
PostBreaks(r) ==
  /\ Posting(r)
  /\ IsAsked(r) /\ active = poster.epoch
  /\ Fails
  /\ relay' \in {relay, Lands(poster.qid)}
  /\ history' = [history EXCEPT !.lost = @ \cup {poster.qid}]
  /\ UNCHANGED <<asked, localOnly>>

\* The relay takes no card of this Mac, or none now.
PostRefused(r) ==
  /\ Posting(r)
  /\ IsAsked(r) /\ active = poster.epoch
  /\ Fails
  /\ asked' = [asked EXCEPT ![r] = NotAsked]
  /\ localOnly' = localOnly \cup {r}
  /\ history' = [history EXCEPT !.forgotten = @ \cup {poster.qid}]
  /\ UNCHANGED relay

\* The session of the poster is over: its card may have landed.
PostLeft(r) ==
  /\ Posting(r)
  /\ ~IsAsked(r) \/ active # poster.epoch
  /\ relay' \in {relay, Lands(poster.qid)}
  /\ UNCHANGED <<asked, localOnly, faults, history>>

-----------------------------------------------------------------------------
(* The reader *)

ReaderAt(pc) == reader.pc = pc

\* The reader still reads the question that the worker asks for this run.
SameQuestion(r) == asked[r].qid = reader.qid

\* One poll of the answers after the last one.
Polls(r) ==
  /\ ReaderAt("idle")
  /\ active # 0
  /\ asked[r].posted /\ ~asked[r].applying /\ ~asked[r].finished
  /\ LET question == relay[asked[r].qid]
     IN  /\ Len(question.answers) > asked[r].last \/ question.state # "open"
         /\ reader' = [NotReading EXCEPT
              !.pc = "answers", !.epoch = active, !.run = {r},
              !.qid = asked[r].qid, !.next = asked[r].last + 1,
              !.upto = Len(question.answers), !.open = question.state = "open"]
  /\ UNCHANGED <<queue, vault, declared, worker, poster, relay,
                 faults, history>>

Reading(r, pc) ==
  /\ ReaderAt(pc) /\ r \in reader.run
  /\ UNCHANGED <<vault, active, localOnly, poster>>

Answer == relay[reader.qid].answers[reader.next]

TakesNext(r) ==
  /\ Reading(r, "answers")
  /\ reader.next <= reader.upto
  /\ IF SameQuestion(r)
       THEN /\ asked' = [asked EXCEPT ![r].last = reader.next,
                                      ![r].applying = TRUE]
            /\ reader' = [reader EXCEPT !.pc = "judge"]
       ELSE reader' = NotReading /\ UNCHANGED asked
  /\ UNCHANGED <<queue, declared, mark, relay, faults, history>>

TakesNoMore(r) ==
  /\ Reading(r, "answers")
  /\ reader.next > reader.upto
  /\ IF SameQuestion(r) /\ ~reader.open
       THEN asked' = [asked EXCEPT ![r].finished = TRUE]
       ELSE UNCHANGED asked
  /\ reader' = NotReading
  /\ UNCHANGED <<queue, declared, mark, relay, faults, history>>

Verdict(v) ==
  reader' = [reader EXCEPT !.pc = "verdict", !.verdict = v, !.mark = NoEvent]

\* Mutant of IsNew: any answer counts.
IsNewAlways(r) == TRUE

\* The answers of a device to a question count in the order of their times.
IsNew(r) == SameQuestion(r) => Answer.time > asked[r].applied[Answer.device]

\* The vault and the run as they are now.  The form, the signature and the
\* minute in which an answer counts are a choice.
Judges(r) ==
  /\ Reading(r, "judge")
  /\ IF SameVault(reader.epoch) /\ r \in Waiting
       THEN \/ Verdict("refused")
            \/ /\ IsNew(r)
               /\ reader' = [reader EXCEPT !.pc = "apply",
                    !.mark = IF Answer.choice = "correct" THEN mark ELSE @]
       ELSE Verdict("ended")
  /\ UNCHANGED <<queue, declared, asked, mark, relay, faults, history>>

Counts(h) ==
  [h EXCEPT !.counted = @ \cup {[qid |-> reader.qid, time |-> Answer.time,
                                 device |-> Answer.device]}]

\* The queue takes an approval or a denial, once.
Decides(r) ==
  /\ Reading(r, "apply")
  /\ r \in Waiting /\ Answer.choice # "correct"
  /\ End({r}, Answer.choice, Answer.device)
  /\ history' = Counts(history)
  /\ reader' = [reader EXCEPT !.pc = "note", !.verdict = "settled"]
  /\ UNCHANGED <<declared, asked, mark, relay, faults>>

\* The run ended before, or the queue refuses the approval: its proof or the
\* time of the question is over.
DecidesNothing(r) ==
  /\ Reading(r, "apply")
  /\ Answer.choice # "correct"
  /\ \/ r \notin Waiting /\ Verdict("ended")
     \/ Answer.choice = "approved" /\ (Verdict("ended") \/ Verdict("refused"))
  /\ UNCHANGED <<queue, declared, asked, mark, relay, faults, history>>

\* The environment changed in another way after the last correction, or not.
Stale(time) ==
  IF reader.mark # NoEvent /\ reader.mark.event = declared.event
    THEN time <= reader.mark.at
    ELSE time < declared.at

\* Mutant of Corrects: without the last correction.
CorrectsByClock(r) ==
  /\ Reading(r, "apply")
  /\ Answer.choice = "correct"
  /\ IF SameVault(reader.epoch) /\ Answer.time >= declared.at
       THEN /\ declared' = [event |-> declared.event + 1, at |-> 0]
            /\ history' = [Counts(history) EXCEPT !.corrected = Answer.time]
            /\ reader' = [reader EXCEPT !.pc = "note", !.verdict = "corrected",
                            !.mark = [event |-> declared'.event,
                                      at |-> Answer.time]]
       ELSE Verdict("refused") /\ UNCHANGED <<declared, history>>
  /\ UNCHANGED <<queue, asked, mark, relay, faults>>

\* A correction changes the credential, and the run waits on.  The clock of
\* the Mac is not looked at while the worker has the mark of this change.
Corrects(r) ==
  /\ Reading(r, "apply")
  /\ Answer.choice = "correct"
  /\ CASE ~SameVault(reader.epoch) ->
            Verdict("ended") /\ UNCHANGED <<declared, history>>
       [] SameVault(reader.epoch) /\ Stale(Answer.time) ->
            Verdict("refused") /\ UNCHANGED <<declared, history>>
       [] SameVault(reader.epoch) /\ ~Stale(Answer.time) ->
            /\ declared' = [event |-> declared.event + 1, at |-> 0]
            /\ history' = [Counts(history) EXCEPT !.corrected = Answer.time]
            /\ reader' = [reader EXCEPT !.pc = "note", !.verdict = "corrected",
                            !.mark = [event |-> declared'.event,
                                      at |-> Answer.time]]
  /\ UNCHANGED <<queue, asked, mark, relay, faults>>

\* The answer took effect; the vault and the queue are let go.
Notes(r) ==
  /\ Reading(r, "note")
  /\ mark' = IF reader.verdict = "corrected" THEN reader.mark ELSE mark
  /\ IF SameQuestion(r)
       THEN asked' = [asked EXCEPT ![r].applied[Answer.device] = Answer.time]
       ELSE UNCHANGED asked
  /\ Verdict(reader.verdict)
  /\ UNCHANGED <<queue, declared, relay, faults, history>>

\* The question of r, whichever it is now, is settled by this device.
SettlesIt(r) ==
  /\ Reading(r, "verdict") /\ reader.verdict = "settled"
  /\ asked' = [asked EXCEPT ![r] = NotAsked]
  /\ IF IsAsked(r)
       THEN SendSettle(reader.epoch, asked[r].qid,
                       [outcome |-> Answer.choice, by |-> Answer.device])
       ELSE UNCHANGED <<relay, faults, history>>
  /\ reader' = NotReading
  /\ UNCHANGED <<queue, declared, mark>>

\* Mutant of LetsGo: the question stays in the hands of the reader.
LetsGoNot(r, epoch) == UNCHANGED <<asked, relay, faults, history>>

\* The end that came meanwhile settles the question; else it waits on.
LetsGo(r, epoch) ==
  CASE ~IsAsked(r) -> UNCHANGED <<asked, relay, faults, history>>
    [] IsAsked(r) /\ asked[r].ended -> SettleLocal(epoch, r)
    [] IsAsked(r) /\ ~asked[r].ended ->
         /\ asked' = [asked EXCEPT ![r].applying = FALSE]
         /\ UNCHANGED <<relay, faults, history>>

\* Not the end of the question: the next answer.  It is let go with the session
\* of now.
GoesOn(r) ==
  /\ Reading(r, "verdict") /\ reader.verdict \in {"refused", "corrected"}
  /\ LetsGo(r, active)
  /\ reader' = [reader EXCEPT !.pc = "answers", !.next = @ + 1,
                              !.verdict = "none"]
  /\ UNCHANGED <<queue, declared, mark>>

\* The run ended another way.
StopsReading(r) ==
  /\ Reading(r, "verdict") /\ reader.verdict = "ended"
  /\ LetsGo(r, reader.epoch)
  /\ reader' = NotReading
  /\ UNCHANGED <<queue, declared, mark>>

-----------------------------------------------------------------------------

PosterSteps ==
  \/ ReadsPending \/ TakesEnded \/ FindsSession \/ FindsNoSession
  \/ DropsGone
  \/ \E r \in Runs :
       \/ HandlesEnd(r) \/ Skips(r) \/ KeepsLocal(r) \/ Asks(r) \/ Retries(r)
       \/ Posts(r) \/ PostBreaks(r) \/ PostRefused(r) \/ PostLeft(r)

ReaderSteps(r) ==
  \/ TakesNext(r) \/ TakesNoMore(r) \/ Judges(r)
  \/ Decides(r) \/ DecidesNothing(r) \/ Corrects(r) \/ Notes(r)
  \/ SettlesIt(r) \/ GoesOn(r) \/ StopsReading(r)

Next ==
  \/ PosterSteps
  \/ \E r \in Runs :
       StartsToWait(r) \/ EndsHere(r) \/ Polls(r) \/ ReaderSteps(r)
  \/ ChangesEnvironment \/ Lock \/ Unlock \/ Forget
  \/ \E q \in DOMAIN relay :
       Expires(q) \/ (\E a \in Answers : TakesAnswer(q, a))

Spec == Init /\ [][Next]_vars

-----------------------------------------------------------------------------
(* Properties *)

EventsOf == [event : Nat, at : 0..MaxTime]

Cards == [run : Runs, state : {"unposted", "open", "settled", "expired"},
          settle : Ends \cup {NoEnd}, answers : Seq(Answers)]

RunStates == [state : {"new", "waits", "over"}, end : Ends \cup {NoEnd}]

Questions == [qid : Nat, posted : BOOLEAN, last : Nat, applying : BOOLEAN,
              ended : BOOLEAN, finished : BOOLEAN,
              applied : [Devices -> 0..MaxTime]]

Posters == [pc : {"runs", "take", "session", "ends", "post"},
            epoch : 0..MaxEpoch, snap : SUBSET Runs, got : SUBSET Runs,
            run : SUBSET Runs, qid : Nat]

Readers == [pc : {"idle", "answers", "judge", "apply", "note", "verdict"},
            epoch : 0..MaxEpoch, run : SUBSET Runs, qid : Nat, next : Nat,
            upto : Nat, open : BOOLEAN, mark : EventsOf,
            verdict : {"none", "refused", "settled", "corrected", "ended"}]

Histories == [counted : SUBSET [qid : Nat, time : Times, device : Devices],
              corrected : 0..MaxTime, forgotten : SUBSET Nat, lost : SUBSET Nat]

Typed ==
  /\ runs \in [Runs -> RunStates]
  /\ ends \subseteq Runs /\ localOnly \subseteq Runs
  /\ vault \in [open : BOOLEAN, epoch : 1..MaxEpoch]
  /\ active \in 0..MaxEpoch /\ faults \in 0..MaxFaults
  /\ declared \in EventsOf /\ mark \in EventsOf
  /\ asked \in [Runs -> Questions]
  /\ poster \in Posters /\ reader \in Readers
  /\ relay \in Seq(Cards)
  /\ history \in Histories

\* What the parts say of one another.
Linked ==
  /\ \A r \in Runs : runs[r].state = "over" <=> runs[r].end # NoEnd
  /\ \A r \in Runs : IsAsked(r) =>
       /\ asked[r].qid \in DOMAIN relay /\ relay[asked[r].qid].run = r
       /\ asked[r].posted => relay[asked[r].qid].state # "unposted"
       /\ asked[r].last <= Len(relay[asked[r].qid].answers)
  /\ \A q \in DOMAIN relay :
       relay[q].state = "settled" <=> relay[q].settle # NoEnd

TypeOK == Typed /\ Linked

\* What the devices are told is how the run ended; a device that is named is
\* the one whose answer ended it, and nobody is when the owner did not answer.
\* (This Mac is named, too, when it settles a question that it asked again,
\* unaware that the answer of a device had ended the run.)
SettleTruthful ==
  \A q \in DOMAIN relay : relay[q].state = "settled" =>
    LET told == relay[q].settle
        end == runs[relay[q].run].end
    IN  /\ told.outcome = end.outcome
        /\ told.by \in {end.by, Mac}
        /\ told.by = Nobody <=> end.by = Nobody

\* A repeated or reordered answer of a device never counts after a later one,
\* and none counts twice, while the worker has its session.
AnswerCounts == ReaderAt("apply") /\ reader'.pc = "note"

AnswersCountOnce ==
  [][AnswerCounts =>
       \A e \in history.counted :
         e.qid = reader.qid /\ e.device = Answer.device
           => e.time < Answer.time]_vars

\* A late correction never undoes a later one, of whatever device.
CorrectionsInOrder ==
  [][AnswerCounts /\ Answer.choice = "correct"
       => Answer.time > history.corrected]_vars

\* No question is left open: while the relay shows the question of a run that
\* is over, the poster has it to settle, or the reader has it in its hands and
\* settles it, or lets it go.  Else the worker forgot it or a call was lost, and
\* it expires.
InHands(r) ==
  /\ reader.run = {r} /\ reader.pc \in {"judge", "apply", "note", "verdict"}

OpenIsTracked ==
  \A q \in DOMAIN relay :
    LET r == relay[q].run
    IN  /\ relay[q].state = "open"
        /\ q \notin history.forgotten \cup history.lost
        => /\ asked[r].qid = q
           /\ asked[r].posted \/ poster.qid = q
           /\ asked[r].applying => InHands(r)
=============================================================================
