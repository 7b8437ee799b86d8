------------------------ MODULE RelayQuestionsProofs ------------------------
(***************************************************************************)
(* Proofs about the worker of the questions and the relay, for any number  *)
(* of runs, devices, answers, sessions and faults.                         *)
(***************************************************************************)
EXTENDS RelayQuestions, SequenceTheorems, TLAPS

\* The poster is between FindsSession and its next rest.
Engaged ==
  \/ PosterAt("ends") \/ PosterAt("post")
  \/ PosterAt("runs") /\ poster.snap # {}

\* Where the end of a run is that ended while it is asked.
Tracked(r) ==
  \/ asked[r].ended
  \/ /\ PosterAt("runs") \/ PosterAt("post")
     /\ runs[r].state = "waits" \/ r \in ends
  \/ PosterAt("take") /\ r \in poster.snap \cup ends
  \/ (PosterAt("session") \/ PosterAt("ends")) /\ r \in poster.snap \cup poster.got

RunOK(r) ==
  /\ runs[r].state = "over" =>
       (runs[r].end.outcome \in Decisions <=> runs[r].end.by # Nobody)
  /\ r \in ends \cup poster.got => runs[r].state = "over"
  /\ r \in poster.snap => runs[r].state = "waits" \/ r \in ends

AskedOK(r) ==
  /\ IF IsAsked(r) THEN active # 0 /\ Tracked(r) ELSE asked[r] = NotAsked
  /\ IsAsked(r) => runs[r].state # "new"
  /\ asked[r].ended => asked[r].applying /\ runs[r].state = "over"
  /\ asked[r].applying => asked[r].posted
  /\ asked[r].applying <=> InHands(r) /\ SameQuestion(r)
  /\ r \in reader.run /\ SameQuestion(r) => asked[r].posted

\* The session that the poster found is the worker's, or it is over.
SessionOK ==
  /\ Engaged => IF active = 0
                  THEN ~SameVault(poster.epoch) /\ poster.epoch <= vault.epoch
                  ELSE active = poster.epoch
  /\ active <= vault.epoch
  /\ poster.pc \in {"take", "runs", "post"} => poster.got = {}

\* The question that the poster posts is still asked and was not posted, or the
\* relay will not show it, or nobody relies on it.
PostOK ==
  IF PosterAt("post")
    THEN /\ poster.qid \in DOMAIN relay
         /\ LET r == relay[poster.qid].run
            IN  /\ poster.run = {r}
                /\ IsAsked(r) => asked[r].qid = poster.qid /\ ~asked[r].posted
                /\ ~IsAsked(r) =>
                     \/ poster.qid \in history.forgotten \cup history.lost
                     \/ relay[poster.qid].state \notin {"unposted", "open"}
    ELSE poster.run = {} /\ poster.qid = 0

PosterOK == SessionOK /\ PostOK

\* The answer that the reader has in its hands.
ReaderOK ==
  IF ReaderAt("idle") THEN reader = NotReading
  ELSE
  /\ reader.qid \in DOMAIN relay
  /\ reader.run = {relay[reader.qid].run}
  /\ relay[reader.qid].state # "unposted"
  /\ reader.next > 0
  /\ reader.upto <= Len(relay[reader.qid].answers)
  /\ ~ReaderAt("answers") => reader.next <= reader.upto
  /\ ReaderAt("answers") \/ ReaderAt("judge") \/ ReaderAt("apply") => reader.verdict = "none"
  /\ ReaderAt("note") => reader.verdict \in {"settled", "corrected"}
  /\ reader.verdict = "settled" =>
       LET r == relay[reader.qid].run
       IN  /\ runs[r].state = "over"
           /\ runs[r].end = [outcome |-> Answer.choice, by |-> Answer.device]

\* The times that counted for the question of a run.
CountedOK ==
  \A e \in history.counted :
    /\ e.qid \in DOMAIN relay
    /\ LET r == relay[e.qid].run
       IN  /\ asked[r].qid = e.qid =>
                \/ e.time <= asked[r].applied[e.device]
                \/ /\ ReaderAt("note") /\ reader.qid = e.qid
                   /\ e.device = Answer.device
           /\ e.qid = reader.qid /\ ReaderAt("judge") => asked[r].qid = e.qid
    /\ ReaderAt("apply") /\ e.qid = reader.qid /\ e.device = Answer.device
         => e.time < Answer.time
    /\ ReaderAt("note") /\ e.qid = reader.qid /\ e.device = Answer.device
         => e.time <= Answer.time

CorrectedOK ==
  history.corrected # 0 =>
    LET last == [event |-> declared.event, at |-> history.corrected]
    IN  /\ declared.at = 0 /\ declared.event # 0
        /\ IF ReaderAt("note") /\ reader.verdict = "corrected"
             THEN reader.mark = last
             ELSE /\ mark = last
                  /\ ReaderAt("apply") /\ Answer.choice = "correct" => reader.mark = last

IInv ==
  /\ TypeOK
  /\ \A r \in Runs : RunOK(r) /\ AskedOK(r)
  /\ PosterOK /\ ReaderOK
  /\ SettleTruthful /\ OpenIsTracked
  /\ CountedOK /\ CorrectedOK

LEMMA Bounds ==
  /\ MaxTime \in Nat /\ MaxEpoch \in Nat \ {0} /\ MaxFaults \in Nat
  /\ MaxChanges \in Nat
BY RelayQuestionsAssumption

(***************************************************************************)
(* Cards.                                                                  *)
(***************************************************************************)

\* A typed relay has its cards, and a card its answers.
LEMMA CardFacts ==
  ASSUME Typed
  PROVE  /\ Len(relay) \in Nat /\ DOMAIN relay = 1..Len(relay)
         /\ relay \in [DOMAIN relay -> Cards]
         /\ \A q \in DOMAIN relay :
              /\ relay[q] \in Cards
              /\ Len(relay[q].answers) \in Nat
              /\ \A i \in 1..Len(relay[q].answers) : relay[q].answers[i] \in Answers
<1>1. /\ Len(relay) \in Nat /\ DOMAIN relay = 1..Len(relay)
      /\ relay \in [DOMAIN relay -> Cards]
  BY LenProperties DEF Typed
<1>2. ASSUME NEW q \in DOMAIN relay
      PROVE  /\ relay[q] \in Cards
             /\ Len(relay[q].answers) \in Nat
             /\ \A i \in 1..Len(relay[q].answers) : relay[q].answers[i] \in Answers
  <2>1. relay[q] \in Cards
    BY <1>1
  <2>2. relay[q].answers \in Seq(Answers)
    BY <2>1 DEF Cards
  <2> QED BY <2>1, <2>2, LenProperties, ElementOfSeq
<1> QED BY <1>1, <1>2

\* The relay with another card q.
Changed(q, card) ==
  /\ relay' \in Seq(Cards)
  /\ DOMAIN relay' = DOMAIN relay
  /\ \A p \in DOMAIN relay : relay'[p] = IF p = q THEN card ELSE relay[p]

LEMMA CardChanges ==
  ASSUME Typed, NEW q \in DOMAIN relay, NEW card \in Cards,
         relay' = [relay EXCEPT ![q] = card]
  PROVE  Changed(q, card)
BY CardFacts, ExceptSeq DEF Changed, Typed

\* What a settle leaves of a card.
Settled(card, settle) ==
  IF card.state = "open"
    THEN [card EXCEPT !.state = "settled", !.settle = settle]
    ELSE card

LEMMA SettleChanges ==
  ASSUME Typed, NEW q \in DOMAIN relay, NEW settle \in Ends,
         relay' = Settles(q, settle)
  PROVE  Changed(q, Settled(relay[q], settle))
<1>1. relay \in [DOMAIN relay -> Cards]
  BY CardFacts
<1>2. Settled(relay[q], settle) \in Cards
  BY <1>1 DEF Settled, Cards
<1>3. relay' = [relay EXCEPT ![q] = Settled(relay[q], settle)]
  BY <1>1 DEF Settles, Settled, Cards
<1> QED BY <1>2, <1>3, CardChanges

LEMMA LandChanges ==
  ASSUME Typed, NEW q \in DOMAIN relay, relay' = Lands(q)
  PROVE  Changed(q, IF relay[q].state = "unposted"
                      THEN [relay[q] EXCEPT !.state = "open"] ELSE relay[q])
<1> DEFINE card == IF relay[q].state = "unposted"
                     THEN [relay[q] EXCEPT !.state = "open"] ELSE relay[q]
<1>1. relay \in [DOMAIN relay -> Cards]
  BY CardFacts
<1>2. card \in Cards
  BY <1>1 DEF Cards
<1>3. relay' = [relay EXCEPT ![q] = card]
  BY <1>1 DEF Lands, Cards
<1> QED BY <1>2, <1>3, CardChanges

LEMMA ExpiryChanges ==
  ASSUME Typed, NEW q \in DOMAIN relay, Expires(q)
  PROVE  Changed(q, [relay[q] EXCEPT !.state = "expired"])
<1>1. relay \in [DOMAIN relay -> Cards]
  BY CardFacts
<1>2. [relay[q] EXCEPT !.state = "expired"] \in Cards
  BY <1>1 DEF Cards
<1>3. relay' = [relay EXCEPT ![q] = [relay[q] EXCEPT !.state = "expired"]]
  BY <1>1 DEF Expires, Cards
<1> QED BY <1>2, <1>3, CardChanges

LEMMA AnswerChanges ==
  ASSUME Typed, NEW q \in DOMAIN relay, NEW a \in Answers, TakesAnswer(q, a)
  PROVE  /\ Changed(q, [relay[q] EXCEPT !.answers = Append(@, a)])
         /\ Len(relay'[q].answers) = Len(relay[q].answers) + 1
         /\ \A i \in 1..Len(relay[q].answers) :
              relay'[q].answers[i] = relay[q].answers[i]
<1> DEFINE card == [relay[q] EXCEPT !.answers = Append(relay[q].answers, a)]
<1>1. relay \in [DOMAIN relay -> Cards]
  BY CardFacts
<1>2. relay[q].answers \in Seq(Answers)
  BY <1>1 DEF Cards
<1>3. /\ Append(relay[q].answers, a) \in Seq(Answers)
      /\ Len(Append(relay[q].answers, a)) = Len(relay[q].answers) + 1
      /\ \A i \in 1..Len(relay[q].answers) :
           Append(relay[q].answers, a)[i] = relay[q].answers[i]
  BY <1>2, AppendProperties
<1>4. card \in Cards /\ card.answers = Append(relay[q].answers, a)
  BY <1>1, <1>3 DEF Cards
<1>5. relay' = [relay EXCEPT ![q] = card]
  BY <1>1 DEF TakesAnswer
<1>6. Changed(q, card)
  BY <1>4, <1>5, CardChanges
<1>7. relay'[q] = card
  BY <1>6 DEF Changed
<1> QED BY <1>3, <1>4, <1>6, <1>7

\* A new card is the last one.
NewCard(r) == [run |-> r, state |-> "unposted", settle |-> NoEnd, answers |-> <<>>]

LEMMA AskAppends ==
  ASSUME Typed, NEW r \in Runs, Asks(r)
  PROVE  /\ relay' \in Seq(Cards)
         /\ Len(relay') = Len(relay) + 1
         /\ DOMAIN relay' = 1..(Len(relay) + 1)
         /\ \A q \in DOMAIN relay : relay'[q] = relay[q]
         /\ relay'[Len(relay')] = NewCard(r)
<1>1. NewCard(r) \in Cards
  BY EmptySeq DEF NewCard, Cards
<1>2. relay \in Seq(Cards) /\ DOMAIN relay = 1..Len(relay)
  BY CardFacts DEF Typed
<1>3. relay' = Append(relay, NewCard(r))
  BY DEF Asks, NewCard
<1>4. /\ relay' \in Seq(Cards)
      /\ Len(relay') = Len(relay) + 1
      /\ \A q \in 1..Len(relay) : relay'[q] = relay[q]
      /\ relay'[Len(relay) + 1] = NewCard(r)
  BY <1>1, <1>2, <1>3, AppendProperties
<1> QED BY <1>2, <1>4, LenProperties

(***************************************************************************)
(* How a question goes.                                                    *)
(***************************************************************************)

\* The answer in the hands of the reader is one that a device signed.
LEMMA AnswerFacts ==
  ASSUME Typed, ReaderOK,
         reader.pc \in {"judge", "apply", "note", "verdict"}
  PROVE  /\ reader.qid \in DOMAIN relay
         /\ Answer \in Answers
         /\ Answer.device \in Devices /\ Answer.device # Nobody
         /\ Answer.time \in Times
         /\ Answer.choice # "correct" => Answer.choice \in Decisions
<1>1. /\ reader.qid \in DOMAIN relay
      /\ reader.next \in 1..Len(relay[reader.qid].answers)
  BY CardFacts DEF Typed, Readers, ReaderOK, ReaderAt
<1>2. Answer \in Answers
  BY <1>1, CardFacts DEF Answer
<1> QED BY <1>1, <1>2, RelayQuestionsAssumption DEF Times

\* The queue's end of a run is an end that the relay takes.
LEMMA LocalSettleEnds ==
  ASSUME Typed, Linked, NEW r \in Runs, runs[r].state = "over"
  PROVE  LocalSettle(r) \in Ends
<1>1. runs[r].end \in Ends
  BY DEF Typed, Linked, RunStates
<1> QED BY <1>1 DEF LocalSettle, Ends

\* A call about this question is lost.
Loses(q) == history' = [history EXCEPT !.lost = @ \cup {q}]

\* A settle is sent, and the relay has it or the call is lost.
Sends(q, settle) ==
  /\ relay' \in Seq(Cards)
  /\ DOMAIN relay' = DOMAIN relay
  /\ \A p \in DOMAIN relay :
       relay'[p] \in {relay[p], IF p = q THEN Settled(relay[p], settle)
                                        ELSE relay[p]}
  /\ UNCHANGED history \/ Loses(q)
  /\ faults' \in 0..MaxFaults

\* The relay never shows the question again, or the call was lost.
Told(q) == relay'[q].state \notin {"unposted", "open"} \/ q \in history'.lost

LEMMA SendSettleSends ==
  ASSUME Typed, NEW epoch, NEW q \in DOMAIN relay, NEW settle \in Ends,
         SendSettle(epoch, q, settle)
  PROVE  Sends(q, settle) /\ Told(q)
<1>1. relay \in Seq(Cards) /\ faults \in 0..MaxFaults /\ MaxFaults \in Nat
  BY Bounds DEF Typed
<1>2. CASE /\ relay[q].state # "unposted"
           /\ relay' = Settles(q, settle) /\ UNCHANGED <<faults, history>>
  <2>1. Changed(q, Settled(relay[q], settle))
    BY <1>2, SettleChanges
  <2>2. Settled(relay[q], settle).state \notin {"unposted", "open"}
    BY <1>2, CardFacts DEF Settled, Cards
  <2> QED BY <1>1, <1>2, <2>1, <2>2 DEF Changed, Sends, Told
<1>3. CASE /\ UNCHANGED faults \/ Fails
           /\ Loses(q)
           /\ UNCHANGED relay
  <2>1. faults' \in 0..MaxFaults
    BY <1>1, <1>3 DEF Fails
  <2>2. q \in history'.lost
    BY <1>3 DEF Typed, Loses
  <2> QED BY <1>1, <1>3, <2>1, <2>2 DEF Sends, Told
<1> QED BY <1>2, <1>3 DEF SendSettle, Loses

\* The question of r goes.
Drops(r, settle) ==
  /\ asked' = [asked EXCEPT ![r] = NotAsked]
  /\ Sends(asked[r].qid, settle)
  /\ asked[r].posted => Told(asked[r].qid)

LEMMA SettleLocalDrops ==
  ASSUME Typed, Linked, NEW r \in Runs, NEW epoch, IsAsked(r),
         runs[r].state = "over", SettleLocal(epoch, r)
  PROVE  Drops(r, LocalSettle(r))
<1>1. asked[r].qid \in DOMAIN relay
  BY DEF Linked
<1>2. CASE asked[r].posted
  <2>1. SendSettle(epoch, asked[r].qid, LocalSettle(r))
    BY <1>2 DEF SettleLocal
  <2> QED BY <1>1, <2>1, LocalSettleEnds, SendSettleSends DEF Drops, SettleLocal
<1>3. CASE ~asked[r].posted
  <2>1. UNCHANGED <<relay, faults, history>>
    BY <1>3 DEF SettleLocal
  <2>2. Sends(asked[r].qid, LocalSettle(r))
    BY <2>1 DEF Sends, Typed
  <2> QED BY <1>3, <2>2 DEF Drops, SettleLocal
<1> QED BY <1>2, <1>3

Kept == UNCHANGED <<asked, relay, faults, history>>

\* The poster with an end.
LEMMA HandlesEndKinds ==
  ASSUME IInv, NEW r \in Runs, HandlesEnd(r)
  PROVE  \/ ~IsAsked(r) /\ Kept
         \/ /\ IsAsked(r) /\ asked[r].applying
            /\ asked' = [asked EXCEPT ![r].ended = TRUE]
            /\ UNCHANGED <<relay, faults, history>>
         \/ /\ IsAsked(r) /\ ~asked[r].applying
            /\ Drops(r, LocalSettle(r))
<1>1. Typed /\ Linked /\ RunOK(r)
  BY DEF IInv, TypeOK
<1>2. runs[r].state = "over"
  BY <1>1 DEF RunOK, HandlesEnd
<1> QED BY <1>1, <1>2, SettleLocalDrops DEF HandlesEnd, Kept

\* The reader that lets a question go.
LEMMA LetsGoKinds ==
  ASSUME IInv, NEW r \in Runs, NEW epoch, LetsGo(r, epoch)
  PROVE  \/ ~IsAsked(r) /\ Kept
         \/ /\ IsAsked(r) /\ ~asked[r].ended
            /\ asked' = [asked EXCEPT ![r].applying = FALSE]
            /\ UNCHANGED <<relay, faults, history>>
         \/ /\ IsAsked(r) /\ asked[r].ended /\ asked[r].posted
            /\ runs[r].state = "over"
            /\ Drops(r, LocalSettle(r))
<1>1. Typed /\ Linked /\ AskedOK(r)
  BY DEF IInv, TypeOK
<1>2. asked[r].ended => runs[r].state = "over" /\ asked[r].posted
  BY <1>1 DEF AskedOK
<1> QED BY <1>1, <1>2, SettleLocalDrops DEF LetsGo, Kept

\* The reader that settles the question of r, if there is one.
LEMMA SettlesItKinds ==
  ASSUME IInv, NEW r \in Runs, SettlesIt(r)
  PROVE  /\ r = relay[reader.qid].run
         /\ runs[r].state = "over"
         /\ runs[r].end = [outcome |-> Answer.choice, by |-> Answer.device]
         /\ \/ ~IsAsked(r) /\ asked' = [asked EXCEPT ![r] = NotAsked]
               /\ UNCHANGED <<relay, faults, history>>
            \/ IsAsked(r) /\ Drops(r, runs[r].end) /\ Told(asked[r].qid)
<1>1. Typed /\ Linked /\ ReaderOK
  BY DEF IInv, TypeOK
<1>2. /\ r = relay[reader.qid].run
      /\ runs[r].state = "over"
      /\ runs[r].end = [outcome |-> Answer.choice, by |-> Answer.device]
  BY <1>1 DEF ReaderOK, SettlesIt, Reading, ReaderAt
<1>3. runs[r].end \in Ends
  BY <1>1, <1>2 DEF Typed, Linked, RunStates
<1>4. CASE IsAsked(r)
  <2>1. SendSettle(reader.epoch, asked[r].qid, runs[r].end)
    BY <1>2, <1>4 DEF SettlesIt
  <2>2. asked[r].qid \in DOMAIN relay
    BY <1>1, <1>4 DEF Linked
  <2> QED BY <1>1, <1>2, <1>3, <1>4, <2>1, <2>2, SendSettleSends
          DEF Drops, SettlesIt
<1> QED BY <1>2, <1>4 DEF SettlesIt

\* No question is without its run when the poster has settled its ends.
LEMMA NothingGone ==
  ASSUME IInv, PosterAt("ends"), poster.got = {}
  PROVE  Gone = {}
<1> SUFFICES ASSUME NEW r \in Runs, r \notin poster.snap, IsAsked(r)
             PROVE  asked[r].applying
  BY DEF Gone
<1>1. AskedOK(r)
  BY DEF IInv
<1> QED BY <1>1 DEF AskedOK, Tracked, PosterAt

(***************************************************************************)
(* Types.                                                                  *)
(***************************************************************************)

LEMMA InitTyped == Init => Typed
BY Bounds, EmptySeq
   DEF Init, Typed, RunStates, Questions, Posters, Readers, Histories, NoEnd, NoEvent, EventsOf, NotAsked, Resting,
       NotReading, Nobody

\* An event of the environment, or none.
LEMMA NoEventType == NoEvent \in EventsOf
BY Bounds DEF NoEvent, EventsOf

LEMMA NotAskedType == NotAsked \in Questions
BY Bounds DEF NotAsked, Questions

\* What goes with a question is typed.
LEMMA SendsTyped ==
  ASSUME Typed, NEW q \in Nat, NEW settle, Sends(q, settle)
  PROVE  /\ relay' \in Seq(Cards) /\ faults' \in 0..MaxFaults
         /\ history' \in Histories
<1>1. ASSUME Loses(q)
      PROVE  history' \in Histories
  BY <1>1 DEF Loses, Typed, Histories
<1> QED BY <1>1 DEF Sends, Typed

LEMMA DropsTyped ==
  ASSUME Typed, NEW r \in Runs, NEW settle, Drops(r, settle)
  PROVE  /\ relay' \in Seq(Cards) /\ faults' \in 0..MaxFaults
         /\ history' \in Histories
         /\ asked' \in [Runs -> Questions]
<1>1. asked[r].qid \in Nat
  BY DEF Typed, Questions
<1>2. asked' \in [Runs -> Questions]
  BY NotAskedType DEF Drops, Typed
<1> QED BY <1>1, <1>2, SendsTyped DEF Drops

\* The queue, the owner and the session.
LEMMA EndTyped ==
  ASSUME Typed, NEW over \in SUBSET Runs, NEW outcome \in Outcomes,
         NEW by \in Devices \cup {Mac, Nobody}, End(over, outcome, by)
  PROVE  runs' \in [Runs -> RunStates] /\ ends' \subseteq Runs
<1>1. [state |-> "over", end |-> [outcome |-> outcome, by |-> by]] \in RunStates
  BY DEF Ends, RunStates
<1> QED BY <1>1 DEF End, Typed

LEMMA UncorrectedTyped ==
  ASSUME NEW h \in Histories
  PROVE  [h EXCEPT !.corrected = 0] \in Histories
BY Bounds DEF Histories

LEMMA ForgetTyped ==
  ASSUME NEW h \in Histories, NEW Q \in SUBSET Nat
  PROVE  [h EXCEPT !.forgotten = @ \cup Q, !.counted = {}, !.corrected = 0]
           \in Histories
<1>1. h.forgotten \cup Q \in SUBSET Nat
  <2>1. h.forgotten \subseteq Nat
    BY DEF Histories
  <2> QED BY <2>1
<1>2. {} \in SUBSET [qid : Nat, time : Times, device : Devices]
  OBVIOUS
<1>3. 0 \in 0..MaxTime
  BY Bounds
<1> QED BY <1>1, <1>2, <1>3 DEF Histories

LEMMA DropAskedTyped ==
  ASSUME Typed, DropAsked
  PROVE  /\ asked' \in [Runs -> Questions]
         /\ localOnly' \subseteq Runs
         /\ history' \in Histories
<1>1. {asked[r].qid : r \in {s \in Runs : IsAsked(s)}} \subseteq Nat
  BY DEF Typed, Questions
<1>2. history' \in Histories
  BY <1>1, ForgetTyped DEF DropAsked, Typed
<1> QED BY <1>2, NotAskedType DEF DropAsked

LEMMA OwnerTyped ==
  ASSUME Typed,
         \/ \E r \in Runs : StartsToWait(r) \/ EndsHere(r)
         \/ ChangesEnvironment \/ Lock \/ Unlock \/ Forget
  PROVE  Typed'
<1> USE DEF Typed, queue, worker
<1>1. CASE \E r \in Runs : StartsToWait(r)
  <2>1. runs' \in [Runs -> RunStates]
    BY <1>1 DEF StartsToWait, RunStates
  <2> QED BY <1>1, <2>1 DEF StartsToWait
<1>2. CASE \E r \in Runs : EndsHere(r)
  <2>1. PICK r \in Runs : EndsHere(r)
    BY <1>2
  <2>2. runs' \in [Runs -> RunStates] /\ ends' \subseteq Runs
    BY <2>1, EndTyped DEF EndsHere, Outcomes
  <2> QED BY <2>1, <2>2 DEF EndsHere
<1>3. CASE ChangesEnvironment
  <2>1. declared' \in EventsOf
    BY <1>3, Bounds DEF ChangesEnvironment, EventsOf, Times
  <2>2. history' \in Histories
    BY <1>3, UncorrectedTyped DEF ChangesEnvironment
  <2> QED BY <1>3, <2>1, <2>2 DEF ChangesEnvironment
<1>4. CASE Lock
  <2>1. runs' \in [Runs -> RunStates] /\ ends' \subseteq Runs
    BY <1>4, EndTyped DEF Lock, Outcomes, Waiting
  <2>2. vault' \in [open : BOOLEAN, epoch : 1..MaxEpoch]
    BY <1>4 DEF Lock
  <2> QED BY <1>4, <2>1, <2>2 DEF Lock
<1>5. CASE Unlock
  <2>1. vault' \in [open : BOOLEAN, epoch : 1..MaxEpoch]
    BY <1>5, Bounds DEF Unlock
  <2> QED BY <1>5, <2>1 DEF Unlock
<1>6. CASE Forget
  <2>1. active' \in 0..MaxEpoch /\ mark' \in EventsOf
    BY <1>6, Bounds, NoEventType DEF Forget, ForgetSession
  <2> QED BY <1>6, <2>1, DropAskedTyped DEF Forget, ForgetSession
<1> QED BY <1>1, <1>2, <1>3, <1>4, <1>5, <1>6

\* The relay.
LEMMA RelayTyped ==
  ASSUME Typed, NEW q \in DOMAIN relay,
         Expires(q) \/ \E a \in Answers : TakesAnswer(q, a)
  PROVE  Typed'
<1> USE DEF queue, worker
<1>1. relay' \in Seq(Cards)
  BY ExpiryChanges, AnswerChanges DEF Changed
<1> QED BY <1>1 DEF Expires, TakesAnswer, Typed

\* The poster.
LEMMA PosterTyped ==
  ASSUME IInv, PosterSteps
  PROVE  Typed'
<1>1. Typed
  BY DEF IInv, TypeOK
<1>t. poster \in Posters /\ asked \in [Runs -> Questions] /\ localOnly \subseteq Runs
  BY <1>1 DEF Typed
<1> USE <1>1 DEF queue, worker
<1>2. CASE ReadsPending
  <2>1. Waiting \subseteq Runs /\ 0 \in 0..MaxEpoch
    BY Bounds DEF Waiting
  <2>2. poster' = [pc |-> "take", epoch |-> 0, snap |-> Waiting, got |-> {},
                   run |-> {}, qid |-> 0]
    BY <1>2 DEF ReadsPending, Resting
  <2>3. poster' \in Posters
    BY <2>1, <2>2 DEF Posters
  <2> QED BY <1>2, <2>3 DEF ReadsPending, Typed
<1>3. CASE TakesEnded
  <2>1. poster' \in Posters /\ ends' \subseteq Runs
    BY <1>3 DEF TakesEnded, Posters, Typed
  <2> QED BY <1>3, <2>1 DEF TakesEnded, Typed
<1>4. CASE FindsSession
  <2>1. vault.epoch \in 0..MaxEpoch
    BY Bounds DEF Typed
  <2>2. poster' \in Posters /\ active' \in 0..MaxEpoch
    BY <1>4, <2>1 DEF FindsSession, Posters, Typed
  <2> QED BY <1>4, <2>2, DropAskedTyped DEF FindsSession, Typed
<1>5. CASE FindsNoSession
  <2>1. poster' \in Posters
    BY <1>5, Bounds DEF FindsNoSession, Posters, Resting
  <2>2. faults' \in 0..MaxFaults
    BY <1>5, Bounds DEF FindsNoSession, Fails, Typed
  <2>3. active' \in 0..MaxEpoch /\ mark' \in EventsOf
    BY <1>5, Bounds, NoEventType DEF FindsNoSession, ForgetSession, Typed
  <2> QED BY <1>5, <2>1, <2>2, <2>3, DropAskedTyped
          DEF FindsNoSession, ForgetSession, Typed
<1>6. CASE DropsGone
  <2>1. Gone = {}
    BY <1>6, NothingGone DEF DropsGone
  <2>2. poster' \in Posters /\ UNCHANGED <<asked, relay, faults, history>>
    BY <1>6, <2>1 DEF DropsGone, Posters, Typed
  <2> QED BY <1>6, <2>2 DEF DropsGone, Typed
<1>7. ASSUME NEW r \in Runs, HandlesEnd(r)
      PROVE  Typed'
  <2>1. poster' \in Posters /\ localOnly' \subseteq Runs
    BY <1>7 DEF HandlesEnd, Posters, Typed
  <2>2. /\ relay' \in Seq(Cards) /\ faults' \in 0..MaxFaults
        /\ history' \in Histories /\ asked' \in [Runs -> Questions]
    <3>1. CASE UNCHANGED <<asked, relay, faults, history>>
      BY <3>1 DEF Typed
    <3>2. CASE /\ asked' = [asked EXCEPT ![r].ended = TRUE]
               /\ UNCHANGED <<relay, faults, history>>
      BY <3>2 DEF Typed, Questions
    <3> QED BY <1>7, <3>1, <3>2, HandlesEndKinds, DropsTyped DEF Kept
  <2> QED BY <1>7, <2>1, <2>2 DEF HandlesEnd, Typed
<1>8. ASSUME NEW r \in Runs, Skips(r) \/ KeepsLocal(r) \/ Retries(r)
      PROVE  Typed'
  <2>1. asked[r].qid \in Nat
    BY <1>t DEF Questions
  <2>2. /\ \/ poster' = [poster EXCEPT !.snap = @ \ {r}]
           \/ poster' = [poster EXCEPT !.pc = "post", !.snap = @ \ {r},
                                       !.run = {r}, !.qid = asked[r].qid]
        /\ localOnly' \subseteq Runs
    BY <1>8, <1>t DEF Skips, KeepsLocal, Retries
  <2>3. poster' \in Posters
    <3>1. poster.snap \ {r} \in SUBSET Runs /\ {r} \in SUBSET Runs
      BY <1>t DEF Posters
    <3>2. CASE poster' = [poster EXCEPT !.snap = @ \ {r}]
      BY <1>t, <3>1, <3>2 DEF Posters
    <3>3. CASE poster' = [poster EXCEPT !.pc = "post", !.snap = @ \ {r},
                                       !.run = {r}, !.qid = asked[r].qid]
      BY <1>t, <2>1, <3>1, <3>3 DEF Posters
    <3> QED BY <2>2, <3>2, <3>3
  <2> QED BY <1>8, <2>2, <2>3 DEF Skips, KeepsLocal, Retries, Turns, Typed
<1>9. ASSUME NEW r \in Runs, Asks(r)
      PROVE  Typed'
  <2>1. relay' \in Seq(Cards) /\ Len(relay') \in Nat
    BY <1>9, AskAppends, LenProperties
  <2>2. [NotAsked EXCEPT !.qid = Len(relay')] \in Questions
    BY <2>1, NotAskedType DEF Questions
  <2>3. asked' \in [Runs -> Questions]
    BY <1>9, <2>2 DEF Asks, Typed
  <2>4. poster' \in Posters
    BY <1>9, <2>1 DEF Asks, Posters, Typed
  <2> QED BY <1>9, <2>1, <2>3, <2>4 DEF Asks, Turns, Typed
<1>10. ASSUME NEW r \in Runs,
              Posts(r) \/ PostBreaks(r) \/ PostRefused(r) \/ PostLeft(r)
       PROVE  Typed'
  <2>1. poster.qid \in DOMAIN relay /\ poster.qid \in Nat
    BY <1>10 DEF IInv, PosterOK, PostOK, Posts, PostBreaks, PostRefused, PostLeft,
                 Posting, Typed, Posters
  <2>2. poster' \in Posters
    <3>1. poster' = [poster EXCEPT !.pc = "runs", !.run = {}, !.qid = 0]
      BY <1>10 DEF Posts, PostBreaks, PostRefused, PostLeft, Posting
    <3> QED BY <1>t, <3>1 DEF Posters
  <2>3. relay' \in Seq(Cards)
    BY <1>10, <2>1, LandChanges
       DEF Posts, PostBreaks, PostRefused, PostLeft, Changed, Typed
  <2>4. history.lost \ {poster.qid} \in SUBSET Nat /\ history.lost \cup {poster.qid} \in SUBSET Nat
        /\ history.forgotten \cup {poster.qid} \in SUBSET Nat
    BY <2>1 DEF Typed, Histories
  <2>5. history' \in Histories
    BY <1>10, <2>4 DEF Posts, PostBreaks, PostRefused, PostLeft, Typed, Histories
  <2>6. faults' \in 0..MaxFaults
    BY <1>10, Bounds DEF Posts, PostBreaks, PostRefused, PostLeft, Fails, Typed
  <2>7. asked' \in [Runs -> Questions] /\ localOnly' \subseteq Runs
    <3>1. asked' \in {asked, [asked EXCEPT ![r].posted = TRUE],
                     [asked EXCEPT ![r] = NotAsked]}
      BY <1>10 DEF Posts, PostBreaks, PostRefused, PostLeft
    <3>2. [asked EXCEPT ![r].posted = TRUE] \in [Runs -> Questions]
      BY <1>t DEF Questions
    <3>3. localOnly' \in {localOnly, localOnly \cup {r}}
      BY <1>10 DEF Posts, PostBreaks, PostRefused, PostLeft
    <3> QED BY <1>t, <3>1, <3>2, <3>3, NotAskedType
  <2> QED BY <1>10, <2>2, <2>3, <2>5, <2>6, <2>7
          DEF Posts, PostBreaks, PostRefused, PostLeft, Posting, Typed
<1> QED BY <1>2, <1>3, <1>4, <1>5, <1>6, <1>7, <1>8, <1>9, <1>10 DEF PosterSteps

LEMMA NotReadingType == NotReading \in Readers
BY Bounds, NoEventType DEF NotReading, Readers

\* The reader.
LEMMA ReaderTyped ==
  ASSUME IInv, NEW r \in Runs, Polls(r) \/ ReaderSteps(r)
  PROVE  Typed'
<1>1. Typed /\ ReaderOK /\ Linked
  BY DEF IInv, TypeOK
<1>t. reader \in Readers /\ asked \in [Runs -> Questions]
      /\ asked[r] \in Questions /\ mark \in EventsOf
  BY <1>1 DEF Typed
<1>v. ASSUME NEW v \in {"none", "refused", "settled", "corrected", "ended"}, Verdict(v)
      PROVE  reader' \in Readers
  BY <1>t, <1>v, NoEventType DEF Verdict, Readers
<1> USE DEF queue, worker
<1>2. CASE Polls(r)
  <2>1. /\ active \in 0..MaxEpoch
        /\ asked[r].qid \in Nat /\ asked[r].last + 1 \in Nat
    BY <1>1, <1>t DEF Typed, Questions
  <2>2. asked[r].qid \in DOMAIN relay
    BY <1>1, <1>2 DEF Linked, Polls, IsAsked, AskedOK, IInv, NotAsked
  <2>3. Len(relay[asked[r].qid].answers) \in Nat
    BY <1>1, <2>2, CardFacts
  <2>4. reader' = [pc |-> "answers", epoch |-> active, run |-> {r},
                   qid |-> asked[r].qid, next |-> asked[r].last + 1,
                   upto |-> Len(relay[asked[r].qid].answers),
                   open |-> relay[asked[r].qid].state = "open",
                   mark |-> NoEvent, verdict |-> "none"]
    BY <1>2 DEF Polls, NotReading
  <2>5. reader' \in Readers
    BY <2>1, <2>3, <2>4, NoEventType DEF Readers
  <2> QED BY <1>1, <1>2, <2>5 DEF Polls, Typed
<1>3. CASE TakesNext(r)
  <2>1. reader' \in Readers
    <3>1. CASE reader' = [reader EXCEPT !.pc = "judge"]
      BY <1>t, <3>1 DEF Readers
    <3> QED BY <1>3, <3>1, NotReadingType DEF TakesNext
  <2>2. asked' \in [Runs -> Questions]
    BY <1>3, <1>t DEF TakesNext, Readers, Questions
  <2> QED BY <1>1, <1>3, <2>1, <2>2 DEF TakesNext, Reading, Typed
<1>4. CASE TakesNoMore(r)
  <2>1. reader' \in Readers
    BY <1>4, Bounds, NoEventType DEF TakesNoMore, Readers, NotReading
  <2>2. asked' \in [Runs -> Questions]
    BY <1>4, <1>t DEF TakesNoMore, Questions
  <2> QED BY <1>1, <1>4, <2>1, <2>2 DEF TakesNoMore, Reading, Typed
<1>5. CASE Judges(r)
  <2>1. reader' \in Readers
    <3>1. CASE reader' \in {[reader EXCEPT !.pc = "apply", !.mark = mark],
                           [reader EXCEPT !.pc = "apply", !.mark = reader.mark]}
      BY <1>t, <3>1 DEF Readers
    <3> QED BY <1>5, <1>v, <3>1 DEF Judges
  <2> QED BY <1>1, <1>5, <2>1 DEF Judges, Reading, Typed
<1>a. reader.pc \in {"judge", "apply", "note", "verdict"} =>
        /\ reader.qid \in Nat
        /\ Answer \in Answers
        /\ Answer.device \in Devices /\ Answer.time \in Times
        /\ Answer.choice # "correct" => Answer.choice \in Decisions
  BY <1>1, <1>t, AnswerFacts DEF Readers
<1>c. ASSUME NEW h \in Histories, reader.pc = "apply"
      PROVE  Counts(h) \in Histories
  <2>1. [qid |-> reader.qid, time |-> Answer.time, device |-> Answer.device]
          \in [qid : Nat, time : Times, device : Devices]
    BY <1>a, <1>c
  <2>2. h.counted \cup {[qid |-> reader.qid, time |-> Answer.time,
                         device |-> Answer.device]}
          \in SUBSET [qid : Nat, time : Times, device : Devices]
    BY <2>1 DEF Histories
  <2> QED BY <2>2 DEF Counts, Histories
<1>6. CASE Decides(r)
  <2>1. reader.pc = "apply" /\ reader' \in Readers
    BY <1>6, <1>t DEF Decides, Reading, ReaderAt, Readers
  <2>2. history' \in Histories
    BY <1>1, <1>6, <1>c, <2>1 DEF Decides, Typed
  <2>3. runs' \in [Runs -> RunStates] /\ ends' \subseteq Runs
    BY <1>1, <1>6, <1>a, <2>1, EndTyped DEF Decides, Outcomes
  <2> QED BY <1>1, <1>6, <2>1, <2>2, <2>3 DEF Decides, Reading, Typed
<1>7. CASE DecidesNothing(r)
  <2>1. reader' \in Readers
    BY <1>7, <1>v DEF DecidesNothing
  <2> QED BY <1>1, <1>7, <2>1 DEF DecidesNothing, Reading, Typed
<1>8. CASE Corrects(r)
  <2>1. reader.pc = "apply"
    BY <1>8 DEF Corrects, Reading, ReaderAt
  <2>2. CASE UNCHANGED <<declared, history>> /\ (Verdict("ended") \/ Verdict("refused"))
    BY <1>1, <1>8, <1>v, <2>2 DEF Corrects, Reading, Typed
  <2>3. CASE /\ declared' = [event |-> declared.event + 1, at |-> 0]
             /\ history' = [Counts(history) EXCEPT !.corrected = Answer.time]
             /\ reader' = [reader EXCEPT !.pc = "note", !.verdict = "corrected",
                             !.mark = [event |-> declared'.event,
                                       at |-> Answer.time]]
    <3>1. declared' \in EventsOf
      BY <1>1, <2>3, Bounds DEF Typed, EventsOf
    <3>2. Answer.time \in 0..MaxTime
      BY <1>a, <2>1, Bounds DEF Times
    <3>3. Counts(history) \in Histories
      BY <1>1, <1>c, <2>1 DEF Typed
    <3>4. history' \in Histories
      BY <2>3, <3>2, <3>3 DEF Histories
    <3>5. [event |-> declared'.event, at |-> Answer.time] \in EventsOf
      BY <3>1, <3>2 DEF EventsOf
    <3>6. reader' \in Readers
      BY <1>t, <2>3, <3>5 DEF Readers
    <3> QED BY <1>1, <1>8, <3>1, <3>4, <3>6 DEF Corrects, Reading, Typed
  <2> QED BY <1>8, <2>2, <2>3 DEF Corrects
<1>9. CASE Notes(r)
  <2>1. reader.pc = "note" /\ mark' \in EventsOf
    BY <1>9, <1>t DEF Notes, Reading, ReaderAt, Readers
  <2>2. reader' \in Readers
    BY <1>9, <1>t, <1>v DEF Notes, Readers
  <2>3. [asked[r] EXCEPT !.applied[Answer.device] = Answer.time] \in Questions
    BY <1>t, <1>a, <2>1, Bounds DEF Questions, Times
  <2>4. asked' \in [Runs -> Questions]
    BY <1>9, <1>t, <2>3 DEF Notes
  <2> QED BY <1>1, <1>9, <2>1, <2>2, <2>4 DEF Notes, Reading, Typed
<1>10. CASE SettlesIt(r)
  <2>1. reader' \in Readers
    BY <1>10, Bounds, NoEventType DEF SettlesIt, Readers, NotReading
  <2>2. /\ relay' \in Seq(Cards) /\ faults' \in 0..MaxFaults
        /\ history' \in Histories /\ asked' \in [Runs -> Questions]
    BY <1>1, <1>10, SettlesItKinds, DropsTyped, NotAskedType DEF Typed
  <2> QED BY <1>1, <1>10, <2>1, <2>2 DEF SettlesIt, Reading, Typed
<1>11. ASSUME NEW epoch, LetsGo(r, epoch)
       PROVE  /\ relay' \in Seq(Cards) /\ faults' \in 0..MaxFaults
              /\ history' \in Histories /\ asked' \in [Runs -> Questions]
  <2>1. [asked[r] EXCEPT !.applying = FALSE] \in Questions
    BY <1>t DEF Questions
  <2> QED BY <1>1, <1>t, <1>11, <2>1, LetsGoKinds, DropsTyped DEF Kept, Typed
<1>12. CASE GoesOn(r) \/ StopsReading(r)
  <2>1. reader' \in Readers
    <3>0. reader.next + 1 \in Nat
      BY <1>t DEF Readers
    <3>1. CASE reader' = [reader EXCEPT !.pc = "answers", !.next = @ + 1,
                                       !.verdict = "none"]
      BY <1>t, <3>0, <3>1 DEF Readers
    <3> QED BY <1>12, <3>1, NotReadingType DEF GoesOn, StopsReading
  <2> QED BY <1>1, <1>11, <1>12, <2>1 DEF GoesOn, StopsReading, Reading, Typed
<1> QED BY <1>2, <1>3, <1>4, <1>5, <1>6, <1>7, <1>8, <1>9, <1>10, <1>12 DEF ReaderSteps

LEMMA TypedStep ==
  ASSUME IInv, [Next]_vars
  PROVE  Typed'
<1>1. Typed
  BY DEF IInv, TypeOK
<1>2. CASE UNCHANGED vars
  BY <1>1, <1>2 DEF vars, Typed
<1> QED BY <1>1, <1>2, OwnerTyped, RelayTyped, PosterTyped, ReaderTyped DEF Next

(***************************************************************************)
(* What the queue never takes back.                                        *)
(***************************************************************************)

\* A run that is over stays so, with its end, and a run that ends has an end
\* that the poster will take.
RunsGoOn ==
  \A r \in Runs :
    /\ runs[r].state = "over" => runs'[r] = runs[r]
    /\ runs[r].state # "new" => runs'[r].state # "new"
    /\ runs[r].state = "waits" => runs'[r].state = "waits" \/ r \in ends'
    /\ runs'[r].state = "over" <=> runs'[r].end # NoEnd
    /\ runs'[r].state = "over" =>
         (runs'[r].end.outcome \in Decisions <=> runs'[r].end.by # Nobody)
    /\ r \in ends' => runs'[r].state = "over"

LEMMA EndGoesOn ==
  ASSUME Typed, Linked, \A r \in Runs : RunOK(r),
         NEW over \in SUBSET Waiting, NEW outcome \in Outcomes,
         NEW by \in Devices \cup {Mac, Nobody}, End(over, outcome, by),
         outcome \in Decisions <=> by # Nobody
  PROVE  RunsGoOn
<1>1. [outcome |-> outcome, by |-> by] # NoEnd
  BY RelayQuestionsAssumption DEF NoEnd, Outcomes
<1>2. ASSUME NEW r \in Runs
      PROVE  /\ r \in over => runs[r].state = "waits"
             /\ runs'[r] = IF r \in over
                  THEN [state |-> "over", end |-> [outcome |-> outcome, by |-> by]]
                  ELSE runs[r]
             /\ r \in ends' <=> r \in ends \/ r \in over
  BY DEF End, Waiting
<1> QED BY <1>1, <1>2 DEF RunsGoOn, Typed, Linked, RunOK, RunStates

LEMMA RunsStep ==
  ASSUME IInv, [Next]_vars
  PROVE  RunsGoOn
<1>1. Typed /\ Linked /\ ReaderOK /\ \A r \in Runs : RunOK(r)
  BY DEF IInv, TypeOK
<1>2. ASSUME UNCHANGED runs, ends' \subseteq ends
      PROVE  RunsGoOn
  BY <1>1, <1>2 DEF RunsGoOn, Typed, Linked, RunOK, RunStates
<1>3. ASSUME NEW r \in Runs, StartsToWait(r)
      PROVE  RunsGoOn
  <2>1. /\ UNCHANGED ends /\ runs[r].state = "new"
        /\ runs' = [runs EXCEPT ![r].state = "waits"]
    BY <1>3 DEF StartsToWait
  <2> QED BY <1>1, <2>1 DEF RunsGoOn, Typed, Linked, RunOK, RunStates
<1>4. ASSUME NEW r \in Runs, EndsHere(r)
      PROVE  RunsGoOn
  BY <1>1, <1>4, EndGoesOn, RelayQuestionsAssumption DEF EndsHere, Outcomes
<1>5. CASE Lock
  BY <1>1, <1>5, EndGoesOn, RelayQuestionsAssumption DEF Lock, Outcomes
<1>6. ASSUME NEW r \in Runs, Decides(r)
      PROVE  RunsGoOn
  <2>1. /\ Answer.choice \in Decisions
        /\ Answer.device \in Devices /\ Answer.device # Nobody
    BY <1>1, <1>6, AnswerFacts DEF Decides, Reading, ReaderAt
  <2>2. {r} \in SUBSET Waiting
    BY <1>6 DEF Decides
  <2> QED BY <1>1, <1>6, <2>1, <2>2, EndGoesOn DEF Decides, Outcomes
<1>7. CASE TakesEnded
  <2>1. UNCHANGED runs /\ ends' = {}
    BY <1>7 DEF TakesEnded
  <2> QED BY <1>2, <2>1
<1>8. ASSUME NEW r \in Runs,
             \/ Polls(r) \/ HandlesEnd(r) \/ Skips(r) \/ KeepsLocal(r)
             \/ Asks(r) \/ Retries(r) \/ Posts(r) \/ PostBreaks(r)
             \/ PostRefused(r) \/ PostLeft(r)
             \/ TakesNext(r) \/ TakesNoMore(r) \/ Judges(r)
             \/ DecidesNothing(r) \/ Corrects(r) \/ Notes(r) \/ SettlesIt(r)
             \/ GoesOn(r) \/ StopsReading(r)
      PROVE  UNCHANGED <<runs, ends>>
  BY <1>8 DEF Polls, HandlesEnd, Skips, KeepsLocal, Asks, Retries, Turns, Posts,
              PostBreaks, PostRefused, PostLeft, Posting, TakesNext, TakesNoMore,
              Judges, DecidesNothing, Corrects, Notes, SettlesIt, GoesOn,
              StopsReading, queue
<1>9. ASSUME NEW q \in DOMAIN relay,
             Expires(q) \/ \E a \in Answers : TakesAnswer(q, a)
      PROVE  UNCHANGED <<runs, ends>>
  BY <1>9 DEF Expires, TakesAnswer, queue
<1>10. CASE \/ ChangesEnvironment \/ Unlock \/ Forget \/ UNCHANGED vars
            \/ ReadsPending \/ FindsSession \/ FindsNoSession \/ DropsGone
  BY <1>2, <1>10 DEF ChangesEnvironment, Unlock, Forget, ReadsPending,
     FindsSession, FindsNoSession, DropsGone, vars, queue
<1> QED BY <1>2, <1>3, <1>4, <1>5, <1>6, <1>7, <1>8, <1>9, <1>10
        DEF Next, PosterSteps, ReaderSteps

(***************************************************************************)
(* What can happen to the question of a run.                               *)
(***************************************************************************)

AskedMove(r) ==
  \/ asked'[r] = asked[r]
  \/ asked'[r] = NotAsked
  \/ Asks(r) /\ asked'[r] = [NotAsked EXCEPT !.qid = Len(relay')]
  \/ /\ HandlesEnd(r) /\ IsAsked(r) /\ asked[r].applying
     /\ asked'[r] = [asked[r] EXCEPT !.ended = TRUE]
  \/ Posts(r) /\ asked'[r] = [asked[r] EXCEPT !.posted = TRUE]
  \/ /\ TakesNext(r) /\ SameQuestion(r)
     /\ asked'[r] = [asked[r] EXCEPT !.last = reader.next, !.applying = TRUE]
  \/ TakesNoMore(r) /\ asked'[r] = [asked[r] EXCEPT !.finished = TRUE]
  \/ /\ Notes(r) /\ SameQuestion(r)
     /\ asked'[r] = [asked[r] EXCEPT !.applied[Answer.device] = Answer.time]
  \/ /\ GoesOn(r) \/ StopsReading(r)
     /\ IsAsked(r) /\ ~asked[r].ended
     /\ asked'[r] = [asked[r] EXCEPT !.applying = FALSE]

LEMMA AskedMoves ==
  ASSUME IInv, [Next]_vars, NEW r \in Runs
  PROVE  AskedMove(r)
<1>1. Typed /\ asked \in [Runs -> Questions]
  BY DEF IInv, TypeOK, Typed
<1>2. CASE UNCHANGED asked
  BY <1>2 DEF AskedMove
<1>3. CASE DropAsked
  BY <1>3 DEF DropAsked, AskedMove
<1>4. ASSUME NEW p \in Runs, asked' = [asked EXCEPT ![p] = NotAsked]
      PROVE  AskedMove(r)
  BY <1>1, <1>4 DEF AskedMove
<1>5. ASSUME NEW p \in Runs, HandlesEnd(p)
      PROVE  AskedMove(r)
  BY <1>1, <1>2, <1>4, <1>5, HandlesEndKinds DEF AskedMove, Drops, Kept
<1>6. ASSUME NEW p \in Runs, GoesOn(p) \/ StopsReading(p)
      PROVE  AskedMove(r)
  <2>1. \E epoch : LetsGo(p, epoch)
    BY <1>6 DEF GoesOn, StopsReading
  <2> QED BY <1>1, <1>2, <1>4, <1>6, <2>1, LetsGoKinds DEF AskedMove, Drops, Kept
<1>7. ASSUME NEW p \in Runs, SettlesIt(p)
      PROVE  AskedMove(r)
  BY <1>4, <1>7 DEF SettlesIt
<1>8. ASSUME NEW p \in Runs, Asks(p)
      PROVE  AskedMove(r)
  BY <1>1, <1>8 DEF Asks, AskedMove
<1>9. ASSUME NEW p \in Runs, Posts(p)
      PROVE  AskedMove(r)
  BY <1>1, <1>9 DEF Posts, AskedMove
<1>10. ASSUME NEW p \in Runs, PostBreaks(p) \/ PostRefused(p) \/ PostLeft(p)
       PROVE  AskedMove(r)
  BY <1>2, <1>4, <1>10 DEF PostBreaks, PostRefused, PostLeft
<1>11. ASSUME NEW p \in Runs, TakesNext(p)
       PROVE  AskedMove(r)
  BY <1>1, <1>2, <1>11 DEF TakesNext, AskedMove
<1>12. ASSUME NEW p \in Runs, TakesNoMore(p)
       PROVE  AskedMove(r)
  BY <1>1, <1>2, <1>12 DEF TakesNoMore, AskedMove
<1>13. ASSUME NEW p \in Runs, Notes(p)
       PROVE  AskedMove(r)
  BY <1>1, <1>2, <1>13 DEF Notes, AskedMove
<1>14. ASSUME NEW p \in Runs,
              \/ StartsToWait(p) \/ EndsHere(p) \/ Polls(p)
              \/ Skips(p) \/ KeepsLocal(p) \/ Retries(p)
              \/ Judges(p) \/ Decides(p) \/ DecidesNothing(p) \/ Corrects(p)
       PROVE  UNCHANGED asked
  BY <1>14 DEF StartsToWait, EndsHere, Polls, Skips, KeepsLocal, Retries, Judges,
               Decides, DecidesNothing, Corrects, worker
<1>15. ASSUME NEW q \in DOMAIN relay,
              Expires(q) \/ \E a \in Answers : TakesAnswer(q, a)
       PROVE  UNCHANGED asked
  BY <1>15 DEF Expires, TakesAnswer, worker
<1>16. CASE DropsGone
  BY <1>2, <1>16, NothingGone DEF DropsGone
<1>17. CASE \/ ChangesEnvironment \/ Lock \/ Unlock \/ Forget \/ UNCHANGED vars
            \/ ReadsPending \/ TakesEnded \/ FindsSession \/ FindsNoSession
  BY <1>2, <1>3, <1>17 DEF ChangesEnvironment, Lock, Unlock, Forget, ReadsPending,
     TakesEnded, FindsSession, FindsNoSession, ForgetSession, worker, vars
<1> QED BY <1>2, <1>5, <1>6, <1>7, <1>8, <1>9, <1>10, <1>11, <1>12, <1>13, <1>14,
           <1>15, <1>16, <1>17 DEF Next, PosterSteps, ReaderSteps

\* What the devices are told is how the run ended.
Truth(r, settle) ==
  /\ runs[r].state = "over"
  /\ settle \in Ends
  /\ settle \in {LocalSettle(r), runs[r].end}

\* What can happen to a card.
CardMove(q) ==
  \/ relay'[q] = relay[q]
  \/ \E settle \in Ends :
       /\ relay[q].state = "open" /\ Truth(relay[q].run, settle)
       /\ relay'[q] = [relay[q] EXCEPT !.state = "settled", !.settle = settle]
  \/ /\ relay[q].state = "unposted" /\ PosterAt("post") /\ q = poster.qid
     /\ \E r \in Runs : Posts(r) \/ PostBreaks(r) \/ PostLeft(r)
     /\ relay'[q] = [relay[q] EXCEPT !.state = "open"]
  \/ relay'[q] = [relay[q] EXCEPT !.state = "expired"]
     /\ relay[q].state = "open"
  \/ \E a \in Answers :
       /\ relay[q].state = "open"
       /\ relay'[q] = [relay[q] EXCEPT !.answers = Append(@, a)]

CardMoves ==
  /\ DOMAIN relay \subseteq DOMAIN relay'
  /\ \A q \in DOMAIN relay' :
       \/ q \in DOMAIN relay /\ CardMove(q)
       \/ \E r \in Runs : /\ Asks(r) /\ q = Len(relay') /\ q \notin DOMAIN relay
                          /\ relay'[q] = NewCard(r)

LEMMA DropsCards ==
  ASSUME Typed, Linked, NEW r \in Runs, IsAsked(r), NEW settle,
         Truth(r, settle), Drops(r, settle)
  PROVE  CardMoves
<1>1. asked[r].qid \in DOMAIN relay /\ relay[asked[r].qid].run = r
  BY DEF Linked
<1>2. settle \in Ends
  BY DEF Truth
<1>3. ASSUME NEW p \in DOMAIN relay
      PROVE  CardMove(p)
  <2>1. CASE relay'[p] = relay[p]
    BY <2>1 DEF CardMove
  <2>2. CASE p = asked[r].qid /\ relay'[p] = Settled(relay[p], settle)
    BY <1>1, <1>2, <2>2 DEF Settled, CardMove
  <2> QED BY <1>3, <2>1, <2>2 DEF Drops, Sends
<1> QED BY <1>3 DEF CardMoves, Drops, Sends

LEMMA CardsMove ==
  ASSUME IInv, [Next]_vars
  PROVE  CardMoves
<1>1. Typed /\ Linked /\ ReaderOK
  BY DEF IInv, TypeOK
<1>2. ASSUME UNCHANGED relay
      PROVE  CardMoves
  BY <1>2 DEF CardMoves, CardMove
<1>3. ASSUME NEW q \in DOMAIN relay, Expires(q)
      PROVE  CardMoves
  BY <1>1, <1>3, ExpiryChanges DEF Expires, Changed, CardMoves, CardMove
<1>4. ASSUME NEW q \in DOMAIN relay, NEW a \in Answers, TakesAnswer(q, a)
      PROVE  CardMoves
  BY <1>1, <1>4, AnswerChanges DEF TakesAnswer, Changed, CardMoves, CardMove
<1>5. ASSUME NEW r \in Runs, Asks(r)
      PROVE  CardMoves
  <2>1. /\ DOMAIN relay = 1..Len(relay) /\ Len(relay) \in Nat
        /\ Len(relay') = Len(relay) + 1
        /\ DOMAIN relay' = 1..(Len(relay) + 1)
        /\ \A q \in DOMAIN relay : relay'[q] = relay[q]
        /\ relay'[Len(relay')] = NewCard(r)
    BY <1>1, <1>5, AskAppends, CardFacts
  <2>2. \A q \in DOMAIN relay' : q \in DOMAIN relay \/ (q = Len(relay') /\ q \notin DOMAIN relay)
    BY <2>1
  <2>3. \A q \in DOMAIN relay : CardMove(q)
    BY <2>1 DEF CardMove
  <2>4. DOMAIN relay \subseteq DOMAIN relay'
    BY <2>1
  <2> QED BY <1>5, <2>1, <2>2, <2>3, <2>4 DEF CardMoves
<1>6. ASSUME NEW r \in Runs, runs[r].state = "over"
      PROVE  Truth(r, LocalSettle(r)) /\ Truth(r, runs[r].end)
  <2>1. runs[r].end \in Ends
    BY <1>1, <1>6 DEF Typed, Linked, RunStates
  <2> QED BY <1>1, <1>6, <2>1, LocalSettleEnds DEF Truth
<1>7. ASSUME NEW r \in Runs, HandlesEnd(r)
      PROVE  CardMoves
  <2>1. runs[r].state = "over"
    BY <1>7 DEF HandlesEnd, IInv, RunOK
  <2> QED BY <1>1, <1>2, <1>6, <1>7, <2>1, HandlesEndKinds, DropsCards DEF Kept
<1>8. ASSUME NEW r \in Runs, GoesOn(r) \/ StopsReading(r)
      PROVE  CardMoves
  <2>1. PICK epoch : LetsGo(r, epoch)
    BY <1>8 DEF GoesOn, StopsReading
  <2> QED BY <1>1, <1>2, <1>6, <2>1, LetsGoKinds, DropsCards DEF Kept
<1>9. ASSUME NEW r \in Runs, SettlesIt(r)
      PROVE  CardMoves
  BY <1>1, <1>2, <1>6, <1>9, SettlesItKinds, DropsCards
<1>10. ASSUME NEW r \in Runs,
              Posts(r) \/ PostBreaks(r) \/ PostRefused(r) \/ PostLeft(r)
       PROVE  CardMoves
  <2>1. poster.qid \in DOMAIN relay /\ PosterAt("post")
    BY <1>10 DEF IInv, PosterOK, PostOK, Posts, PostBreaks, PostRefused, PostLeft, Posting
  <2>2. CASE /\ Posts(r) \/ PostBreaks(r) \/ PostLeft(r)
             /\ relay' = Lands(poster.qid)
    <3>1. Changed(poster.qid, IF relay[poster.qid].state = "unposted"
                                THEN [relay[poster.qid] EXCEPT !.state = "open"]
                                ELSE relay[poster.qid])
      BY <1>1, <2>1, <2>2, LandChanges
    <3> QED BY <2>1, <2>2, <3>1 DEF Changed, CardMoves, CardMove
  <2> QED BY <1>2, <1>10, <2>2 DEF Posts, PostBreaks, PostRefused, PostLeft
<1>11. CASE DropsGone
  BY <1>2, <1>11, NothingGone DEF DropsGone
<1>12. ASSUME NEW r \in Runs,
              \/ StartsToWait(r) \/ EndsHere(r) \/ Polls(r)
              \/ Skips(r) \/ KeepsLocal(r) \/ Retries(r)
              \/ TakesNext(r) \/ TakesNoMore(r) \/ Judges(r) \/ Decides(r)
              \/ DecidesNothing(r) \/ Corrects(r) \/ Notes(r)
       PROVE  UNCHANGED relay
  BY <1>12 DEF StartsToWait, EndsHere, Polls, Skips, KeepsLocal, Retries,
               TakesNext, TakesNoMore, Judges, Decides, DecidesNothing, Corrects, Notes
<1>13. CASE \/ ChangesEnvironment \/ Lock \/ Unlock \/ Forget \/ UNCHANGED vars
            \/ ReadsPending \/ TakesEnded \/ FindsSession \/ FindsNoSession
  BY <1>2, <1>13
     DEF ChangesEnvironment, Lock, Unlock, Forget, ReadsPending, TakesEnded,
         FindsSession, FindsNoSession, vars
<1> QED BY <1>2, <1>3, <1>4, <1>5, <1>7, <1>8, <1>9, <1>10, <1>11, <1>12, <1>13
        DEF Next, PosterSteps, ReaderSteps

\* A card later: what the relay never takes back.
Later(card, later) ==
  /\ later.run = card.run
  /\ card.state # "unposted" => later.state # "unposted"
  /\ card.state \notin {"unposted", "open"} =>
       later.state = card.state /\ later.settle = card.settle
  /\ Len(card.answers) <= Len(later.answers)
  /\ \A i \in 1..Len(card.answers) : later.answers[i] = card.answers[i]

RelayGrows ==
  /\ DOMAIN relay \subseteq DOMAIN relay'
  /\ \A q \in DOMAIN relay : Later(relay[q], relay'[q])

LEMMA Grows ==
  ASSUME Typed, CardMoves
  PROVE  RelayGrows
<1> SUFFICES ASSUME NEW q \in DOMAIN relay PROVE Later(relay[q], relay'[q])
  BY DEF RelayGrows, CardMoves
<1>1. /\ relay[q] \in Cards /\ Len(relay[q].answers) \in Nat
      /\ relay[q].answers \in Seq(Answers)
  BY CardFacts DEF Cards
<1>2. ASSUME NEW a \in Answers, relay'[q] = [relay[q] EXCEPT !.answers = Append(@, a)]
      PROVE  Later(relay[q], relay'[q])
  <2>1. /\ Len(Append(relay[q].answers, a)) = Len(relay[q].answers) + 1
        /\ \A i \in 1..Len(relay[q].answers) :
             Append(relay[q].answers, a)[i] = relay[q].answers[i]
    BY <1>1, AppendProperties
  <2>2. /\ relay'[q].run = relay[q].run /\ relay'[q].state = relay[q].state
        /\ relay'[q].settle = relay[q].settle
        /\ relay'[q].answers = Append(relay[q].answers, a)
    BY <1>1, <1>2 DEF Cards
  <2> QED BY <1>1, <2>1, <2>2 DEF Later
<1>3. q \in DOMAIN relay' /\ CardMove(q)
  BY DEF CardMoves
<1>4. CASE relay'[q] = relay[q]
  BY <1>1, <1>4 DEF Later
<1>5. ASSUME NEW settle, relay[q].state = "open",
             relay'[q] = [relay[q] EXCEPT !.state = "settled", !.settle = settle]
      PROVE  Later(relay[q], relay'[q])
  BY <1>1, <1>5 DEF Later, Cards
<1>7. CASE /\ relay[q].state = "open"
           /\ relay'[q] = [relay[q] EXCEPT !.state = "expired"]
  BY <1>1, <1>7 DEF Later, Cards
<1>6. CASE /\ relay[q].state = "unposted"
           /\ relay'[q] = [relay[q] EXCEPT !.state = "open"]
  BY <1>1, <1>6 DEF Later, Cards
<1> QED BY <1>2, <1>3, <1>4, <1>5, <1>6, <1>7 DEF CardMove

\* What the parts say of one another.
LEMMA LinkedStep ==
  ASSUME IInv, [Next]_vars
  PROVE  Linked'
<1>1. Typed /\ Typed' /\ Linked /\ RunsGoOn /\ CardMoves /\ RelayGrows
  BY TypedStep, RunsStep, CardsMove, Grows DEF IInv, TypeOK
<1>5. \A q \in DOMAIN relay' : relay'[q] \in Cards /\ Len(relay'[q].answers) \in Nat
  <2>1. relay' \in [DOMAIN relay' -> Cards]
    BY <1>1, LenProperties DEF Typed
  <2>2. \A c \in Cards : Len(c.answers) \in Nat
    BY LenProperties DEF Cards
  <2> QED BY <2>1, <2>2
<1>4. ASSUME NEW r \in Runs, IsAsked(r)
      PROVE  /\ asked[r].qid \in DOMAIN relay' /\ relay'[asked[r].qid].run = r
             /\ asked[r].posted => relay'[asked[r].qid].state # "unposted"
             /\ \A n \in Nat : n <= Len(relay[asked[r].qid].answers) =>
                  n <= Len(relay'[asked[r].qid].answers)
             /\ asked[r].last <= Len(relay'[asked[r].qid].answers)
  <2>1. /\ asked[r].qid \in DOMAIN relay /\ asked[r].last \in Nat
        /\ Len(relay[asked[r].qid].answers) \in Nat
    BY <1>1, <1>4, CardFacts DEF Linked, Typed, Questions
  <2>2. Len(relay'[asked[r].qid].answers) \in Nat
    BY <1>1, <1>5, <2>1 DEF RelayGrows
  <2> QED BY <1>1, <1>4, <2>1, <2>2 DEF Linked, RelayGrows, Later
<1>2. ASSUME NEW r \in Runs, IsAsked(r)'
      PROVE  /\ asked'[r].qid \in DOMAIN relay' /\ relay'[asked'[r].qid].run = r
             /\ asked'[r].posted => relay'[asked'[r].qid].state # "unposted"
             /\ asked'[r].last <= Len(relay'[asked'[r].qid].answers)
  <2>1. AskedMove(r) /\ AskedOK(r) /\ asked[r] \in Questions
    BY <1>1, AskedMoves DEF IInv, Typed
  <2>2. CASE Asks(r) /\ asked'[r] = [NotAsked EXCEPT !.qid = Len(relay')]
    <3>1. /\ Len(relay') \in DOMAIN relay'
          /\ relay'[Len(relay')] = NewCard(r)
      BY <1>1, <2>2, AskAppends, CardFacts
    <3>2. Len(relay'[Len(relay')].answers) = 0
      BY <3>1, EmptySeq DEF NewCard
    <3> QED BY <2>2, <3>1, <3>2 DEF NotAsked, NewCard
  <2>3. CASE Posts(r) /\ asked'[r] = [asked[r] EXCEPT !.posted = TRUE]
    <3>1. asked[r].qid = poster.qid /\ IsAsked(r) /\ poster.qid \in DOMAIN relay
      BY <2>3 DEF Posts, Posting, IInv, PosterOK, PostOK
    <3>2. relay[poster.qid] \in Cards
      BY <1>1, <3>1, CardFacts
    <3>3. relay'[poster.qid] = IF relay[poster.qid].state = "unposted"
                                 THEN [relay[poster.qid] EXCEPT !.state = "open"]
                                 ELSE relay[poster.qid]
      BY <1>1, <2>3, <3>1, LandChanges DEF Posts, Changed
    <3>4. relay'[poster.qid].state # "unposted"
      BY <3>2, <3>3 DEF Cards
    <3>5. asked'[r].qid = asked[r].qid /\ asked'[r].last = asked[r].last
      BY <2>1, <2>3 DEF Questions
    <3> QED BY <1>4, <3>1, <3>4, <3>5
  <2>4. CASE TakesNext(r) /\ SameQuestion(r)
             /\ asked'[r] = [asked[r] EXCEPT !.last = reader.next, !.applying = TRUE]
    <3>1. /\ asked'[r].qid = asked[r].qid /\ asked'[r].last = reader.next
          /\ asked'[r].posted = asked[r].posted
      BY <2>1, <2>4 DEF Questions
    <3>2. /\ reader.qid = asked[r].qid /\ reader.next <= reader.upto
          /\ reader.upto <= Len(relay[reader.qid].answers)
          /\ reader.next \in Nat /\ reader.upto \in Nat
      BY <1>1, <2>4 DEF SameQuestion, TakesNext, Reading, ReaderAt, IInv, ReaderOK,
                        Typed, Readers
    <3>3. reader.qid # 0 /\ IsAsked(r)
      BY <3>1, <3>2, <1>2 DEF IsAsked
    <3>4. reader.next <= Len(relay[asked[r].qid].answers)
      BY <1>1, <1>4, <3>2, <3>3
    <3> QED BY <1>4, <3>1, <3>2, <3>3, <3>4
  <2>5. CASE /\ asked'[r].qid = asked[r].qid /\ asked'[r].last = asked[r].last
             /\ asked'[r].posted = asked[r].posted
    BY <1>2, <1>4, <2>5 DEF IsAsked
  <2>6. CASE asked'[r] = NotAsked
    BY <1>2, <2>6 DEF IsAsked, NotAsked
  <2> QED BY <2>1, <2>2, <2>3, <2>4, <2>5, <2>6 DEF AskedMove, Questions
<1>3. ASSUME NEW q \in DOMAIN relay'
      PROVE  relay'[q].state = "settled" <=> relay'[q].settle # NoEnd
  <2>1. ASSUME q \in DOMAIN relay, CardMove(q)
        PROVE  relay'[q].state = "settled" <=> relay'[q].settle # NoEnd
    <3>1. relay[q] \in Cards /\ (relay[q].state = "settled" <=> relay[q].settle # NoEnd)
      BY <1>1, <2>1, CardFacts DEF Linked
    <3>2. \A e \in Ends : e # NoEnd
      BY RelayQuestionsAssumption DEF Ends, NoEnd, Outcomes
    <3> QED BY <2>1, <3>1, <3>2 DEF CardMove, Cards
  <2>2. NewCard(relay'[q].run).state # "settled"
        /\ NewCard(relay'[q].run).settle = NoEnd
    BY DEF NewCard
  <2> QED BY <1>1, <2>1, <2>2 DEF CardMoves, NewCard
<1> QED BY <1>1, <1>2, <1>3 DEF Linked, RunsGoOn

(***************************************************************************)
(* The poster knows of every run that ended.                               *)
(***************************************************************************)

\* Only the poster moves the poster, and only it takes ends.
LEMMA OthersKeepPoster ==
  ASSUME [Next]_vars
  PROVE  PosterSteps \/ (UNCHANGED poster /\ ends \subseteq ends')
<1>1. ASSUME NEW r \in Runs, ReaderSteps(r)
      PROVE  UNCHANGED poster /\ ends \subseteq ends'
  BY <1>1 DEF ReaderSteps, TakesNext, TakesNoMore, Judges, Decides, DecidesNothing,
              Corrects, Notes, SettlesIt, GoesOn, StopsReading, Reading, End, queue
<1>2. ASSUME NEW r \in Runs, StartsToWait(r) \/ EndsHere(r) \/ Polls(r)
      PROVE  UNCHANGED poster /\ ends \subseteq ends'
  BY <1>2 DEF StartsToWait, EndsHere, Polls, End, queue
<1>3. ASSUME NEW q \in DOMAIN relay,
             Expires(q) \/ \E a \in Answers : TakesAnswer(q, a)
      PROVE  UNCHANGED poster /\ ends \subseteq ends'
  BY <1>3 DEF Expires, TakesAnswer, queue
<1>4. CASE ChangesEnvironment \/ Lock \/ Unlock \/ Forget \/ UNCHANGED vars
  BY <1>4 DEF ChangesEnvironment, Lock, Unlock, Forget, End, queue, vars
<1> QED BY <1>1, <1>2, <1>3, <1>4 DEF Next

\* Steps at the snapshot of the poster.
AtSnapshot(r) ==
  \/ Skips(r) \/ KeepsLocal(r) \/ Asks(r) \/ Retries(r)
  \/ Posts(r) \/ PostBreaks(r) \/ PostRefused(r) \/ PostLeft(r)

LEMMA SnapshotSteps ==
  ASSUME Typed, NEW r \in Runs, AtSnapshot(r)
  PROVE  /\ poster.pc \in {"runs", "post"} /\ poster'.pc \in {"runs", "post"}
         /\ poster'.snap \subseteq poster.snap
         /\ poster'.got = poster.got
         /\ poster'.epoch = poster.epoch
         /\ UNCHANGED <<runs, ends, active, vault, reader>>
<1>1. poster \in Posters
  BY DEF Typed
<1>2. \/ poster' = [poster EXCEPT !.snap = @ \ {r}]
      \/ poster' = [poster EXCEPT !.pc = "post", !.snap = @ \ {r},
                                  !.run = {r}, !.qid = asked[r].qid]
      \/ poster' = [poster EXCEPT !.pc = "post", !.snap = @ \ {r},
                                  !.run = {r}, !.qid = Len(relay')]
      \/ poster' = [poster EXCEPT !.pc = "runs", !.run = {}, !.qid = 0]
  BY DEF AtSnapshot, Skips, KeepsLocal, Asks, Retries, Posts, PostBreaks,
         PostRefused, PostLeft, Posting
<1>3. poster.pc \in {"runs", "post"}
  BY DEF AtSnapshot, Skips, KeepsLocal, Asks, Retries, Turns, Posts, PostBreaks,
         PostRefused, PostLeft, Posting, PosterAt
<1>4. UNCHANGED <<runs, ends, active, vault, reader>>
  BY DEF AtSnapshot, Skips, KeepsLocal, Asks, Retries, Turns, Posts, PostBreaks,
         PostRefused, PostLeft, Posting, queue
<1> QED BY <1>1, <1>2, <1>3, <1>4 DEF Posters

LEMMA RunStep ==
  ASSUME IInv, [Next]_vars, NEW r \in Runs
  PROVE  RunOK(r)'
<1>1. Typed /\ RunOK(r) /\ RunsGoOn /\ runs[r] \in RunStates /\ poster \in Posters
  BY RunsStep DEF IInv, TypeOK, Typed
<1>2. ASSUME poster'.got \subseteq poster.got, poster'.snap \subseteq poster.snap,
             ends \subseteq ends'
      PROVE  RunOK(r)'
  BY <1>1, <1>2 DEF RunOK, RunsGoOn
<1>3. CASE ReadsPending
  <2>1. /\ UNCHANGED <<runs, ends>>
        /\ poster'.got = {} /\ poster'.snap = Waiting
    BY <1>3 DEF ReadsPending, queue, Resting
  <2> QED BY <1>1, <2>1 DEF RunOK, RunsGoOn, Waiting
<1>4. CASE TakesEnded
  <2>1. /\ UNCHANGED runs /\ ends' = {}
        /\ poster'.got = ends /\ poster'.snap = poster.snap \ ends
    BY <1>1, <1>4 DEF TakesEnded, Posters
  <2> QED BY <1>1, <2>1 DEF RunOK, RunsGoOn
<1>5. CASE FindsSession \/ DropsGone \/ \E p \in Runs : HandlesEnd(p)
  <2>1. UNCHANGED ends /\ poster'.snap = poster.snap /\ poster'.got \subseteq poster.got
    BY <1>1, <1>5 DEF FindsSession, DropsGone, HandlesEnd, queue, Posters
  <2> QED BY <1>2, <2>1
<1>6. CASE FindsNoSession
  <2>1. UNCHANGED ends /\ poster'.snap = {} /\ poster'.got = {}
    BY <1>6 DEF FindsNoSession, queue, Resting
  <2> QED BY <1>2, <2>1
<1>7. ASSUME NEW p \in Runs, AtSnapshot(p)
      PROVE  RunOK(r)'
  BY <1>1, <1>2, <1>7, SnapshotSteps
<1> QED BY <1>2, <1>3, <1>4, <1>5, <1>6, <1>7, OthersKeepPoster
        DEF PosterSteps, AtSnapshot

\* What a question keeps as long as it is asked.
LEMMA AskedKeeps ==
  ASSUME IInv, [Next]_vars, NEW r \in Runs, IsAsked(r)', ~Asks(r)
  PROVE  /\ IsAsked(r) /\ asked'[r].qid = asked[r].qid
         /\ asked[r].ended => asked'[r].ended
         /\ asked[r].posted => asked'[r].posted
<1>1. AskedMove(r) /\ asked[r] \in Questions
  BY AskedMoves DEF IInv, TypeOK, Typed
<1>2. asked'[r] # NotAsked
  BY DEF IsAsked, NotAsked
<1> QED BY <1>1, <1>2 DEF AskedMove, Questions, IsAsked

LEMMA TrackedStep ==
  ASSUME IInv, [Next]_vars, NEW r \in Runs, IsAsked(r)'
  PROVE  Tracked(r)'
<1>1. /\ Typed /\ RunOK(r) /\ AskedOK(r) /\ RunsGoOn /\ runs[r] \in RunStates
      /\ poster \in Posters
  BY RunsStep DEF IInv, TypeOK, Typed
<1>2. CASE Asks(r)
  <2>1. poster'.pc = "post" /\ UNCHANGED <<runs, ends>> /\ r \in poster.snap
    BY <1>1, <1>2 DEF Asks, Turns, queue, Posters
  <2> QED BY <1>1, <2>1 DEF Tracked, RunOK, PosterAt
<1>3. CASE ~Asks(r)
  <2>1. IsAsked(r) /\ Tracked(r) /\ active # 0 /\ (asked[r].ended => asked'[r].ended)
    BY <1>1, <1>3, AskedKeeps DEF AskedOK
  <2>2. CASE UNCHANGED poster /\ ends \subseteq ends'
    BY <1>1, <2>1, <2>2 DEF Tracked, RunsGoOn, PosterAt
  <2>3. CASE ReadsPending
    <3>1. /\ UNCHANGED <<runs, ends>> /\ poster'.pc = "take"
          /\ poster'.snap = Waiting /\ poster.pc = "runs"
      BY <2>3 DEF ReadsPending, queue, Resting, PosterAt
    <3> QED BY <2>1, <3>1 DEF Tracked, Waiting, PosterAt
  <2>4. CASE TakesEnded
    <3>1. /\ poster'.pc = "session" /\ poster.pc = "take"
          /\ poster'.got = ends /\ poster'.snap = poster.snap \ ends
      BY <1>1, <2>4 DEF TakesEnded, Posters, PosterAt
    <3> QED BY <2>1, <3>1 DEF Tracked, PosterAt
  <2>5. CASE FindsSession
    <3>1. /\ poster'.pc = "ends" /\ poster.pc = "session"
          /\ poster'.got = poster.got /\ poster'.snap = poster.snap
      BY <1>1, <2>5 DEF FindsSession, Posters, PosterAt
    <3> QED BY <2>1, <3>1 DEF Tracked, PosterAt
  <2>6. CASE FindsNoSession
    <3>1. asked'[r] = NotAsked
      BY <2>1, <2>6 DEF FindsNoSession, ForgetSession, DropAsked
    <3> QED BY <3>1 DEF IsAsked, NotAsked
  <2>7. CASE DropsGone
    <3>1. poster.pc = "ends" /\ poster.got = {} /\ Gone = {}
      BY <2>7, NothingGone DEF DropsGone, PosterAt
    <3>2. poster'.pc = "runs" /\ UNCHANGED <<runs, ends>>
      BY <1>1, <2>7, <3>1 DEF DropsGone, queue, Posters
    <3> QED BY <1>1, <2>1, <3>1, <3>2 DEF Tracked, PosterAt, RunOK
  <2>8. ASSUME NEW p \in Runs, HandlesEnd(p)
        PROVE  Tracked(r)'
    <3>1. /\ poster.pc = "ends" /\ poster'.pc = "ends"
          /\ poster'.got = poster.got \ {p} /\ poster'.snap = poster.snap
      BY <1>1, <2>8 DEF HandlesEnd, PosterAt, Posters
    <3>2. CASE p = r
      <4>1. asked'[r] # NotAsked
        BY DEF IsAsked, NotAsked
      <4>2. asked'[r] = [asked[r] EXCEPT !.ended = TRUE]
        BY <2>1, <2>8, <3>2, <4>1, HandlesEndKinds DEF Drops, IInv, TypeOK, Typed
      <4> QED BY <4>2 DEF Tracked, IInv, TypeOK, Typed, Questions
    <3>3. CASE p # r
      BY <2>1, <3>1, <3>3 DEF Tracked, PosterAt
    <3> QED BY <3>2, <3>3
  <2>9. ASSUME NEW p \in Runs, AtSnapshot(p)
        PROVE  Tracked(r)'
    BY <1>1, <2>1, <2>9, SnapshotSteps DEF Tracked, PosterAt
  <2> QED BY <2>2, <2>3, <2>4, <2>5, <2>6, <2>7, <2>8, <2>9, OthersKeepPoster
          DEF PosterSteps, AtSnapshot
<1> QED BY <1>2, <1>3

(***************************************************************************)
(* The session of the poster.                                              *)
(***************************************************************************)

\* Only the vault, the window and the poster that looks for its session change
\* the session.
LEMMA SessionSteady ==
  ASSUME [Next]_vars
  PROVE  Lock \/ Unlock \/ Forget \/ FindsSession \/ FindsNoSession
         \/ UNCHANGED <<active, vault>>
<1>1. ASSUME NEW r \in Runs, ReaderSteps(r)
      PROVE  UNCHANGED <<active, vault>>
  BY <1>1 DEF ReaderSteps, TakesNext, TakesNoMore, Judges, Decides, DecidesNothing,
              Corrects, Notes, SettlesIt, GoesOn, StopsReading, Reading
<1>2. ASSUME NEW r \in Runs, StartsToWait(r) \/ EndsHere(r) \/ Polls(r)
      PROVE  UNCHANGED <<active, vault>>
  BY <1>2 DEF StartsToWait, EndsHere, Polls, worker
<1>3. ASSUME NEW q \in DOMAIN relay,
             Expires(q) \/ \E a \in Answers : TakesAnswer(q, a)
      PROVE  UNCHANGED <<active, vault>>
  BY <1>3 DEF Expires, TakesAnswer, worker
<1>4. CASE ChangesEnvironment \/ ReadsPending \/ TakesEnded \/ DropsGone \/ UNCHANGED vars
  BY <1>4 DEF ChangesEnvironment, ReadsPending, TakesEnded, DropsGone, worker, vars
<1>5. ASSUME NEW r \in Runs, HandlesEnd(r) \/ AtSnapshot(r)
      PROVE  UNCHANGED <<active, vault>>
  BY <1>5 DEF HandlesEnd, AtSnapshot, Skips, KeepsLocal, Asks, Retries, Turns, Posts,
              PostBreaks, PostRefused, PostLeft, Posting
<1> QED BY <1>1, <1>2, <1>3, <1>4, <1>5 DEF Next, PosterSteps, AtSnapshot

LEMMA SessionStep ==
  ASSUME IInv, [Next]_vars
  PROVE  SessionOK'
<1>1. /\ SessionOK /\ poster \in Posters
      /\ vault \in [open : BOOLEAN, epoch : 1..MaxEpoch] /\ active \in 0..MaxEpoch
  BY DEF IInv, TypeOK, Typed, PosterOK
<1>2. CASE Lock \/ Unlock \/ Forget
  <2>1. UNCHANGED poster
    BY <1>2 DEF Lock, Unlock, Forget
  <2>2. /\ active' \in {0, active} /\ vault'.epoch \in {vault.epoch, vault.epoch + 1}
        /\ vault'.epoch = vault.epoch => ~vault'.open
        /\ (Lock \/ Unlock) => active' = active
        /\ Forget => active' = 0 /\ vault' = vault
    BY <1>1, <1>2 DEF Lock, Unlock, Forget, ForgetSession, worker
  <2>3. ~SameVault(poster.epoch)' \/ ~(poster.epoch <= vault.epoch)
    BY <1>1, <2>1, <2>2 DEF SameVault, Posters
  <2>4. Engaged' = Engaged /\ (Engaged => poster.epoch <= vault.epoch)
    BY <1>1, <2>1 DEF Engaged, PosterAt, SessionOK
  <2> QED BY <1>1, <1>2, <2>1, <2>2, <2>3, <2>4, Bounds DEF SessionOK, Posters
<1>3. CASE FindsSession
  <2>1. /\ active' = vault.epoch /\ vault' = vault
        /\ poster'.pc = "ends" /\ poster'.epoch = vault.epoch
    BY <1>1, <1>3 DEF FindsSession, Posters
  <2> QED BY <1>1, <2>1 DEF SessionOK, Engaged, PosterAt
<1>4. CASE FindsNoSession
  <2>1. /\ active' = 0 /\ vault' = vault /\ poster' = Resting
    BY <1>4 DEF FindsNoSession, ForgetSession, worker
  <2> QED BY <1>1, <2>1 DEF SessionOK, Engaged, PosterAt, Resting
<1>5. CASE UNCHANGED <<active, vault>>
  <2>1. CASE UNCHANGED poster
    BY <1>1, <1>5, <2>1 DEF SessionOK, Engaged, PosterAt, SameVault
  <2>2. CASE ReadsPending \/ TakesEnded
    <3>1. poster'.pc \in {"take", "session"} /\ (poster'.pc = "take" => poster'.got = {})
      BY <1>1, <2>2 DEF ReadsPending, TakesEnded, Resting, Posters
    <3> QED BY <1>1, <1>5, <3>1 DEF SessionOK, Engaged, PosterAt
  <2>3. CASE DropsGone \/ \E r \in Runs : HandlesEnd(r)
    <3>1. /\ poster.pc = "ends" /\ poster'.epoch = poster.epoch
          /\ poster'.pc = "ends" \/ (poster'.pc = "runs" /\ poster'.got = {})
      BY <1>1, <2>3 DEF DropsGone, HandlesEnd, PosterAt, Posters
    <3> QED BY <1>1, <1>5, <3>1 DEF SessionOK, Engaged, PosterAt, SameVault
  <2>4. ASSUME NEW r \in Runs, AtSnapshot(r)
        PROVE  SessionOK'
    <3>1. /\ poster.pc \in {"runs", "post"} /\ poster'.pc \in {"runs", "post"}
          /\ poster'.snap \subseteq poster.snap
          /\ poster'.got = poster.got /\ poster'.epoch = poster.epoch
      BY <2>4, SnapshotSteps DEF IInv, TypeOK
    <3>2. Engaged
      BY <2>4 DEF Engaged, AtSnapshot, Skips, KeepsLocal, Asks, Retries, Turns, Posts,
                  PostBreaks, PostRefused, PostLeft, Posting, PosterAt
    <3> QED BY <1>1, <1>5, <3>1, <3>2 DEF SessionOK, SameVault
  <2> QED BY <1>3, <1>4, <2>1, <2>2, <2>3, <2>4, OthersKeepPoster
          DEF PosterSteps, AtSnapshot
<1> QED BY <1>2, <1>3, <1>4, <1>5, SessionSteady

\* What is asked is asked in a session.
LEMMA AskedInSession ==
  ASSUME IInv, [Next]_vars, NEW r \in Runs, IsAsked(r)'
  PROVE  active' # 0
<1>1. AskedOK(r) /\ SessionOK /\ Typed
  BY DEF IInv, TypeOK, PosterOK
<1>2. CASE Asks(r)
  <2>1. Engaged /\ SameVault(poster.epoch) /\ UNCHANGED active
    BY <1>2 DEF Asks, Turns, Engaged
  <2> QED BY <1>1, <2>1 DEF SessionOK
<1>3. CASE ~Asks(r)
  <2>1. IsAsked(r) /\ active # 0
    BY <1>1, <1>3, AskedKeeps DEF AskedOK
  <2>2. asked'[r] # NotAsked
    BY DEF IsAsked, NotAsked
  <2>3. CASE Forget \/ FindsNoSession
    BY <2>1, <2>2, <2>3 DEF Forget, FindsNoSession, ForgetSession, DropAsked
  <2>4. CASE Lock \/ Unlock
    BY <2>1, <2>4 DEF Lock, Unlock, worker
  <2>5. CASE FindsSession
    <3>1. active' = vault.epoch /\ vault.epoch # 0
      BY <1>1, <2>5 DEF FindsSession, Typed
    <3> QED BY <3>1
  <2> QED BY <2>1, <2>3, <2>4, <2>5, SessionSteady
<1> QED BY <1>2, <1>3

(***************************************************************************)
(* The reader and the answer in its hands.                                 *)
(***************************************************************************)

LEMMA OthersKeepReader ==
  ASSUME [Next]_vars
  PROVE  UNCHANGED reader \/ \E r \in Runs : Polls(r) \/ ReaderSteps(r)
<1>1. ASSUME NEW r \in Runs,
             StartsToWait(r) \/ EndsHere(r) \/ HandlesEnd(r) \/ AtSnapshot(r)
      PROVE  UNCHANGED reader
  BY <1>1 DEF StartsToWait, EndsHere, HandlesEnd, AtSnapshot, Skips, KeepsLocal,
              Asks, Retries, Turns, Posts, PostBreaks, PostRefused, PostLeft, Posting
<1>2. ASSUME NEW q \in DOMAIN relay,
             Expires(q) \/ \E a \in Answers : TakesAnswer(q, a)
      PROVE  UNCHANGED reader
  BY <1>2 DEF Expires, TakesAnswer
<1>3. CASE \/ ChangesEnvironment \/ Lock \/ Unlock \/ Forget \/ UNCHANGED vars
           \/ ReadsPending \/ TakesEnded \/ FindsSession \/ FindsNoSession \/ DropsGone
  BY <1>3 DEF ChangesEnvironment, Lock, Unlock, Forget, ReadsPending, TakesEnded,
     FindsSession, FindsNoSession, DropsGone, vars
<1> QED BY <1>1, <1>2, <1>3 DEF Next, PosterSteps, AtSnapshot

\* The answer stays what it is while the reader has it.
LEMMA AnswerSteady ==
  ASSUME Typed, ReaderOK, RelayGrows,
         reader.pc \in {"judge", "apply", "note", "verdict"},
         reader'.qid = reader.qid, reader'.next = reader.next
  PROVE  Answer' = Answer
<1>1. /\ reader.qid \in DOMAIN relay
      /\ reader.next \in 1..Len(relay[reader.qid].answers)
  BY CardFacts DEF Typed, Readers, ReaderOK, ReaderAt
<1> QED BY <1>1 DEF Answer, RelayGrows, Later

\* The reader reads a card of one run, up to an answer that the relay has.
Reads ==
  /\ reader.qid \in DOMAIN relay
  /\ reader.run = {relay[reader.qid].run}
  /\ relay[reader.qid].state # "unposted"
  /\ reader.next > 0
  /\ reader.upto <= Len(relay[reader.qid].answers)

LEMMA ReadsSteady ==
  ASSUME Typed, Typed', Reads, RelayGrows, reader'.qid = reader.qid,
         reader'.run = reader.run, reader'.upto = reader.upto, reader'.next > 0
  PROVE  Reads'
<1>1. relay[reader.qid].answers \in Seq(Answers) /\ Len(relay[reader.qid].answers) \in Nat
  BY CardFacts DEF Reads, Cards
<1>2. reader.qid \in DOMAIN relay' /\ Later(relay[reader.qid], relay'[reader.qid])
  BY DEF Reads, RelayGrows
<1>3. relay' \in [DOMAIN relay' -> Cards]
  BY LenProperties DEF Typed
<1>4. Len(relay'[reader.qid].answers) \in Nat
  BY <1>2, <1>3, LenProperties DEF Cards
<1> QED BY <1>1, <1>2, <1>4 DEF Reads, Later, Typed, Readers

LEMMA ReaderStep ==
  ASSUME IInv, [Next]_vars
  PROVE  ReaderOK'
<1>1. /\ Typed /\ Typed' /\ Linked /\ ReaderOK /\ RelayGrows /\ RunsGoOn
      /\ reader \in Readers
  BY TypedStep, RunsStep, CardsMove, Grows DEF IInv, TypeOK, Typed
<1>2. reader.pc # "idle" => Reads
  BY <1>1 DEF ReaderOK, Reads, ReaderAt
<1>3. CASE UNCHANGED reader
  <2>1. CASE reader.pc = "idle"
    BY <1>1, <1>3, <2>1 DEF ReaderOK, ReaderAt
  <2>2. CASE reader.pc # "idle"
    <3>1. Reads'
      BY <1>1, <1>2, <1>3, <2>2, ReadsSteady DEF Reads
    <3>2. reader.verdict = "settled" =>
            LET r == relay[reader.qid].run
            IN  /\ runs'[r].state = "over"
                /\ runs'[r].end = [outcome |-> Answer'.choice, by |-> Answer'.device]
      <4>1. SUFFICES ASSUME reader.verdict = "settled"
                     PROVE  LET r == relay[reader.qid].run
                            IN  /\ runs'[r].state = "over"
                                /\ runs'[r].end = [outcome |-> Answer'.choice,
                                                   by |-> Answer'.device]
        OBVIOUS
      <4>2. reader.pc \in {"judge", "apply", "note", "verdict"}
        BY <1>1, <2>2, <4>1 DEF ReaderOK, ReaderAt, Readers
      <4>3. Answer' = Answer
        BY <1>1, <1>3, <4>2, AnswerSteady
      <4>4. relay[reader.qid].run \in Runs
        BY <1>1, <1>2, <2>2, CardFacts DEF Reads, Cards
      <4> QED BY <1>1, <2>2, <4>1, <4>3, <4>4 DEF ReaderOK, ReaderAt, RunsGoOn
    <3>3. relay'[reader.qid].run = relay[reader.qid].run
      BY <1>1, <1>2, <2>2 DEF Reads, RelayGrows, Later
    <3> QED BY <1>1, <1>3, <2>2, <3>1, <3>2, <3>3 DEF ReaderOK, Reads, ReaderAt
  <2> QED BY <2>1, <2>2
<1>4. ASSUME NEW r \in Runs, Polls(r)
      PROVE  ReaderOK'
  <2>1. IsAsked(r) /\ asked[r].posted /\ asked[r].last \in Nat
    BY <1>1, <1>4 DEF Polls, IInv, AskedOK, NotAsked, Typed, Questions
  <2>2. /\ asked[r].qid \in DOMAIN relay /\ relay[asked[r].qid].run = r
        /\ relay[asked[r].qid].state # "unposted"
        /\ Len(relay[asked[r].qid].answers) \in Nat
    BY <1>1, <2>1, CardFacts DEF Linked
  <2>3. /\ reader'.pc = "answers" /\ reader'.verdict = "none"
        /\ reader'.qid = asked[r].qid /\ reader'.run = {r}
        /\ reader'.next = asked[r].last + 1
        /\ reader'.upto = Len(relay[asked[r].qid].answers)
        /\ UNCHANGED relay
    BY <1>4 DEF Polls, NotReading
  <2> QED BY <2>1, <2>2, <2>3 DEF ReaderOK, ReaderAt
<1>5. ASSUME NEW r \in Runs, ReaderSteps(r)
      PROVE  ReaderOK'
  <2>0. /\ reader.pc # "idle" /\ reader.run = {r} /\ relay[reader.qid].run = r /\ Reads
        /\ reader.next \in Nat /\ reader.upto \in Nat
    <3>1. reader.pc # "idle" /\ r \in reader.run
      BY <1>5 DEF ReaderSteps, TakesNext, TakesNoMore, Judges, Decides,
         DecidesNothing, Corrects, Notes, SettlesIt, GoesOn, StopsReading,
         Reading, ReaderAt
    <3> QED BY <1>1, <1>2, <3>1 DEF Reads, Readers
  <2>1. CASE reader' = NotReading
    BY <2>1 DEF ReaderOK, ReaderAt, NotReading
  <2>2. CASE /\ reader'.qid = reader.qid /\ reader'.run = reader.run
             /\ reader'.upto = reader.upto /\ reader'.next > 0
             /\ reader'.pc # "idle"
             /\ reader'.pc # "answers" => reader'.next <= reader'.upto
             /\ reader'.pc \in {"answers", "judge", "apply"} => reader'.verdict = "none"
             /\ reader'.pc = "note" => reader'.verdict \in {"settled", "corrected"}
             /\ reader'.verdict = "settled" =>
                  /\ runs'[r].state = "over"
                  /\ runs'[r].end = [outcome |-> Answer'.choice,
                                     by |-> Answer'.device]
    <3>1. Reads' /\ relay'[reader.qid].run = r
      BY <1>1, <2>0, <2>2, ReadsSteady DEF Reads, RelayGrows, Later
    <3> QED BY <2>2, <3>1 DEF ReaderOK, Reads, ReaderAt
  <2>3. CASE TakesNext(r)
    <3>1. CASE reader' = [reader EXCEPT !.pc = "judge"]
      BY <1>1, <2>0, <2>2, <2>3, <3>1
         DEF TakesNext, Reading, ReaderAt, Readers, ReaderOK, Reads
    <3> QED BY <2>1, <2>3, <3>1 DEF TakesNext
  <2>4. CASE TakesNoMore(r) \/ SettlesIt(r) \/ StopsReading(r)
    BY <2>1, <2>4 DEF TakesNoMore, SettlesIt, StopsReading
  <2>5. CASE GoesOn(r)
    <3>1. reader' = [reader EXCEPT !.pc = "answers", !.next = @ + 1,
                                   !.verdict = "none"]
      BY <2>5 DEF GoesOn
    <3> QED BY <1>1, <2>0, <2>2, <3>1 DEF Readers, Reads
  <2>6. ASSUME NEW v \in {"refused", "ended"}, Verdict(v), ~ReaderAt("answers")
        PROVE  ReaderOK'
    <3>1. /\ reader'.qid = reader.qid /\ reader'.run = reader.run
          /\ reader'.upto = reader.upto /\ reader'.next = reader.next
          /\ reader'.pc = "verdict" /\ reader'.verdict = v
      BY <1>1, <2>6 DEF Verdict, Readers
    <3>2. reader.next <= reader.upto /\ reader.next > 0
      BY <1>1, <2>0, <2>6 DEF ReaderOK, ReaderAt, Reads
    <3> QED BY <2>2, <3>1, <3>2
  <2>7. CASE Judges(r)
    <3>1. reader.pc = "judge" /\ reader.verdict = "none" /\ reader.next <= reader.upto
      BY <1>1, <2>7 DEF Judges, Reading, ReaderAt, ReaderOK
    <3>2. CASE reader' \in {[reader EXCEPT !.pc = "apply", !.mark = mark],
                            [reader EXCEPT !.pc = "apply", !.mark = reader.mark]}
      BY <1>1, <2>0, <2>2, <3>1, <3>2 DEF Readers, Reads
    <3> QED BY <2>6, <2>7, <3>1, <3>2 DEF Judges, ReaderAt
  <2>8. CASE DecidesNothing(r)
    BY <2>6, <2>8 DEF DecidesNothing, Reading, ReaderAt
  <2>9. CASE Decides(r)
    <3>1. reader.pc = "apply" /\ reader.next <= reader.upto
          /\ reader' = [reader EXCEPT !.pc = "note", !.verdict = "settled"]
      BY <1>1, <2>9 DEF Decides, Reading, ReaderAt, ReaderOK
    <3>2. runs'[r] = [state |-> "over", end |-> [outcome |-> Answer.choice,
                                                 by |-> Answer.device]]
      BY <1>1, <2>9 DEF Decides, End, Typed
    <3>3. /\ reader'.qid = reader.qid /\ reader'.run = reader.run
          /\ reader'.upto = reader.upto /\ reader'.next = reader.next
          /\ reader'.pc = "note" /\ reader'.verdict = "settled"
      BY <1>1, <3>1 DEF Readers
    <3>4. Answer' = Answer
      BY <1>1, <3>1, <3>3, AnswerSteady
    <3> QED BY <2>0, <2>2, <3>1, <3>2, <3>3, <3>4 DEF Reads
  <2>10. CASE Corrects(r)
    <3>1. reader.pc = "apply" /\ reader.next <= reader.upto
      BY <1>1, <2>10 DEF Corrects, Reading, ReaderAt, ReaderOK
    <3>2. CASE reader' = [reader EXCEPT !.pc = "note", !.verdict = "corrected",
                            !.mark = [event |-> declared'.event,
                                      at |-> Answer.time]]
      BY <1>1, <2>0, <2>2, <3>1, <3>2 DEF Readers, Reads
    <3>3. CASE Verdict("ended") \/ Verdict("refused")
      BY <2>6, <3>1, <3>3 DEF ReaderAt
    <3> QED BY <2>10, <3>2, <3>3 DEF Corrects
  <2>11. CASE Notes(r)
    <3>1. /\ reader.pc = "note" /\ reader.next <= reader.upto
          /\ Verdict(reader.verdict) /\ UNCHANGED runs
      BY <1>1, <2>11 DEF Notes, Reading, ReaderAt, ReaderOK, queue
    <3>2. /\ reader'.qid = reader.qid /\ reader'.run = reader.run
          /\ reader'.upto = reader.upto /\ reader'.next = reader.next
          /\ reader'.pc = "verdict" /\ reader'.verdict = reader.verdict
      BY <1>1, <3>1 DEF Verdict, Readers
    <3>3. Answer' = Answer
      BY <1>1, <3>1, <3>2, AnswerSteady
    <3> QED BY <1>1, <2>0, <2>2, <3>1, <3>2, <3>3 DEF ReaderOK, ReaderAt, Reads
  <2> QED BY <1>5, <2>3, <2>4, <2>5, <2>7, <2>8, <2>9, <2>10, <2>11 DEF ReaderSteps
<1> QED BY <1>3, <1>4, <1>5, OthersKeepReader

(***************************************************************************)
(* The questions that the worker asks.                                     *)
(***************************************************************************)

\* Where a step of the reader takes it.
LEMMA ReaderKinds ==
  ASSUME IInv, NEW r \in Runs, ReaderSteps(r)
  PROVE  /\ reader.run = {r} /\ reader.qid \in DOMAIN relay
         /\ relay[reader.qid].run = r /\ reader.pc # "idle"
         /\ \/ reader' = NotReading
            \/ /\ reader'.run = reader.run /\ reader'.qid = reader.qid
               /\ reader'.pc # reader.pc
<1>1. Typed /\ ReaderOK /\ reader \in Readers
  BY DEF IInv, TypeOK, Typed
<1>2. r \in reader.run /\ reader.pc # "idle"
  BY DEF ReaderSteps, TakesNext, TakesNoMore, Judges, Decides,
     DecidesNothing, Corrects, Notes, SettlesIt, GoesOn, StopsReading,
     Reading, ReaderAt
<1>3. /\ reader.run = {r} /\ reader.qid \in DOMAIN relay
      /\ relay[reader.qid].run = r
  BY <1>1, <1>2 DEF ReaderOK, ReaderAt
<1>4. ASSUME NEW v, Verdict(v), reader.pc # "verdict"
      PROVE  /\ reader'.run = reader.run /\ reader'.qid = reader.qid
             /\ reader'.pc # reader.pc
  BY <1>1, <1>4 DEF Verdict, Readers
<1>5. CASE TakesNext(r) \/ TakesNoMore(r)
  BY <1>1, <1>2, <1>3, <1>5 DEF TakesNext, TakesNoMore, Reading, ReaderAt, Readers
<1>6. CASE Judges(r)
  BY <1>1, <1>2, <1>3, <1>4, <1>6 DEF Judges, Reading, ReaderAt, Readers
<1>7. CASE Decides(r) \/ Corrects(r)
  BY <1>1, <1>2, <1>3, <1>4, <1>7 DEF Decides, Corrects, Reading, ReaderAt, Readers
<1>8. CASE DecidesNothing(r) \/ Notes(r)
  BY <1>1, <1>2, <1>3, <1>4, <1>8 DEF DecidesNothing, Notes, Reading, ReaderAt
<1>9. CASE SettlesIt(r) \/ GoesOn(r) \/ StopsReading(r)
  BY <1>1, <1>2, <1>3, <1>9 DEF SettlesIt, GoesOn, StopsReading, Reading, ReaderAt, Readers
<1> QED BY <1>5, <1>6, <1>7, <1>8, <1>9 DEF ReaderSteps

\* A question is applied while the reader has it in its hands, and no longer.
LEMMA HandsStep ==
  ASSUME IInv, [Next]_vars, NEW r \in Runs
  PROVE  /\ asked'[r].applying <=> InHands(r)' /\ SameQuestion(r)'
         /\ r \in reader'.run /\ SameQuestion(r)' => asked'[r].posted
<1>1. /\ Typed /\ Linked /\ ReaderOK /\ AskedOK(r) /\ AskedMove(r)
      /\ reader \in Readers /\ asked[r] \in Questions /\ relay \in Seq(Cards)
  BY AskedMoves DEF IInv, TypeOK, Typed
<1>2. DOMAIN relay = 1..Len(relay) /\ Len(relay) \in Nat
  BY <1>1, CardFacts
<1>3. r \in reader.run => reader.qid \in DOMAIN relay /\ reader.qid # 0
  BY <1>1, <1>2 DEF ReaderOK, ReaderAt, NotReading
<1>4. NotAsked.qid = 0 /\ NotAsked.applying = FALSE
  BY DEF NotAsked
<1>5. CASE UNCHANGED reader
  <2>1. /\ ~TakesNext(r) /\ ~TakesNoMore(r) /\ ~Notes(r) /\ ~GoesOn(r)
        /\ ~StopsReading(r)
    BY <1>5, ReaderKinds DEF ReaderSteps, NotReading
  <2>2. CASE Asks(r) /\ asked'[r] = [NotAsked EXCEPT !.qid = Len(relay')]
    <3>1. asked'[r].qid = Len(relay) + 1 /\ asked'[r].applying = FALSE
      BY <1>1, <2>2, AskAppends DEF NotAsked
    <3> QED BY <1>2, <1>3, <1>5, <3>1 DEF InHands, SameQuestion
  <2>3. CASE asked'[r] = NotAsked
    BY <1>3, <1>4, <1>5, <2>3 DEF InHands, SameQuestion
  <2>4. CASE /\ asked'[r].qid = asked[r].qid
             /\ asked'[r].applying = asked[r].applying
             /\ asked[r].posted => asked'[r].posted
    BY <1>1, <1>5, <2>4 DEF AskedOK, InHands, SameQuestion
  <2> QED BY <1>1, <2>1, <2>2, <2>3, <2>4 DEF AskedMove, Questions
<1>6. ASSUME NEW p \in Runs, Polls(p)
      PROVE  /\ asked'[r].applying <=> InHands(r)' /\ SameQuestion(r)'
             /\ r \in reader'.run /\ SameQuestion(r)' => asked'[r].posted
  <2>1. /\ reader.pc = "idle" /\ UNCHANGED asked /\ reader'.pc = "answers"
        /\ reader'.run = {p} /\ asked[p].posted
    BY <1>6 DEF Polls, ReaderAt, worker, NotReading
  <2> QED BY <1>1, <2>1 DEF AskedOK, InHands
<1>7. ASSUME NEW p \in Runs, ReaderSteps(p), p # r
      PROVE  /\ asked'[r].applying <=> InHands(r)' /\ SameQuestion(r)'
             /\ r \in reader'.run /\ SameQuestion(r)' => asked'[r].posted
  <2>1. reader.run = {p} /\ r \notin reader'.run
    BY <1>7, ReaderKinds DEF NotReading
  <2>2. ~asked[r].applying /\ ~InHands(r)'
    BY <1>1, <1>7, <2>1 DEF AskedOK, InHands
  <2>3. ~TakesNext(r)
    BY <1>7, <2>1 DEF TakesNext, Reading
  <2> QED BY <1>1, <1>4, <2>1, <2>2, <2>3 DEF AskedMove, Questions, NotAsked
<1>8. CASE ReaderSteps(r)
  <2>0. reader.run = {r} /\ (asked[r].qid = reader.qid => asked[r].posted)
    BY <1>1, <1>8, ReaderKinds DEF AskedOK, SameQuestion
  <2>1. CASE TakesNext(r)
    <3>1. reader.pc = "answers" /\ ~asked[r].applying
      BY <1>1, <2>1 DEF TakesNext, Reading, ReaderAt, AskedOK, InHands
    <3>2. CASE SameQuestion(r)
      <4>1. /\ asked'[r] = [asked[r] EXCEPT !.last = reader.next, !.applying = TRUE]
            /\ reader' = [reader EXCEPT !.pc = "judge"]
        BY <1>1, <2>1, <3>2 DEF TakesNext, Typed
      <4> QED BY <1>1, <2>0, <3>2, <4>1 DEF InHands, SameQuestion, Readers, Questions
    <3>3. CASE ~SameQuestion(r)
      BY <1>1, <2>1, <3>1, <3>3 DEF TakesNext, InHands, NotReading
    <3> QED BY <3>2, <3>3
  <2>2. CASE TakesNoMore(r)
    <3>1. reader.pc = "answers" /\ ~asked[r].applying /\ reader' = NotReading
      BY <1>1, <2>2 DEF TakesNoMore, Reading, ReaderAt, AskedOK, InHands
    <3>2. asked'[r].applying = asked[r].applying
      BY <1>1, <2>2 DEF TakesNoMore, Questions, Typed
    <3> QED BY <3>1, <3>2 DEF InHands, NotReading
  <2>3. CASE Judges(r) \/ Decides(r) \/ DecidesNothing(r) \/ Corrects(r)
    <3>1. UNCHANGED asked /\ reader.pc \in {"judge", "apply"}
      BY <2>3 DEF Judges, Decides, DecidesNothing, Corrects, Reading, ReaderAt
    <3>2. /\ reader'.pc \in {"apply", "note", "verdict"}
          /\ reader'.run = reader.run /\ reader'.qid = reader.qid
      <4>1. CASE \E v : Verdict(v)
        BY <1>1, <4>1 DEF Verdict, Readers
      <4> QED BY <1>1, <2>3, <4>1
              DEF Judges, Decides, DecidesNothing, Corrects, Readers
    <3> QED BY <1>1, <2>0, <3>1, <3>2 DEF AskedOK, InHands, SameQuestion
  <2>4. CASE Notes(r)
    <3>1. /\ reader'.pc = "verdict" /\ reader.pc = "note"
          /\ reader'.run = reader.run /\ reader'.qid = reader.qid
      BY <1>1, <2>4 DEF Notes, Verdict, Reading, ReaderAt, Readers
    <3>2. /\ asked'[r].applying = asked[r].applying /\ asked'[r].qid = asked[r].qid
          /\ asked'[r].posted = asked[r].posted
      BY <1>1, <2>4 DEF Notes, Questions, Typed
    <3> QED BY <1>1, <2>0, <3>1, <3>2 DEF AskedOK, InHands, SameQuestion
  <2>5. CASE SettlesIt(r)
    <3>1. reader' = NotReading /\ asked'[r] = NotAsked
      BY <1>1, <2>5 DEF SettlesIt, Typed
    <3> QED BY <1>4, <3>1 DEF InHands, NotReading
  <2>6. CASE GoesOn(r) \/ StopsReading(r)
    <3>1. /\ reader'.pc \in {"answers", "idle"}
          /\ \/ reader'.run = reader.run /\ reader'.qid = reader.qid
             \/ reader'.run = {}
      <4>1. CASE reader' = [reader EXCEPT !.pc = "answers", !.next = @ + 1,
                                         !.verdict = "none"]
        BY <1>1, <4>1 DEF Readers
      <4>2. CASE reader' = NotReading
        BY <4>2 DEF NotReading
      <4> QED BY <2>6, <4>1, <4>2 DEF GoesOn, StopsReading
    <3>2. PICK epoch : LetsGo(r, epoch)
      BY <2>6 DEF GoesOn, StopsReading
    <3>3. \/ asked'[r] = asked[r] /\ asked[r] = NotAsked
          \/ asked'[r] = NotAsked
          \/ asked'[r] = [asked[r] EXCEPT !.applying = FALSE]
      BY <1>1, <3>2, LetsGoKinds DEF AskedOK, Kept, Drops, Typed
    <3>4. reader.qid # 0
      BY <1>3, <2>0
    <3> QED BY <1>1, <1>4, <2>0, <3>1, <3>3, <3>4 DEF InHands, SameQuestion, Questions
  <2> QED BY <1>8, <2>1, <2>2, <2>3, <2>4, <2>5, <2>6 DEF ReaderSteps
<1> QED BY <1>5, <1>6, <1>7, <1>8, OthersKeepReader

LEMMA AskedStep ==
  ASSUME IInv, [Next]_vars, NEW r \in Runs
  PROVE  AskedOK(r)'
<1>1. /\ Typed /\ ReaderOK /\ AskedOK(r) /\ AskedMove(r) /\ RunOK(r) /\ RunsGoOn
      /\ reader \in Readers /\ asked[r] \in Questions
  BY AskedMoves, RunsStep DEF IInv, TypeOK, Typed
<1>2. ASSUME ~IsAsked(r)'
      PROVE  asked'[r] = NotAsked
  <2>1. r \in reader.run => reader.qid # 0
    BY <1>1, CardFacts DEF ReaderOK, ReaderAt, NotReading
  <2>2. CASE IsAsked(r)
    BY <1>1, <1>2, <2>2, AskAppends, CardFacts DEF AskedMove, Questions, IsAsked, NotAsked
  <2>3. CASE ~IsAsked(r)
    <3>1. asked[r] = NotAsked /\ asked[r].qid = 0
      BY <1>1, <2>3 DEF AskedOK, IsAsked
    <3>2. ASSUME Asks(r), asked'[r] = [NotAsked EXCEPT !.qid = Len(relay')]
          PROVE  FALSE
      <4>1. Len(relay') = Len(relay) + 1 /\ Len(relay) \in Nat
        BY <1>1, <3>2, AskAppends, CardFacts
      <4> QED BY <1>2, <3>2, <4>1 DEF IsAsked, NotAsked
    <3>3. ~Posts(r) /\ ~(TakesNext(r) /\ SameQuestion(r)) /\ ~(Notes(r) /\ SameQuestion(r))
      BY <2>1, <2>3, <3>1 DEF Posts, TakesNext, Notes, Reading, SameQuestion
    <3>4. TakesNoMore(r) => UNCHANGED asked
      BY <2>1, <3>1 DEF TakesNoMore, Reading, SameQuestion
    <3> QED BY <1>1, <2>3, <3>1, <3>2, <3>3, <3>4 DEF AskedMove
  <2> QED BY <2>2, <2>3
<1>3. ASSUME IsAsked(r)'
      PROVE  runs'[r].state # "new"
  <2>1. CASE Asks(r)
    <3>1. r \in poster.snap
      BY <2>1 DEF Asks, Turns
    <3> QED BY <1>1, <3>1 DEF RunOK, RunsGoOn
  <2>2. CASE ~Asks(r)
    BY <1>1, <1>3, <2>2, AskedKeeps DEF AskedOK, RunsGoOn
  <2> QED BY <2>1, <2>2
<1>4. ASSUME asked'[r].ended
      PROVE  asked'[r].applying /\ runs'[r].state = "over"
  <2>1. \/ /\ HandlesEnd(r) /\ asked[r].applying
           /\ asked'[r].applying = asked[r].applying
        \/ asked[r].ended /\ asked'[r].applying = asked[r].applying
        \/ asked[r].ended /\ asked'[r].applying
    <3>1. asked'[r] # NotAsked /\ ~([NotAsked EXCEPT !.qid = Len(relay')] = asked'[r])
      BY <1>4 DEF NotAsked
    <3>2. CASE /\ HandlesEnd(r) /\ IsAsked(r) /\ asked[r].applying
               /\ asked'[r] = [asked[r] EXCEPT !.ended = TRUE]
      BY <1>1, <3>2 DEF Questions
    <3>3. CASE TakesNext(r) /\ SameQuestion(r)
               /\ asked'[r] = [asked[r] EXCEPT !.last = reader.next, !.applying = TRUE]
      BY <1>1, <1>4, <3>3 DEF Questions
    <3>4. CASE \/ asked'[r] = asked[r]
               \/ Posts(r) /\ asked'[r] = [asked[r] EXCEPT !.posted = TRUE]
               \/ TakesNoMore(r) /\ asked'[r] = [asked[r] EXCEPT !.finished = TRUE]
      BY <1>1, <1>4, <3>4 DEF Questions
    <3>5. CASE Notes(r) /\ asked'[r] = [asked[r] EXCEPT !.applied[Answer.device] = Answer.time]
      BY <1>1, <1>4, <3>5 DEF Questions
    <3>6. ASSUME IsAsked(r), ~asked[r].ended,
                 asked'[r] = [asked[r] EXCEPT !.applying = FALSE]
          PROVE  FALSE
      BY <1>1, <1>4, <3>6 DEF Questions
    <3> QED BY <1>1, <3>1, <3>2, <3>3, <3>4, <3>5, <3>6 DEF AskedMove
  <2>2. HandlesEnd(r) => runs[r].state = "over"
    BY <1>1 DEF HandlesEnd, RunOK
  <2> QED BY <1>1, <2>1, <2>2 DEF AskedOK, RunsGoOn
<1>5. asked'[r].applying => asked'[r].posted
  BY HandsStep DEF InHands
<1> QED BY <1>2, <1>3, <1>4, <1>5, HandsStep, TrackedStep, AskedInSession DEF AskedOK

(***************************************************************************)
(* How a question goes, and what the history says of it.                   *)
(***************************************************************************)

\* The ways in which the question of r goes.
GoneKind(r) ==
  \/ DropAsked
  \/ HandlesEnd(r) /\ ~asked[r].applying /\ Drops(r, LocalSettle(r))
  \/ PostRefused(r)
  \/ SettlesIt(r) /\ Told(asked[r].qid)
  \/ /\ GoesOn(r) \/ StopsReading(r)
     /\ asked[r].posted /\ Drops(r, LocalSettle(r))

LEMMA GoneKinds ==
  ASSUME IInv, [Next]_vars, NEW r \in Runs, IsAsked(r), ~IsAsked(r)'
  PROVE  GoneKind(r)
<1>1. Typed /\ asked \in [Runs -> Questions] /\ asked[r] \in Questions
  BY DEF IInv, TypeOK, Typed
<1>2. asked'[r].qid # asked[r].qid
  BY DEF IsAsked
<1>3. ASSUME NEW p \in Runs, HandlesEnd(p)
      PROVE  GoneKind(r)
  <2>1. CASE p = r
    BY <1>1, <1>2, <1>3, <2>1, HandlesEndKinds DEF GoneKind, Kept, Questions
  <2>2. CASE p # r
    BY <1>1, <1>2, <1>3, <2>2, HandlesEndKinds DEF Kept, Drops
  <2> QED BY <2>1, <2>2
<1>4. ASSUME NEW p \in Runs, GoesOn(p) \/ StopsReading(p)
      PROVE  GoneKind(r)
  <2>1. PICK epoch : LetsGo(p, epoch)
    BY <1>4 DEF GoesOn, StopsReading
  <2>2. CASE p = r
    BY <1>1, <1>2, <1>4, <2>1, <2>2, LetsGoKinds DEF GoneKind, Kept, Questions
  <2>3. CASE p # r
    BY <1>1, <1>2, <2>1, <2>3, LetsGoKinds DEF Kept, Drops
  <2> QED BY <2>2, <2>3
<1>5. ASSUME NEW p \in Runs, SettlesIt(p)
      PROVE  GoneKind(r)
  <2>1. p = r
    BY <1>1, <1>2, <1>5 DEF SettlesIt
  <2> QED BY <1>5, <2>1, SettlesItKinds DEF GoneKind
<1>6. ASSUME NEW p \in Runs, PostRefused(p)
      PROVE  GoneKind(r)
  <2>1. p = r
    BY <1>1, <1>2, <1>6 DEF PostRefused
  <2> QED BY <1>6, <2>1 DEF GoneKind
<1>7. CASE \/ DropsGone \/ FindsSession \/ FindsNoSession \/ Forget
  BY <1>2, <1>7, NothingGone DEF DropsGone, FindsSession, FindsNoSession, Forget,
     ForgetSession, GoneKind, worker
<1>8. CASE UNCHANGED asked
  BY <1>2, <1>8
<1>9. ASSUME NEW p \in Runs,
              Asks(p) \/ Posts(p) \/ TakesNext(p) \/ TakesNoMore(p) \/ Notes(p)
       PROVE  FALSE
  <2>1. Asks(r) => ~IsAsked(r)
    BY DEF Asks
  <2>2. CASE UNCHANGED asked
    BY <1>2, <2>2
  <2>3. CASE p = r
    <3>1. \/ asked'[r] = [asked[r] EXCEPT !.posted = TRUE]
          \/ asked'[r] = [asked[r] EXCEPT !.last = reader.next, !.applying = TRUE]
          \/ asked'[r] = [asked[r] EXCEPT !.finished = TRUE]
          \/ asked'[r] = [asked[r] EXCEPT !.applied[Answer.device] = Answer.time]
      BY <1>1, <1>9, <2>1, <2>2, <2>3 DEF Posts, TakesNext, TakesNoMore, Notes
    <3> QED BY <1>1, <1>2, <3>1 DEF Questions
  <2>4. CASE p # r
    BY <1>1, <1>2, <1>9, <2>2, <2>4 DEF Asks, Posts, TakesNext, TakesNoMore, Notes
  <2> QED BY <2>3, <2>4
<1>10. ASSUME NEW p \in Runs,
              \/ StartsToWait(p) \/ EndsHere(p) \/ Polls(p)
              \/ Skips(p) \/ KeepsLocal(p) \/ Retries(p)
              \/ PostBreaks(p) \/ PostLeft(p)
              \/ Judges(p) \/ Decides(p) \/ DecidesNothing(p) \/ Corrects(p)
       PROVE  UNCHANGED asked
  BY <1>10 DEF StartsToWait, EndsHere, Polls, Skips, KeepsLocal, Retries, PostBreaks,
               PostLeft, Judges, Decides, DecidesNothing, Corrects, worker
<1>11. ASSUME NEW q \in DOMAIN relay,
              Expires(q) \/ \E a \in Answers : TakesAnswer(q, a)
       PROVE  UNCHANGED asked
  BY <1>11 DEF Expires, TakesAnswer, worker
<1>12. CASE \/ ChangesEnvironment \/ Lock \/ Unlock \/ UNCHANGED vars
            \/ ReadsPending \/ TakesEnded
  BY <1>8, <1>12 DEF ChangesEnvironment, Lock, Unlock, ReadsPending,
     TakesEnded, worker, vars
<1> QED BY <1>3, <1>4, <1>5, <1>6, <1>7, <1>8, <1>9, <1>10, <1>11, <1>12
        DEF Next, PosterSteps, ReaderSteps

\* The history: an answer that counts, a change of the environment, a session
\* that is forgotten, and otherwise a card that is forgotten, lost or found.
HistoryMove ==
  /\ history.forgotten \subseteq history'.forgotten
  /\ \/ history.lost \subseteq history'.lost
     \/ \E p \in Runs : Posts(p) /\ history'.lost = history.lost \ {poster.qid}
  /\ \/ /\ history'.counted = history.counted
        /\ \/ history'.corrected = history.corrected
           \/ ChangesEnvironment /\ history'.corrected = 0
     \/ DropAsked /\ history'.counted = {} /\ history'.corrected = 0
     \/ /\ reader'.pc = "note"
        /\ history'.counted = history.counted \cup
             {[qid |-> reader.qid, time |-> Answer.time, device |-> Answer.device]}
        /\ \/ /\ \E p \in Runs : Decides(p)
              /\ history'.corrected = history.corrected
           \/ /\ \E p \in Runs : Corrects(p)
              /\ history'.corrected = Answer.time

LEMMA HistoryMoves ==
  ASSUME IInv, [Next]_vars
  PROVE  HistoryMove
<1>1. Typed /\ history \in Histories /\ reader \in Readers /\ declared \in EventsOf
  BY DEF IInv, TypeOK, Typed
<1>2. ASSUME UNCHANGED history
      PROVE  HistoryMove
  BY <1>2 DEF HistoryMove
<1>3. ASSUME NEW q, Loses(q)
      PROVE  HistoryMove
  <2>1. /\ history'.forgotten = history.forgotten
        /\ history.lost \subseteq history'.lost
        /\ history'.counted = history.counted
        /\ history'.corrected = history.corrected
    BY <1>1, <1>3 DEF Loses, Histories
  <2> QED BY <2>1 DEF HistoryMove
<1>4. CASE DropAsked
  <2>1. /\ history.forgotten \subseteq history'.forgotten
        /\ history'.lost = history.lost
        /\ history'.counted = {} /\ history'.corrected = 0
    BY <1>1, <1>4 DEF DropAsked, Histories
  <2> QED BY <1>4, <2>1 DEF HistoryMove
<1>5. CASE ChangesEnvironment
  <2>1. history' = [history EXCEPT !.corrected = 0]
    BY <1>5 DEF ChangesEnvironment
  <2> QED BY <1>1, <1>5, <2>1 DEF HistoryMove, Histories
<1>6. ASSUME NEW r \in Runs, PostRefused(r)
      PROVE  HistoryMove
  <2>1. history' = [history EXCEPT !.forgotten = @ \cup {poster.qid}]
    BY <1>6 DEF PostRefused
  <2> QED BY <1>1, <2>1 DEF HistoryMove, Histories
<1>7. ASSUME NEW r \in Runs, Posts(r)
      PROVE  HistoryMove
  <2>1. history' = [history EXCEPT !.lost = @ \ {poster.qid}]
    BY <1>7 DEF Posts
  <2> QED BY <1>1, <1>7, <2>1 DEF HistoryMove, Histories
<1>8. ASSUME NEW r \in Runs, Decides(r)
      PROVE  HistoryMove
  <2>1. history' = Counts(history)
        /\ reader' = [reader EXCEPT !.pc = "note", !.verdict = "settled"]
    BY <1>8 DEF Decides
  <2>2. /\ history'.forgotten = history.forgotten /\ history'.lost = history.lost
        /\ history'.corrected = history.corrected
        /\ history'.counted = history.counted \cup
             {[qid |-> reader.qid, time |-> Answer.time, device |-> Answer.device]}
    BY <1>1, <2>1 DEF Counts, Histories
  <2>3. reader'.pc = "note"
    BY <1>1, <2>1 DEF Readers
  <2> QED BY <1>8, <2>1, <2>2, <2>3 DEF HistoryMove
<1>9. ASSUME NEW r \in Runs, Corrects(r)
      PROVE  HistoryMove
  <2>1. CASE /\ declared' = [event |-> declared.event + 1, at |-> 0]
             /\ history' = [Counts(history) EXCEPT !.corrected = Answer.time]
             /\ reader' = [reader EXCEPT !.pc = "note", !.verdict = "corrected",
                             !.mark = [event |-> declared'.event,
                                       at |-> Answer.time]]
    <3>1. /\ history'.forgotten = history.forgotten /\ history'.lost = history.lost
          /\ history'.corrected = Answer.time
          /\ history'.counted = history.counted \cup
               {[qid |-> reader.qid, time |-> Answer.time, device |-> Answer.device]}
      BY <1>1, <2>1 DEF Counts, Histories
    <3>2. reader'.pc = "note"
      BY <1>1, <2>1 DEF Readers
    <3> QED BY <1>9, <2>1, <3>1, <3>2 DEF HistoryMove
  <2> QED BY <1>2, <1>9, <2>1 DEF Corrects
<1>10. ASSUME NEW r \in Runs, HandlesEnd(r)
       PROVE  HistoryMove
  BY <1>2, <1>3, <1>10, HandlesEndKinds DEF Kept, Drops, Sends
<1>11. ASSUME NEW r \in Runs, GoesOn(r) \/ StopsReading(r)
       PROVE  HistoryMove
  <2>1. PICK epoch : LetsGo(r, epoch)
    BY <1>11 DEF GoesOn, StopsReading
  <2> QED BY <1>2, <1>3, <2>1, LetsGoKinds DEF Kept, Drops, Sends
<1>12. ASSUME NEW r \in Runs, SettlesIt(r)
       PROVE  HistoryMove
  BY <1>2, <1>3, <1>12, SettlesItKinds DEF Drops, Sends
<1>13. ASSUME NEW r \in Runs, PostBreaks(r)
       PROVE  HistoryMove
  BY <1>3, <1>13 DEF PostBreaks, Loses
<1>14. CASE DropsGone
  BY <1>2, <1>14, NothingGone DEF DropsGone
<1>15. ASSUME NEW r \in Runs,
              \/ StartsToWait(r) \/ EndsHere(r) \/ Polls(r)
              \/ Skips(r) \/ KeepsLocal(r) \/ Asks(r) \/ Retries(r) \/ PostLeft(r)
              \/ TakesNext(r) \/ TakesNoMore(r) \/ Judges(r)
              \/ DecidesNothing(r) \/ Notes(r)
       PROVE  UNCHANGED history
  BY <1>15 DEF StartsToWait, EndsHere, Polls, Skips, KeepsLocal, Asks, Retries, Turns,
               PostLeft, TakesNext, TakesNoMore, Judges, DecidesNothing, Notes
<1>16. ASSUME NEW q \in DOMAIN relay,
              Expires(q) \/ \E a \in Answers : TakesAnswer(q, a)
       PROVE  UNCHANGED history
  BY <1>16 DEF Expires, TakesAnswer
<1>17. CASE \/ Lock \/ Unlock \/ Forget \/ UNCHANGED vars
            \/ ReadsPending \/ TakesEnded \/ FindsSession \/ FindsNoSession
  BY <1>2, <1>4, <1>17 DEF Lock, Unlock, Forget, ReadsPending, TakesEnded,
     FindsSession, FindsNoSession, ForgetSession, vars
<1> QED BY <1>2, <1>5, <1>6, <1>7, <1>8, <1>9, <1>10, <1>11, <1>12, <1>13, <1>14, <1>15,
           <1>16, <1>17 DEF Next, PosterSteps, ReaderSteps

\* A question that goes is on the list of the forgotten or the lost, or the
\* relay will not show it; or it was not posted, and the poster is not at it.
LEMMA GoneWhere ==
  ASSUME IInv, [Next]_vars, NEW r \in Runs, IsAsked(r), ~IsAsked(r)'
  PROVE  \/ asked[r].qid \in history'.forgotten \cup history'.lost
         \/ relay'[asked[r].qid].state \notin {"unposted", "open"}
         \/ HandlesEnd(r) /\ ~asked[r].posted
<1>1. GoneKind(r) /\ history \in Histories
  BY GoneKinds DEF IInv, TypeOK, Typed
<1>2. CASE DropAsked
  <2>1. history'.forgotten = history.forgotten \cup
          {asked[p].qid : p \in {s \in Runs : IsAsked(s)}}
    BY <1>1, <1>2 DEF DropAsked, Histories
  <2> QED BY <2>1
<1>3. CASE PostRefused(r)
  <2>1. poster.qid = asked[r].qid
    BY <1>3 DEF PostRefused, Posting, IInv, PosterOK, PostOK
  <2>2. history'.forgotten = history.forgotten \cup {poster.qid}
    BY <1>1, <1>3 DEF PostRefused, Histories
  <2> QED BY <2>1, <2>2
<1> QED BY <1>1, <1>2, <1>3 DEF GoneKind, Drops, Told

(***************************************************************************)
(* The card that the poster posts, and the questions that stay open.       *)
(***************************************************************************)

LEMMA PostStep ==
  ASSUME IInv, [Next]_vars
  PROVE  PostOK'
<1>1. /\ Typed /\ Linked /\ PostOK /\ RelayGrows /\ HistoryMove /\ poster \in Posters
  BY CardsMove, Grows, HistoryMoves DEF IInv, TypeOK, Typed, PosterOK
<1>2. CASE UNCHANGED poster /\ poster.pc # "post"
  BY <1>1, <1>2 DEF PostOK, PosterAt
<1>3. CASE UNCHANGED poster /\ poster.pc = "post"
  <2>0. PICK q, r : q = poster.qid /\ r = relay[q].run
    OBVIOUS
  <2>1. /\ q \in DOMAIN relay /\ poster.run = {r} /\ r \in Runs
        /\ IsAsked(r) => asked[r].qid = q /\ ~asked[r].posted
        /\ ~IsAsked(r) =>
             \/ q \in history.forgotten \cup history.lost
             \/ relay[q].state \notin {"unposted", "open"}
    BY <1>1, <1>3, <2>0, CardFacts DEF PostOK, PosterAt, Cards
  <2>2. /\ q \in DOMAIN relay' /\ relay'[q].run = r
        /\ relay[q].state \notin {"unposted", "open"} =>
             relay'[q].state \notin {"unposted", "open"}
    BY <1>1, <2>0, <2>1 DEF RelayGrows, Later
  <2>3. \A p \in Runs : ~Posts(p) /\ ~HandlesEnd(p) /\ ~Asks(p)
    BY <1>1, <1>3 DEF Posts, Posting, HandlesEnd, Asks, Turns, PosterAt, Posters
  <2>4. history.forgotten \cup history.lost \subseteq history'.forgotten \cup history'.lost
    BY <1>1, <2>3 DEF HistoryMove
  <2>5. ASSUME IsAsked(r)'
        PROVE  asked'[r].qid = q /\ ~asked'[r].posted
    <3>1. IsAsked(r) /\ asked'[r].qid = asked[r].qid /\ asked[r] \in Questions
      BY <1>1, <2>1, <2>3, <2>5, AskedKeeps DEF Typed
    <3>2. AskedMove(r) /\ asked'[r] # NotAsked
      BY <2>1, <2>5, AskedMoves DEF IsAsked, NotAsked
    <3>3. asked'[r].posted = asked[r].posted
      BY <2>1, <2>3, <3>1, <3>2 DEF AskedMove, Questions
    <3> QED BY <2>1, <3>1, <3>3
  <2>6. ASSUME ~IsAsked(r)'
        PROVE  \/ q \in history'.forgotten \cup history'.lost
               \/ relay'[q].state \notin {"unposted", "open"}
    BY <2>1, <2>2, <2>3, <2>4, <2>6, GoneWhere
  <2> QED BY <1>3, <2>0, <2>1, <2>2, <2>5, <2>6 DEF PostOK, PosterAt
<1>4. CASE ReadsPending \/ FindsNoSession
  <2>1. \/ poster' = Resting
        \/ poster' = [Resting EXCEPT !.pc = "take", !.snap = Waiting]
    BY <1>4 DEF ReadsPending, FindsNoSession
  <2>2. /\ poster'.pc \in {"runs", "take"}
        /\ poster'.run = {} /\ poster'.qid = 0
    <3>1. CASE poster' = Resting
      BY <3>1 DEF Resting
    <3>2. CASE poster' = [Resting EXCEPT !.pc = "take", !.snap = Waiting]
      BY <3>2 DEF Resting
    <3> QED BY <2>1, <3>1, <3>2
  <2> QED BY <2>2 DEF PostOK, PosterAt
<1>5. CASE \/ TakesEnded \/ FindsSession \/ DropsGone \/ \E r \in Runs : HandlesEnd(r)
  <2>1. poster.pc # "post" /\ poster'.pc # "post"
        /\ poster'.run = poster.run /\ poster'.qid = poster.qid
    BY <1>1, <1>5 DEF TakesEnded, FindsSession, DropsGone, HandlesEnd, PosterAt, Posters
  <2> QED BY <1>1, <2>1 DEF PostOK, PosterAt
<1>6. ASSUME NEW r \in Runs, Skips(r) \/ KeepsLocal(r)
      PROVE  PostOK'
  <2>1. poster.pc # "post" /\ poster'.pc # "post"
        /\ poster'.run = poster.run /\ poster'.qid = poster.qid
    BY <1>1, <1>6 DEF Skips, KeepsLocal, Turns, PosterAt, Posters
  <2> QED BY <1>1, <2>1 DEF PostOK, PosterAt
<1>7. ASSUME NEW r \in Runs, Asks(r)
      PROVE  PostOK'
  <2>1. poster'.pc = "post" /\ poster'.run = {r} /\ poster'.qid = Len(relay')
    BY <1>1, <1>7 DEF Asks, Posters
  <2>2. asked'[r] = [NotAsked EXCEPT !.qid = Len(relay')]
    BY <1>1, <1>7 DEF Asks, Typed
  <2>3. /\ Len(relay') = Len(relay) + 1 /\ Len(relay) \in Nat
        /\ DOMAIN relay' = 1..(Len(relay) + 1)
        /\ relay'[Len(relay')] = NewCard(r)
    BY <1>1, <1>7, AskAppends, CardFacts
  <2>4. /\ Len(relay') \in DOMAIN relay' /\ Len(relay') # 0
        /\ relay'[Len(relay')].run = r
    BY <2>3 DEF NewCard
  <2> QED BY <2>1, <2>2, <2>4 DEF PostOK, PosterAt, IsAsked, NotAsked
<1>8. ASSUME NEW r \in Runs, Retries(r)
      PROVE  PostOK'
  <2>1. poster'.pc = "post" /\ poster'.run = {r} /\ poster'.qid = asked[r].qid
    BY <1>1, <1>8 DEF Retries, Posters
  <2>2. UNCHANGED <<asked, relay>> /\ IsAsked(r) /\ ~asked[r].posted
    BY <1>8 DEF Retries
  <2> QED BY <1>1, <2>1, <2>2 DEF PostOK, PosterAt, IsAsked, Linked
<1>9. ASSUME NEW r \in Runs, Posts(r) \/ PostBreaks(r) \/ PostRefused(r) \/ PostLeft(r)
      PROVE  PostOK'
  <2>1. poster' = [poster EXCEPT !.pc = "runs", !.run = {}, !.qid = 0]
    BY <1>9 DEF Posts, PostBreaks, PostRefused, PostLeft, Posting
  <2> QED BY <1>1, <2>1 DEF PostOK, PosterAt, Posters
<1> QED BY <1>2, <1>3, <1>4, <1>5, <1>6, <1>7, <1>8, <1>9, OthersKeepPoster
        DEF PosterSteps

LEMMA TruthStep ==
  ASSUME IInv, [Next]_vars
  PROVE  SettleTruthful'
<1>1. /\ Typed /\ Linked /\ SettleTruthful /\ RunsGoOn /\ CardMoves
      /\ \A r \in Runs : RunOK(r)
  BY RunsStep, CardsMove DEF IInv, TypeOK
<1> DEFINE Tells(told, end) ==
             /\ told.outcome = end.outcome
             /\ told.by \in {end.by, Mac}
             /\ told.by = Nobody <=> end.by = Nobody
<1>2. ASSUME NEW q \in DOMAIN relay, relay[q].state = "settled"
      PROVE  Tells(relay[q].settle, runs'[relay[q].run].end)
  <2> DEFINE r == relay[q].run
  <2>1. /\ relay[q].settle \in Ends /\ r \in Runs
        /\ Tells(relay[q].settle, runs[r].end)
    BY <1>1, <1>2, CardFacts DEF Linked, Cards, SettleTruthful
  <2>2. runs[r].end # NoEnd
    BY <2>1, RelayQuestionsAssumption DEF Ends, NoEnd, Outcomes
  <2> QED BY <1>1, <2>1, <2>2 DEF Linked, RunsGoOn
<1>3. ASSUME NEW q \in DOMAIN relay, NEW settle \in Ends,
             Truth(relay[q].run, settle)
      PROVE  Tells(settle, runs'[relay[q].run].end)
  <2> DEFINE r == relay[q].run
  <2>1. /\ r \in Runs /\ runs'[r] = runs[r]
        /\ runs[r].end.outcome \in Decisions <=> runs[r].end.by # Nobody
    BY <1>1, <1>3, CardFacts DEF Cards, Truth, RunsGoOn, RunOK
  <2>2. CASE settle = LocalSettle(r)
    BY <2>1, <2>2, RelayQuestionsAssumption DEF LocalSettle
  <2>3. CASE settle = runs[r].end
    BY <2>1, <2>3
  <2> QED BY <1>3, <2>2, <2>3 DEF Truth
<1>4. ASSUME NEW q \in DOMAIN relay', relay'[q].state = "settled"
      PROVE  Tells(relay'[q].settle, runs'[relay'[q].run].end)
  <2>1. q \in DOMAIN relay /\ CardMove(q) /\ relay[q] \in Cards
    BY <1>1, <1>4, CardFacts DEF CardMoves, NewCard
  <2>2. \/ /\ relay'[q].run = relay[q].run /\ relay'[q].settle = relay[q].settle
           /\ relay[q].state = "settled"
        \/ \E settle \in Ends :
             /\ Truth(relay[q].run, settle)
             /\ relay'[q].run = relay[q].run /\ relay'[q].settle = settle
    BY <1>4, <2>1 DEF CardMove, Cards
  <2> QED BY <1>2, <1>3, <2>1, <2>2
<1> QED BY <1>4 DEF SettleTruthful

LEMMA OpenStep ==
  ASSUME IInv, [Next]_vars
  PROVE  OpenIsTracked'
<1>1. /\ Typed /\ Linked /\ OpenIsTracked /\ PostOK /\ SessionOK
      /\ CardMoves /\ HistoryMove /\ poster \in Posters
      /\ \A r \in Runs : AskedOK(r)
  BY CardsMove, HistoryMoves DEF IInv, TypeOK, Typed, PosterOK
<1> SUFFICES ASSUME NEW q \in DOMAIN relay', relay'[q].state = "open",
                    q \notin history'.forgotten \cup history'.lost
             PROVE  LET r == relay'[q].run
                    IN  /\ asked'[r].qid = q
                        /\ asked'[r].posted \/ poster'.qid = q
                        /\ asked'[r].applying =>
                             /\ reader'.run = {r}
                             /\ reader'.pc \in {"judge", "apply", "note", "verdict"}
  BY DEF OpenIsTracked, InHands
<1>0. PICK r : r = relay[q].run
  OBVIOUS
<1>2. /\ q \in DOMAIN relay /\ CardMove(q) /\ relay[q] \in Cards
      /\ relay'[q].run = r /\ r \in Runs
      /\ \/ relay[q].state = "open"
         \/ /\ PosterAt("post") /\ q = poster.qid
            /\ \E p \in Runs : Posts(p) \/ PostBreaks(p) \/ PostLeft(p)
  <2>1. q \in DOMAIN relay /\ CardMove(q) /\ relay[q] \in Cards
    BY <1>1, CardFacts DEF CardMoves, NewCard
  <2> QED BY <1>0, <2>1 DEF CardMove, Cards
<1>3. asked'[r].applying =>
        /\ reader'.run = {r}
        /\ reader'.pc \in {"judge", "apply", "note", "verdict"}
  BY <1>2, HandsStep DEF InHands
<1>4. q # 0 /\ q \notin history.forgotten
  BY <1>1, <1>2, CardFacts DEF HistoryMove
<1>5. ASSUME NEW p \in Runs, Posting(p), q = poster.qid
      PROVE  p = r /\ PosterAt("post")
  BY <1>0, <1>1, <1>5 DEF Posting, PostOK
<1>6. ASSUME NEW p \in Runs, Posts(p), q = poster.qid
      PROVE  asked'[r].qid = q /\ asked'[r].posted
  <2>1. p = r /\ asked[r].qid = q
    BY <1>0, <1>1, <1>5, <1>6 DEF Posts, PostOK
  <2>2. asked[r] \in Questions /\ asked'[r] = [asked[r] EXCEPT !.posted = TRUE]
    BY <1>1, <1>2, <1>6, <2>1 DEF Posts, Typed
  <2> QED BY <2>1, <2>2 DEF Questions
<1>7. ASSUME NEW p \in Runs, PostBreaks(p), q = poster.qid
      PROVE  FALSE
  <2>1. history' = [history EXCEPT !.lost = @ \cup {poster.qid}]
    BY <1>7 DEF PostBreaks
  <2> QED BY <1>1, <1>7, <2>1 DEF Typed, Histories
<1>8. ASSUME NEW p \in Runs, PostLeft(p), q = poster.qid
      PROVE  ~IsAsked(r)
  <2>1. p = r /\ PosterAt("post")
    BY <1>5, <1>8 DEF PostLeft
  <2>2. active = poster.epoch \/ active = 0
    BY <1>1, <2>1 DEF SessionOK, Engaged
  <2> QED BY <1>1, <1>2, <1>8, <2>1, <2>2 DEF PostLeft, AskedOK
<1>9. CASE \E p \in Runs : Posts(p) /\ q = poster.qid
  BY <1>2, <1>3, <1>6, <1>9
<1>10. CASE ~\E p \in Runs : Posts(p) /\ q = poster.qid
  <2>1. q \notin history.lost
    BY <1>1, <1>10 DEF HistoryMove
  <2>2. relay[q].state = "open"
    <3>1. ASSUME NEW p \in Runs, PostLeft(p), q = poster.qid, PosterAt("post"),
                 relay[q].state # "open"
          PROVE  FALSE
      <4>1. ~IsAsked(r) /\ UNCHANGED history
        BY <1>8, <3>1 DEF PostLeft
      <4>2. relay[q].state \notin {"unposted", "open"}
        BY <1>0, <1>1, <1>4, <2>1, <3>1, <4>1 DEF PostOK
      <4> QED BY <1>2, <4>2 DEF CardMove, Cards
    <3> QED BY <1>2, <1>7, <1>10, <3>1
  <2>3. asked[r].qid = q /\ (asked[r].posted \/ poster.qid = q) /\ IsAsked(r)
    BY <1>0, <1>1, <1>2, <1>4, <2>1, <2>2 DEF OpenIsTracked, IsAsked
  <2>4. IsAsked(r)'
    <3>1. poster.qid = q => PosterAt("post")
      BY <1>1, <1>4 DEF PostOK
    <3>2. HandlesEnd(r) => asked[r].posted
      BY <2>3, <3>1 DEF HandlesEnd, PosterAt
    <3> QED BY <1>2, <2>3, <3>2, GoneWhere
  <2>5. ~Asks(r)
    BY <2>3 DEF Asks
  <2>6. asked'[r].qid = q /\ (asked[r].posted => asked'[r].posted)
    BY <1>2, <2>3, <2>4, <2>5, AskedKeeps
  <2>7. ASSUME ~asked[r].posted
        PROVE  poster'.qid = q
    <3>1. poster.qid = q /\ PosterAt("post")
      BY <1>1, <1>4, <2>3, <2>7 DEF PostOK
    <3>2. ~\E p \in Runs : PostLeft(p) \/ Posts(p) \/ PostBreaks(p)
      BY <1>7, <1>8, <1>10, <2>3, <3>1
    <3>3. ASSUME NEW p \in Runs, PostRefused(p)
          PROVE  FALSE
      <4>1. history' = [history EXCEPT !.forgotten = @ \cup {poster.qid}]
        BY <3>3 DEF PostRefused
      <4> QED BY <1>1, <3>1, <4>1 DEF Typed, Histories
    <3>4. UNCHANGED poster
      BY <3>1, <3>2, <3>3, OthersKeepPoster
         DEF PosterSteps, ReadsPending, TakesEnded, FindsSession, FindsNoSession,
             DropsGone, HandlesEnd, Skips, KeepsLocal, Asks, Retries, Turns, PosterAt
    <3> QED BY <3>1, <3>4
  <2> QED BY <1>2, <1>3, <2>6, <2>7
<1> QED BY <1>9, <1>10

(***************************************************************************)
(* The answers that count.                                                 *)
(***************************************************************************)

\* How the reader comes to an answer, judges it and applies it.
LEMMA ReaderMoves ==
  ASSUME IInv, NEW r \in Runs, ReaderSteps(r)
  PROVE  /\ reader.pc = "note" => Notes(r) /\ reader'.pc = "verdict"
         /\ reader'.pc = "judge" =>
              TakesNext(r) /\ SameQuestion(r)
         /\ reader'.pc = "apply" =>
              /\ Judges(r) /\ IsNew(r) /\ reader.pc = "judge"
              /\ reader'.qid = reader.qid /\ reader'.next = reader.next
              /\ Answer.choice = "correct" => reader'.mark = mark
         /\ reader'.pc = "note" =>
              /\ \/ Decides(r) /\ reader'.verdict = "settled"
                 \/ Corrects(r) /\ reader'.verdict = "corrected"
              /\ reader.pc = "apply"
              /\ reader'.qid = reader.qid /\ reader'.next = reader.next
<1>1. reader \in Readers
  BY DEF IInv, TypeOK, Typed
<1>2. ASSUME NEW v, Verdict(v)
      PROVE  reader'.pc = "verdict"
  BY <1>1, <1>2 DEF Verdict, Readers
<1>3. reader' = NotReading => reader'.pc = "idle"
  BY DEF NotReading
<1>4. CASE TakesNext(r)
  <2>1. CASE SameQuestion(r)
    BY <1>1, <1>4, <2>1 DEF TakesNext, Reading, ReaderAt, Readers
  <2>2. CASE ~SameQuestion(r)
    BY <1>3, <1>4, <2>2 DEF TakesNext, Reading, ReaderAt
  <2> QED BY <2>1, <2>2
<1>5. CASE TakesNoMore(r) \/ SettlesIt(r) \/ StopsReading(r)
  BY <1>3, <1>5 DEF TakesNoMore, SettlesIt, StopsReading, Reading, ReaderAt
<1>6. CASE GoesOn(r)
  <2>1. reader.pc = "verdict"
        /\ reader' = [reader EXCEPT !.pc = "answers", !.next = @ + 1, !.verdict = "none"]
    BY <1>6 DEF GoesOn, Reading, ReaderAt
  <2>2. reader'.pc = "answers"
    BY <1>1, <2>1 DEF Readers
  <2> QED BY <2>1, <2>2
<1>7. CASE Judges(r)
  <2>1. reader.pc = "judge"
    BY <1>7 DEF Judges, Reading, ReaderAt
  <2>2. CASE \E v : Verdict(v)
    BY <1>2, <2>1, <2>2
  <2>3. CASE /\ IsNew(r)
             /\ reader' = [reader EXCEPT !.pc = "apply",
                  !.mark = IF Answer.choice = "correct" THEN mark ELSE @]
    <3>1. /\ reader'.pc = "apply" /\ reader'.qid = reader.qid
          /\ reader'.next = reader.next
          /\ Answer.choice = "correct" => reader'.mark = mark
      BY <1>1, <2>3 DEF Readers
    <3> QED BY <1>7, <2>1, <2>3, <3>1
  <2> QED BY <1>7, <2>2, <2>3 DEF Judges
<1>8. CASE Decides(r)
  <2>1. reader.pc = "apply"
        /\ reader' = [reader EXCEPT !.pc = "note", !.verdict = "settled"]
    BY <1>8 DEF Decides, Reading, ReaderAt
  <2>2. /\ reader'.pc = "note" /\ reader'.verdict = "settled"
        /\ reader'.qid = reader.qid /\ reader'.next = reader.next
    BY <1>1, <2>1 DEF Readers
  <2> QED BY <1>8, <2>1, <2>2
<1>9. CASE Corrects(r)
  <2>1. reader.pc = "apply"
    BY <1>9 DEF Corrects, Reading, ReaderAt
  <2>2. CASE \E v : Verdict(v)
    BY <1>2, <2>1, <2>2
  <2>3. CASE reader' = [reader EXCEPT !.pc = "note", !.verdict = "corrected",
                          !.mark = [event |-> declared'.event, at |-> Answer.time]]
    <3>1. /\ reader'.pc = "note" /\ reader'.verdict = "corrected"
          /\ reader'.qid = reader.qid /\ reader'.next = reader.next
      BY <1>1, <2>3 DEF Readers
    <3> QED BY <1>9, <2>1, <3>1
  <2> QED BY <1>9, <2>2, <2>3 DEF Corrects
<1>10. CASE DecidesNothing(r) \/ Notes(r)
  BY <1>2, <1>10 DEF DecidesNothing, Notes, Reading, ReaderAt
<1> QED BY <1>4, <1>5, <1>6, <1>7, <1>8, <1>9, <1>10 DEF ReaderSteps

\* The answer stays in the hands of the reader, and is the same.
LEMMA SameAnswer ==
  ASSUME IInv, [Next]_vars, reader.pc \in {"judge", "apply", "note", "verdict"},
         reader'.qid = reader.qid, reader'.next = reader.next
  PROVE  Answer' = Answer
BY AnswerSteady, CardsMove, Grows DEF IInv, TypeOK

\* A question in the hands of the reader goes only with its session.
LEMMA HandsKeep ==
  ASSUME IInv, [Next]_vars, NEW r \in Runs, UNCHANGED reader,
         InHands(r), SameQuestion(r), ~DropAsked
  PROVE  asked'[r].qid = asked[r].qid
<1>1. /\ AskedOK(r) /\ PostOK /\ ReaderOK /\ Typed
  BY DEF IInv, TypeOK, PosterOK
<1>2. asked[r].applying /\ asked[r].posted
  BY <1>1 DEF AskedOK
<1>3. IsAsked(r)
  BY <1>1, <1>2 DEF AskedOK, NotAsked
<1>4. ~PostRefused(r)
  BY <1>1, <1>2, <1>3 DEF PostRefused, Posting, PostOK
<1>5. ~ReaderSteps(r)
  BY ReaderKinds DEF InHands, NotReading
<1>6. ~GoneKind(r)
  BY <1>2, <1>4, <1>5 DEF GoneKind, ReaderSteps
<1>7. IsAsked(r)' /\ ~Asks(r)
  BY <1>3, <1>6, GoneKinds DEF Asks
<1> QED BY <1>7, AskedKeeps

LEMMA CountedStep ==
  ASSUME IInv, [Next]_vars
  PROVE  CountedOK'
<1>1. /\ Typed /\ Linked /\ ReaderOK /\ CountedOK /\ RelayGrows /\ HistoryMove
      /\ reader \in Readers /\ history \in Histories
  BY CardsMove, Grows, HistoryMoves DEF IInv, TypeOK, Typed
<1> SUFFICES ASSUME NEW e \in history'.counted
             PROVE  /\ e.qid \in DOMAIN relay'
                    /\ asked'[relay'[e.qid].run].qid = e.qid =>
                         \/ e.time <= asked'[relay'[e.qid].run].applied[e.device]
                         \/ /\ reader'.pc = "note" /\ reader'.qid = e.qid
                            /\ e.device = Answer'.device
                    /\ e.qid = reader'.qid /\ reader'.pc = "judge" =>
                         asked'[relay'[e.qid].run].qid = e.qid
                    /\ reader'.pc = "apply" /\ e.qid = reader'.qid /\ e.device = Answer'.device
                         => e.time < Answer'.time
                    /\ reader'.pc = "note" /\ e.qid = reader'.qid /\ e.device = Answer'.device
                         => e.time <= Answer'.time
  BY DEF CountedOK, ReaderAt
<1>2. CASE e \notin history.counted
  <2>1. /\ reader'.pc = "note"
        /\ e = [qid |-> reader.qid, time |-> Answer.time, device |-> Answer.device]
        /\ \E p \in Runs : Decides(p) \/ Corrects(p)
    BY <1>1, <1>2 DEF HistoryMove
  <2>2. PICK p \in Runs : ReaderSteps(p)
    BY <2>1 DEF ReaderSteps
  <2>3. reader.pc = "apply" /\ reader'.qid = reader.qid /\ Answer' = Answer
    BY <2>1, <2>2, ReaderMoves, SameAnswer
  <2>4. reader.qid \in DOMAIN relay /\ Answer.time \in Times
    BY <1>1, <2>3, AnswerFacts
  <2> QED BY <1>1, <2>1, <2>3, <2>4 DEF RelayGrows, Times
<1>3. CASE e \in history.counted
  <2>1. PICK r : r = relay[e.qid].run
    OBVIOUS
  <2>2. /\ e.qid \in DOMAIN relay /\ e.qid # 0 /\ e.qid \in DOMAIN relay'
        /\ relay'[e.qid].run = r /\ r \in Runs
        /\ e \in [qid : Nat, time : Times, device : Devices]
    BY <1>1, <1>3, <2>1, CardFacts DEF CountedOK, RelayGrows, Later, Cards, Histories
  <2>3. /\ asked[r].qid = e.qid =>
                \/ e.time <= asked[r].applied[e.device]
                \/ /\ reader.pc = "note" /\ reader.qid = e.qid
                   /\ e.device = Answer.device
        /\ e.qid = reader.qid /\ reader.pc = "judge" => asked[r].qid = e.qid
        /\ reader.pc = "apply" /\ e.qid = reader.qid /\ e.device = Answer.device
             => e.time < Answer.time
        /\ reader.pc = "note" /\ e.qid = reader.qid /\ e.device = Answer.device
             => e.time <= Answer.time
    BY <1>1, <1>3, <2>1 DEF CountedOK, ReaderAt
  <2>4. ~DropAsked
    <3>1. DropAsked => history'.counted = {}
      BY <1>1 DEF DropAsked, Histories
    <3> QED BY <3>1
  <2>5. asked[r] \in Questions /\ AskedMove(r)
    BY <1>1, <2>2, AskedMoves DEF Typed
  <2>6. e.qid = reader.qid /\ reader.pc # "idle" => reader.run = {r}
    BY <1>1, <2>1 DEF ReaderOK, ReaderAt
  <2>7. ASSUME NEW p \in Runs, ReaderSteps(p), reader.qid = e.qid
        PROVE  p = r
    BY <2>1, <2>7, ReaderKinds
  <2>8. ASSUME UNCHANGED reader, reader.pc \in {"judge", "apply", "note"}
        PROVE  Answer' = Answer
    BY <2>8, SameAnswer
  <2>9. ASSUME reader'.pc \in {"judge", "apply", "note"}, reader'.qid = e.qid
        PROVE  \/ UNCHANGED reader
               \/ ReaderSteps(r) /\ reader.qid = e.qid
    <3>1. CASE \E p \in Runs : Polls(p)
      BY <2>9, <3>1 DEF Polls, NotReading
    <3>2. ASSUME NEW p \in Runs, ReaderSteps(p)
          PROVE  ReaderSteps(r) /\ reader.qid = e.qid
      <4>1. reader'.qid = reader.qid
        BY <2>9, <3>2, ReaderKinds DEF NotReading
      <4> QED BY <2>7, <2>9, <3>2, <4>1
    <3> QED BY <3>1, <3>2, OthersKeepReader
  <2>10. ASSUME asked'[r].qid = e.qid
         PROVE  \/ e.time <= asked'[r].applied[e.device]
                \/ /\ reader'.pc = "note" /\ reader'.qid = e.qid
                   /\ e.device = Answer'.device
    <3>1. asked[r].qid = e.qid
      <4>1. ASSUME Asks(r), asked'[r] = [NotAsked EXCEPT !.qid = Len(relay')]
            PROVE  FALSE
        <5>1. Len(relay') = Len(relay) + 1 /\ Len(relay) \in Nat
              /\ DOMAIN relay = 1..Len(relay)
          BY <1>1, <2>2, <4>1, AskAppends, CardFacts
        <5>2. asked'[r].qid = Len(relay')
          BY <4>1 DEF NotAsked
        <5> QED BY <2>2, <2>10, <5>1, <5>2
      <4>2. asked'[r] # NotAsked
        BY <2>2, <2>10 DEF NotAsked
      <4> QED BY <2>5, <2>10, <4>1, <4>2 DEF AskedMove, Questions
    <3>2. CASE Notes(r) /\ reader.qid = e.qid
      <4>1. reader.pc = "note" /\ SameQuestion(r)
            /\ asked'[r] = [asked[r] EXCEPT !.applied[Answer.device] = Answer.time]
        BY <1>1, <2>2, <3>1, <3>2
           DEF Notes, Reading, ReaderAt, SameQuestion, Typed
      <4>2. Answer.device \in Devices /\ Answer.time \in Times
        BY <1>1, <4>1, AnswerFacts
      <4>3. asked'[r].applied = [asked[r].applied EXCEPT ![Answer.device] = Answer.time]
        BY <2>5, <4>1 DEF Questions
      <4>4. asked[r].applied \in [Devices -> 0..MaxTime] /\ e.device \in Devices
        BY <2>2, <2>5 DEF Questions
      <4>5. CASE e.device = Answer.device
        BY <2>3, <3>2, <4>1, <4>2, <4>3, <4>4, <4>5
      <4>6. CASE e.device # Answer.device
        BY <2>3, <3>1, <4>3, <4>4, <4>6
      <4> QED BY <4>5, <4>6
    <3>3. CASE ~(Notes(r) /\ reader.qid = e.qid)
      <4>1. asked'[r] # NotAsked /\ ~Asks(r)
        BY <2>2, <2>10, <3>1 DEF NotAsked, Asks, IsAsked
      <4>2. asked'[r].applied = asked[r].applied
        <5>1. ~(Notes(r) /\ SameQuestion(r))
          BY <3>1, <3>3 DEF SameQuestion
        <5> QED BY <2>5, <4>1, <5>1 DEF AskedMove, Questions
      <4>3. ASSUME reader.pc = "note", reader.qid = e.qid
            PROVE  UNCHANGED reader
        <5>1. ASSUME NEW p \in Runs, ReaderSteps(p)
              PROVE  FALSE
          BY <2>7, <3>3, <4>3, <5>1, ReaderMoves
        <5>2. ASSUME NEW p \in Runs, Polls(p)
              PROVE  FALSE
          BY <4>3, <5>2 DEF Polls, ReaderAt
        <5> QED BY <5>1, <5>2, OthersKeepReader
      <4> QED BY <2>3, <2>8, <3>1, <4>2, <4>3
    <3> QED BY <3>2, <3>3
  <2>11. ASSUME e.qid = reader'.qid, reader'.pc = "judge"
         PROVE  asked'[r].qid = e.qid
    <3>1. CASE UNCHANGED reader
      <4>1. InHands(r) /\ SameQuestion(r)
        BY <2>3, <2>6, <2>11, <3>1 DEF InHands, SameQuestion
      <4> QED BY <2>2, <2>3, <2>4, <2>11, <3>1, <4>1, HandsKeep
    <3>2. CASE ReaderSteps(r) /\ reader.qid = e.qid
      <4>1. TakesNext(r) /\ SameQuestion(r)
        BY <2>2, <2>11, <3>2, ReaderMoves
      <4>2. asked'[r] = [asked[r] EXCEPT !.last = reader.next, !.applying = TRUE]
        BY <1>1, <2>2, <4>1 DEF TakesNext, Typed
      <4> QED BY <2>5, <3>2, <4>1, <4>2 DEF SameQuestion, Questions
    <3> QED BY <2>9, <2>11, <3>1, <3>2
  <2>12. ASSUME reader'.pc = "apply", e.qid = reader'.qid, e.device = Answer'.device
         PROVE  e.time < Answer'.time
    <3>1. CASE UNCHANGED reader
      BY <2>3, <2>8, <2>12, <3>1
    <3>2. CASE ReaderSteps(r) /\ reader.qid = e.qid
      <4>1. /\ IsNew(r) /\ reader.pc = "judge"
            /\ reader'.qid = reader.qid /\ reader'.next = reader.next
        BY <2>2, <2>12, <3>2, ReaderMoves
      <4>2. Answer' = Answer
        BY <4>1, SameAnswer
      <4>3. asked[r].qid = e.qid /\ e.time <= asked[r].applied[e.device]
        BY <2>3, <3>2, <4>1
      <4>4. Answer.time > asked[r].applied[e.device]
        BY <2>12, <3>2, <4>1, <4>2, <4>3 DEF IsNew, SameQuestion
      <4>5. /\ asked[r].applied[e.device] \in 0..MaxTime
            /\ e.time \in Times /\ Answer.time \in Times
        BY <1>1, <2>2, <2>5, <4>1, AnswerFacts DEF Questions
      <4> QED BY <4>2, <4>3, <4>4, <4>5, Bounds DEF Times
    <3> QED BY <2>9, <2>12, <3>1, <3>2
  <2>13. ASSUME reader'.pc = "note", e.qid = reader'.qid, e.device = Answer'.device
         PROVE  e.time <= Answer'.time
    <3>1. CASE UNCHANGED reader
      BY <2>3, <2>8, <2>13, <3>1
    <3>2. CASE ReaderSteps(r) /\ reader.qid = e.qid
      <4>1. /\ reader.pc = "apply"
            /\ reader'.qid = reader.qid /\ reader'.next = reader.next
        BY <2>2, <2>13, <3>2, ReaderMoves
      <4>2. Answer' = Answer
        BY <4>1, SameAnswer
      <4>3. e.time \in Times /\ Answer.time \in Times
        BY <1>1, <2>2, <4>1, AnswerFacts
      <4> QED BY <2>3, <2>13, <3>2, <4>1, <4>2, <4>3, Bounds DEF Times
    <3> QED BY <2>9, <2>13, <3>1, <3>2
  <2> QED BY <2>2, <2>10, <2>11, <2>12, <2>13
<1> QED BY <1>2, <1>3

(***************************************************************************)
(* The corrections.                                                        *)
(***************************************************************************)

\* What changes the environment, and what the worker remembers of it.
LEMMA MarkMoves ==
  ASSUME IInv, [Next]_vars
  PROVE  /\ \/ UNCHANGED declared
            \/ ChangesEnvironment
            \/ \E p \in Runs : Corrects(p)
         /\ \/ UNCHANGED mark
            \/ DropAsked
            \/ \E p \in Runs : /\ Notes(p) /\ reader.verdict = "corrected"
                               /\ mark' = reader.mark
<1>1. ASSUME NEW r \in Runs, ReaderSteps(r), ~Notes(r), ~Corrects(r)
      PROVE  UNCHANGED <<declared, mark>>
  BY <1>1 DEF ReaderSteps, TakesNext, TakesNoMore, Judges, Decides, DecidesNothing,
              SettlesIt, GoesOn, StopsReading
<1>2. ASSUME NEW r \in Runs, Corrects(r)
      PROVE  UNCHANGED mark
  BY <1>2 DEF Corrects
<1>3. ASSUME NEW r \in Runs, Notes(r)
      PROVE  UNCHANGED declared /\ mark' \in {mark, reader.mark}
             /\ (mark' # mark => reader.verdict = "corrected")
  BY <1>3 DEF Notes
<1>4. ASSUME NEW r \in Runs,
             \/ StartsToWait(r) \/ EndsHere(r) \/ Polls(r)
             \/ HandlesEnd(r) \/ AtSnapshot(r)
      PROVE  UNCHANGED <<declared, mark>>
  BY <1>4 DEF StartsToWait, EndsHere, Polls, HandlesEnd, AtSnapshot, Skips, KeepsLocal,
              Asks, Retries, Turns, Posts, PostBreaks, PostRefused, PostLeft, Posting, worker
<1>5. ASSUME NEW q \in DOMAIN relay,
             Expires(q) \/ \E a \in Answers : TakesAnswer(q, a)
      PROVE  UNCHANGED <<declared, mark>>
  BY <1>5 DEF Expires, TakesAnswer, worker
<1>6. CASE \/ Lock \/ Unlock \/ UNCHANGED vars \/ ReadsPending \/ TakesEnded
           \/ FindsSession \/ DropsGone
  BY <1>6 DEF Lock, Unlock, ReadsPending, TakesEnded, FindsSession, DropsGone, worker, vars
<1>7. CASE FindsNoSession \/ Forget
  BY <1>7 DEF FindsNoSession, Forget, ForgetSession, worker
<1>8. CASE ChangesEnvironment
  BY <1>8 DEF ChangesEnvironment, worker
<1> QED BY <1>1, <1>2, <1>3, <1>4, <1>5, <1>6, <1>7, <1>8
        DEF Next, PosterSteps, AtSnapshot

LEMMA CorrectedStep ==
  ASSUME IInv, [Next]_vars
  PROVE  CorrectedOK'
<1>1. /\ Typed /\ ReaderOK /\ CorrectedOK /\ HistoryMove
      /\ reader \in Readers /\ declared \in EventsOf /\ history \in Histories
  BY HistoryMoves DEF IInv, TypeOK, Typed
<1> DEFINE Latest == [event |-> declared.event, at |-> history.corrected]
<1> SUFFICES ASSUME history'.corrected # 0
             PROVE  /\ declared'.at = 0 /\ declared'.event # 0
                    /\ IF reader'.pc = "note" /\ reader'.verdict = "corrected"
                         THEN reader'.mark = Latest'
                         ELSE /\ mark' = Latest'
                              /\ reader'.pc = "apply" /\ Answer'.choice = "correct"
                                   => reader'.mark = Latest'
  BY DEF CorrectedOK, ReaderAt
<1>2. ASSUME NEW p \in Runs, Corrects(p), reader'.pc = "note"
      PROVE  /\ declared'.at = 0 /\ declared'.event # 0
             /\ reader'.verdict = "corrected" /\ reader'.mark = Latest'
  <2>1. ~\E v : Verdict(v)
    <3>1. ASSUME NEW v, Verdict(v)
          PROVE  reader'.pc = "verdict"
      BY <1>1, <3>1 DEF Verdict, Readers
    <3> QED BY <1>2, <3>1
  <2>2. /\ declared' = [event |-> declared.event + 1, at |-> 0]
        /\ history' = [Counts(history) EXCEPT !.corrected = Answer.time]
        /\ reader' = [reader EXCEPT !.pc = "note", !.verdict = "corrected",
                        !.mark = [event |-> declared'.event, at |-> Answer.time]]
    BY <1>2, <2>1 DEF Corrects
  <2>3. declared.event \in Nat /\ declared'.event = declared.event + 1 /\ declared'.at = 0
    BY <1>1, <2>2 DEF EventsOf
  <2>4. history'.corrected = Answer.time
    BY <1>1, <2>2 DEF Counts, Histories
  <2>5. /\ reader'.verdict = "corrected"
        /\ reader'.mark = [event |-> declared'.event, at |-> Answer.time]
    BY <1>1, <2>2 DEF Readers
  <2> QED BY <2>3, <2>4, <2>5
<1>3. CASE \E p \in Runs : Corrects(p) /\ reader'.pc = "note"
  BY <1>2, <1>3
<1>4. CASE ~\E p \in Runs : Corrects(p) /\ reader'.pc = "note"
  <2>1. ~DropAsked
    <3>1. DropAsked => history'.corrected = 0
      BY <1>1 DEF DropAsked, Histories
    <3> QED BY <3>1
  <2>2. ~ChangesEnvironment
    <3>1. ChangesEnvironment => history'.corrected = 0
      BY <1>1 DEF ChangesEnvironment, Histories
    <3> QED BY <3>1
  <2>3. history'.corrected = history.corrected
    BY <1>1, <1>4, <2>1, <2>2 DEF HistoryMove
  <2>4. UNCHANGED declared
    <3>1. ASSUME NEW p \in Runs, Corrects(p)
          PROVE  UNCHANGED declared
      <4>1. reader' # [reader EXCEPT !.pc = "note", !.verdict = "corrected",
                         !.mark = [event |-> declared'.event, at |-> Answer.time]]
        BY <1>1, <1>4, <3>1 DEF Readers
      <4> QED BY <3>1, <4>1 DEF Corrects
    <3> QED BY <2>2, <3>1, MarkMoves
  <2>5. /\ declared.at = 0 /\ declared.event # 0 /\ Latest' = Latest
        /\ IF reader.pc = "note" /\ reader.verdict = "corrected"
             THEN reader.mark = Latest
             ELSE /\ mark = Latest
                  /\ reader.pc = "apply" /\ Answer.choice = "correct"
                       => reader.mark = Latest
    BY <1>1, <2>3, <2>4 DEF CorrectedOK, ReaderAt
  <2>6. mark' = mark \/ \E p \in Runs : /\ Notes(p) /\ reader.verdict = "corrected"
                                        /\ mark' = reader.mark
    BY <2>1, MarkMoves
  <2>7. CASE UNCHANGED reader
    <3>1. \A p \in Runs : ~Notes(p)
      BY <2>7, ReaderMoves DEF ReaderSteps, Notes, Reading, ReaderAt
    <3>2. reader.pc = "apply" => Answer' = Answer
      BY <2>7, SameAnswer
    <3> QED BY <2>4, <2>5, <2>6, <2>7, <3>1, <3>2
  <2>8. ASSUME NEW p \in Runs, Polls(p)
        PROVE  /\ reader.pc = "idle" /\ reader'.pc = "answers" /\ mark' = mark
    BY <2>8 DEF Polls, ReaderAt, NotReading, worker
  <2>9. ASSUME NEW p \in Runs, ReaderSteps(p)
        PROVE  /\ reader'.pc = "note" => reader'.verdict # "corrected"
               /\ mark' = Latest'
               /\ reader'.pc = "apply" /\ Answer'.choice = "correct"
                    => reader'.mark = Latest'
    <3>1. reader'.pc = "note" => reader'.verdict # "corrected"
      BY <1>4, <2>9, ReaderMoves
    <3>2. CASE reader.pc = "note" /\ reader.verdict = "corrected"
      <4>1. Notes(p) /\ reader'.pc = "verdict"
        BY <2>9, <3>2, ReaderMoves
      <4>2. mark' = reader.mark
        BY <3>2, <4>1 DEF Notes
      <4> QED BY <2>5, <3>2, <4>1, <4>2
    <3>3. CASE ~(reader.pc = "note" /\ reader.verdict = "corrected")
      <4>1. mark' = mark /\ mark = Latest
        BY <2>5, <2>6, <3>3 DEF Notes, Reading, ReaderAt
      <4>2. ASSUME reader'.pc = "apply", Answer'.choice = "correct"
            PROVE  reader'.mark = mark
        <5>1. /\ reader.pc = "judge"
              /\ reader'.qid = reader.qid /\ reader'.next = reader.next
              /\ Answer.choice = "correct" => reader'.mark = mark
          BY <2>9, <4>2, ReaderMoves
        <5> QED BY <4>2, <5>1, SameAnswer
      <4> QED BY <2>5, <3>1, <4>1, <4>2
    <3> QED BY <3>1, <3>2, <3>3
  <2> QED BY <2>4, <2>5, <2>7, <2>8, <2>9, OthersKeepReader
<1> QED BY <1>3, <1>4

(***************************************************************************)
(* The invariant.                                                          *)
(***************************************************************************)

LEMMA InitIInv ==
  ASSUME Init
  PROVE  IInv
<1>1. Typed
  BY InitTyped
<1>2. DOMAIN relay = {}
  BY <1>1, CardFacts, EmptySeq DEF Init
<1>3. Linked /\ SettleTruthful /\ OpenIsTracked
  BY <1>2 DEF Init, Linked, SettleTruthful, OpenIsTracked, IsAsked, NotAsked
<1>4. ASSUME NEW r \in Runs
      PROVE  RunOK(r) /\ AskedOK(r)
  BY <1>4 DEF Init, RunOK, AskedOK, IsAsked, NotAsked, InHands, NotReading, Resting
<1>5. PosterOK
  BY DEF Init, PosterOK, SessionOK, PostOK, Engaged, PosterAt, Resting
<1>6. ReaderOK /\ CountedOK /\ CorrectedOK
  BY DEF Init, ReaderOK, CountedOK, CorrectedOK, ReaderAt, NotReading
<1> QED BY <1>1, <1>3, <1>4, <1>5, <1>6 DEF IInv, TypeOK

LEMMA IInvStep ==
  ASSUME IInv, [Next]_vars
  PROVE  IInv'
BY TypedStep, LinkedStep, RunStep, AskedStep, SessionStep, PostStep, ReaderStep,
   TruthStep, OpenStep, CountedStep, CorrectedStep DEF IInv, TypeOK, PosterOK

LEMMA AlwaysIInv == Spec => []IInv
<1>1. Init => IInv
  BY InitIInv
<1>2. IInv /\ [Next]_vars => IInv'
  BY IInvStep
<1> QED BY <1>1, <1>2, PTL DEF Spec

(***************************************************************************)
(* The theorems.                                                           *)
(***************************************************************************)

\* The worker and the relay agree on what they share: a question that the
\* worker asks is a card of the relay for the same run, one that it counts as
\* posted the relay has, and it has read no further than the answers go.
THEOREM TypeCorrect == Spec => []TypeOK
<1>1. IInv => TypeOK
  BY DEF IInv
<1> QED BY <1>1, AlwaysIInv, PTL

\* Whatever ends a run, and whichever of the two threads settles its question,
\* with a lock, an answer of a device or an answer on this Mac in between, what
\* the relay tells the devices is how the run ended, and a device is named only
\* when its answer ended it.
THEOREM ToldAsItEnded == Spec => []SettleTruthful
<1>1. IInv => SettleTruthful
  BY DEF IInv
<1> QED BY <1>1, AlwaysIInv, PTL

\* A question that is open on the relay is asked by the worker, posted or about
\* to be, and is in the hands of the reader when the worker says so; what was
\* forgotten with a session or lost with a call is all that may stay open.
THEOREM OpenIsAsked == Spec => []OpenIsTracked
<1>1. IInv => OpenIsTracked
  BY DEF IInv
<1> QED BY <1>1, AlwaysIInv, PTL

\* An answer in the hands of the reader counts only when it is later than each
\* answer of its device that counted for the question: one that the relay
\* repeats or hands out late never counts.
THEOREM CountsOnce == Spec => AnswersCountOnce
<1>1. IInv /\ [Next]_vars => [AnswerCounts => \A e \in history.counted :
              e.qid = reader.qid /\ e.device = Answer.device
                => e.time < Answer.time]_vars
  BY DEF IInv, CountedOK, AnswerCounts
<1> QED BY <1>1, AlwaysIInv, PTL DEF Spec, AnswersCountOnce

\* A correction through the relay counts only when it is later than the last
\* one, of whatever device and question, that nothing on the Mac replaced.
THEOREM LateNeverUndoes == Spec => CorrectionsInOrder
<1>1. ASSUME IInv, Next, AnswerCounts, Answer.choice = "correct"
      PROVE  Answer.time > history.corrected
  <2>1. /\ Typed /\ ReaderOK /\ CorrectedOK /\ reader.pc = "apply" /\ reader'.pc = "note"
        /\ history.corrected \in 0..MaxTime
    BY <1>1 DEF IInv, TypeOK, Typed, AnswerCounts, ReaderAt, Histories
  <2>2. Answer.time \in Times
    BY <2>1, AnswerFacts
  <2>3. PICK p \in Runs : ReaderSteps(p)
    BY <1>1, <2>1, OthersKeepReader DEF Polls, ReaderAt
  <2>4. Corrects(p)
    BY <1>1, <2>1, <2>3, ReaderMoves DEF Decides
  <2>5. ~Stale(Answer.time)
    <3>1. ASSUME NEW v, Verdict(v)
          PROVE  reader'.pc = "verdict"
      BY <2>1, <3>1 DEF Verdict, Typed, Readers
    <3> QED BY <2>1, <2>4, <3>1 DEF Corrects
  <2>6. CASE history.corrected # 0
    <3>1. reader.mark = [event |-> declared.event, at |-> history.corrected]
          /\ declared.event # 0
      BY <1>1, <2>1, <2>6 DEF CorrectedOK, ReaderAt
    <3>2. ~(Answer.time <= history.corrected)
      BY <2>5, <3>1 DEF Stale, NoEvent
    <3> QED BY <2>1, <2>2, <3>2, Bounds DEF Times
  <2> QED BY <2>2, <2>6, Bounds DEF Times
<1>2. IInv /\ [Next]_vars => [AnswerCounts /\ Answer.choice = "correct"
                               => Answer.time > history.corrected]_vars
  BY <1>1
<1> QED BY <1>2, AlwaysIInv, PTL DEF Spec, CorrectionsInOrder
=============================================================================
