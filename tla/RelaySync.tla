----------------------------- MODULE RelaySync ------------------------------
(***************************************************************************)
(* The Macs of a vault that sync through the relay (src/sync/relay.rs, and *)
(* crates/apassy-relay/src/server/sync.rs for the relay).  The relay keeps *)
(* a chain of signed heads; the hash of a head in the next one makes a     *)
(* head stand for its whole history, so a head is here the sequence of the *)
(* entries up to its own, its version is its length, and "the hash is the  *)
(* same" is "the sequence is the same".                                    *)
(*                                                                         *)
(* A run of a sync makes each relay call and each local step apart: a run  *)
(* of another Mac, an edit, a lock, a quit or a broken connection comes    *)
(* between any two of them.  A push whose answer did not come can land     *)
(* later, or never.  The relay can come back from a backup.                *)
(*                                                                         *)
(* Abstracted: a vault is the set of the changes it has, a merge is their  *)
(* union (FolderSync models the merge itself), and a digest of content is  *)
(* that set.  Left out: signatures and the membership of their devices,    *)
(* passphrases and earlier schemas, the sign-in, rate limits, receipts,    *)
(* the pages of a chain of more than 1000 heads, the loss of the oldest of *)
(* 10000 heads, and the memory of a copy that failed (it saves a           *)
(* download that fails again).                                             *)
(***************************************************************************)
EXTENDS Naturals, Sequences

CONSTANTS
  Macs,
  Creator,         \* the Mac that turned the sync on
  Changes,         \* the changes that the owner makes, each once
  MaxRounds,       \* MAX_ROUNDS
  MaxFaults        \* bound: stops, lost answers, rollbacks, damaged copies
                   \* and the owner's ways out

ASSUME RelayAssumption ==
  /\ Creator \in Macs
  /\ MaxRounds \in Nat \ {0}
  /\ MaxFaults \in Nat

VARIABLES
  relay,           \* the current head; <<>>: the relay has no copy
  damaged,         \* the heads whose snapshot on the relay is damaged
  flight,          \* the pushes whose answer did not come
  content,         \* the changes in the vault of each Mac
  disk,            \* the sync state of each Mac in its data folder
  run,             \* the sync that runs on each Mac
  faults           \* how many faults and ways out there were

vars == <<relay, damaged, flight, content, disk, run, faults>>

-----------------------------------------------------------------------------

\* One version: what its copy has, the device, and whether the owner pushed
\* it over a copy without a merge (history).
Entries == [content : SUBSET Changes, by : Macs, replaced : BOOLEAN]

NoHead == <<>>
Top(head) == head[Len(head)]
Before(head) == SubSeq(head, 1, Len(head) - 1)

\* The chain links: the head is the one of base, or comes after it.
LinksTo(head, base) ==
  Len(base) <= Len(head) /\ \A i \in 1..Len(base) : head[i] = base[i]

First == <<[content |-> {}, by |-> Creator, replaced |-> FALSE]>>

\* last_remote_version with last_head_sha256, and last_content.
States == [anchor : Seq(Entries), told : SUBSET Changes]

Kinds == {"sync", "use", "replace"}
Steps == {"idle", "head", "fetch", "merged", "compare", "put", "ask", "pushed"}

\* A run: its state, the head that it saw, and the copy that it pushes.
Runs == [pc : Steps, kind : Kinds, round : 1..MaxRounds,
         anchor : Seq(Entries), told : SUBSET Changes,
         head : Seq(Entries), copy : SUBSET Changes]

NoRun == [pc |-> "idle", kind |-> "sync", round |-> 1, anchor |-> NoHead,
          told |-> {}, head |-> NoHead, copy |-> {}]

Init ==
  /\ relay = First
  /\ damaged = {} /\ flight = {}
  /\ content = [m \in Macs |-> {}]
  /\ disk = [m \in Macs |-> [anchor |-> First, told |-> {}]]
  /\ run = [m \in Macs |-> NoRun]
  /\ faults = 0

At(m, step) == run[m].pc = step

\* The run of m goes on as r.
Goes(m, r) == run' = [run EXCEPT ![m] = r]

Goto(m, step) == Goes(m, [run[m] EXCEPT !.pc = step])

Ends(m) == Goes(m, NoRun)

\* write_state
WriteState(m) ==
  disk' = [disk EXCEPT ![m] = [anchor |-> run[m].anchor, told |-> run[m].told]]

Fault ==
  /\ faults < MaxFaults
  /\ faults' = faults + 1

-----------------------------------------------------------------------------
(* The owner *)

Edit(m) ==
  /\ \E c \in Changes \ UNION {content[n] : n \in Macs} :
       content' = [content EXCEPT ![m] = @ \cup {c}]
  /\ UNCHANGED <<relay, damaged, flight, disk, run, faults>>

\* One sync of a vault runs at a time.
StartRun(m, kind, anchor) ==
  /\ At(m, "idle")
  /\ Goes(m, [NoRun EXCEPT !.pc = "head", !.kind = kind, !.anchor = anchor,
                           !.told = disk[m].told])
  /\ UNCHANGED <<relay, damaged, flight, content, disk>>

Sync(m) == StartRun(m, "sync", disk[m].anchor) /\ UNCHANGED faults

\* The owner takes the copy as it is on the relay: the Mac forgets its anchor.
UseRelayCopy(m) == Fault /\ StartRun(m, "use", NoHead)

\* The owner puts the vault over a copy that fails a check.
ReplaceRelayCopy(m) == Fault /\ StartRun(m, "replace", disk[m].anchor)

-----------------------------------------------------------------------------
(* The rounds of a sync *)

\* Mutant of Accepts: a version that is not lower is taken.
AcceptsByVersion(anchor, head) == Len(head) >= Len(anchor)

\* No anchor: trust on first use.
Accepts(anchor, head) == anchor = NoHead \/ LinksTo(head, anchor)

\* The head is one that this Mac did not merge or push.
IsNewer(head, anchor) == Len(head) > Len(anchor)

LookAtHead(m) ==
  /\ At(m, "head") /\ run[m].kind # "replace"
  /\ Accepts(run[m].anchor, relay)
  /\ Goes(m, [run[m] EXCEPT !.head = relay,
       !.pc = IF IsNewer(relay, run[m].anchor) THEN "fetch" ELSE "compare"])
  /\ UNCHANGED <<relay, damaged, flight, content, disk, faults>>

\* StaleCopy, ForkedCopy
LookRefused(m) ==
  /\ At(m, "head") /\ run[m].kind # "replace"
  /\ ~Accepts(run[m].anchor, relay)
  /\ Ends(m)
  /\ UNCHANGED <<relay, damaged, flight, content, disk, faults>>

\* The relay keeps the snapshots of the current and the previous version.
Kept(version) == version \in {Len(relay), Len(relay) - 1}

Served(head) ==
  Kept(Len(head)) /\ LinksTo(relay, head) /\ head \notin damaged

\* Mutant of Fetch: the state is saved before the merge.
FetchSavesFirst(m) ==
  /\ At(m, "fetch")
  /\ Served(run[m].head)
  /\ disk' = [disk EXCEPT ![m] = [anchor |-> run[m].head,
                                 told |-> Top(run[m].head).content]]
  /\ Goes(m, [run[m] EXCEPT !.pc = "merged", !.anchor = run[m].head,
                            !.told = Top(run[m].head).content])
  /\ UNCHANGED <<relay, damaged, flight, content, faults>>

\* Mutant of Fetch: the merged vault is taken for what the relay has.
FetchTellsVault(m) ==
  /\ At(m, "fetch")
  /\ Served(run[m].head)
  /\ content' = [content EXCEPT ![m] = @ \cup Top(run[m].head).content]
  /\ Goes(m, [run[m] EXCEPT !.pc = "merged", !.anchor = run[m].head,
                            !.told = content'[m]])
  /\ UNCHANGED <<relay, damaged, flight, disk, faults>>

Fetch(m) ==
  /\ At(m, "fetch")
  /\ Served(run[m].head)
  /\ content' = [content EXCEPT ![m] = @ \cup Top(run[m].head).content]
  /\ Goes(m, [run[m] EXCEPT !.pc = "merged", !.anchor = run[m].head,
                            !.told = Top(run[m].head).content])
  /\ UNCHANGED <<relay, damaged, flight, disk, faults>>

\* A copy that is damaged, or not the one of the head, stays so: a Mac that
\* uses the relay copy then keeps its forgotten anchor.
FetchFails(m) ==
  /\ At(m, "fetch")
  /\ ~Served(run[m].head)
  /\ IF run[m].kind = "use" /\ Kept(Len(run[m].head))
       THEN WriteState(m)
       ELSE UNCHANGED disk
  /\ Ends(m)
  /\ UNCHANGED <<relay, damaged, flight, content, faults>>

SaveMerge(m) ==
  /\ At(m, "merged")
  /\ WriteState(m)
  /\ Goto(m, "compare")
  /\ UNCHANGED <<relay, damaged, flight, content, faults>>

\* Nothing to push.
InSync(m) ==
  /\ At(m, "compare")
  /\ run[m].head # NoHead /\ run[m].told = content[m]
  /\ WriteState(m)
  /\ Ends(m)
  /\ UNCHANGED <<relay, damaged, flight, content, faults>>

\* The copy to push, written while the run has the vault.
WriteCopy(m) ==
  /\ At(m, "compare")
  /\ run[m].head = NoHead \/ run[m].told # content[m]
  /\ Goes(m, [run[m] EXCEPT !.copy = content[m], !.pc = "put"])
  /\ UNCHANGED <<relay, damaged, flight, content, disk, faults>>

\* replace_rounds: over the current head, whatever it is.
ReplaceHead(m) ==
  /\ At(m, "head") /\ run[m].kind = "replace"
  /\ Goes(m, [run[m] EXCEPT !.head = relay, !.copy = content[m],
                            !.pc = "put"])
  /\ UNCHANGED <<relay, damaged, flight, content, disk, faults>>

-----------------------------------------------------------------------------
(* A push *)

\* The head that m signs.
Pushed(m) ==
  Append(run[m].head, [content |-> run[m].copy, by |-> m,
                       replaced |-> run[m].kind = "replace"])

\* Mutant of Commits: only If-Match.
CommitsByVersion(head) == Len(relay) = Len(head) - 1

\* If-Match and the previous hash name the current head when it commits.
Commits(head) == relay = Before(head)

Commit(head) == relay' = Append(relay, Top(head))

\* The state of a run whose push landed.
Landed(m) ==
  Goes(m, [run[m] EXCEPT !.pc = "pushed", !.anchor = Pushed(m),
                         !.told = run[m].copy])

Put(m) ==
  /\ At(m, "put")
  /\ Commits(Pushed(m))
  /\ Commit(Pushed(m))
  /\ Landed(m)
  /\ UNCHANGED <<damaged, flight, content, disk, faults>>

\* Mutant of PutRefused: one round more.
PutRefusedOnceMore(m) ==
  /\ At(m, "put")
  /\ ~Commits(Pushed(m))
  /\ IF run[m].round <= MaxRounds
       THEN Goes(m, [run[m] EXCEPT !.pc = "head", !.round = @ + 1])
       ELSE Ends(m)
  /\ UNCHANGED <<relay, damaged, flight, content, disk, faults>>

\* Mutant of PutRefused: a refused push counts as sent.
PutRefusedIsSent(m) ==
  /\ At(m, "put")
  /\ ~Commits(Pushed(m))
  /\ Goes(m, [run[m] EXCEPT !.pc = "pushed", !.told = run[m].copy])
  /\ UNCHANGED <<relay, damaged, flight, content, disk, faults>>

\* 412: another round, or RelayBusy.
PutRefused(m) ==
  /\ At(m, "put")
  /\ ~Commits(Pushed(m))
  /\ IF run[m].round < MaxRounds
       THEN Goes(m, [run[m] EXCEPT !.pc = "head", !.round = @ + 1])
       ELSE Ends(m)
  /\ UNCHANGED <<relay, damaged, flight, content, disk, faults>>

\* The connection breaks: the push is on its way.
PutBroken(m) ==
  /\ At(m, "put")
  /\ Fault
  /\ flight' = flight \cup {Pushed(m)}
  /\ Goto(m, "ask")
  /\ UNCHANGED <<relay, damaged, content, disk>>

\* A push on its way commits.
LateCommit(head) ==
  /\ Commits(head)
  /\ Commit(head)
  /\ flight' = flight \ {head}
  /\ UNCHANGED <<damaged, content, disk, run, faults>>

\* It landed when the relay has this head as the next version.
AskLanded(m) ==
  /\ At(m, "ask")
  /\ relay = Pushed(m)
  /\ Landed(m)
  /\ UNCHANGED <<relay, damaged, flight, content, disk, faults>>

\* RelayUnreachable.  Also when the relay has an earlier push of the same copy:
\* the time in a head makes it another one, and a head has no time here.
AskUnknown(m) ==
  /\ At(m, "ask")
  /\ Ends(m)
  /\ UNCHANGED <<relay, damaged, flight, content, disk, faults>>

SavePush(m) ==
  /\ At(m, "pushed")
  /\ WriteState(m)
  /\ Ends(m)
  /\ UNCHANGED <<relay, damaged, flight, content, faults>>

-----------------------------------------------------------------------------
(* Faults *)

\* The vault locks, the sync pauses, a relay call fails, or the program is
\* gone: what is only in the run is lost.
Stop(m) ==
  /\ ~At(m, "idle")
  /\ Fault
  /\ Ends(m)
  /\ UNCHANGED <<relay, damaged, flight, content, disk>>

\* The relay comes back from a backup, or an owner deletes the copy there.
RelayGoesBack ==
  /\ Fault
  /\ \E n \in 0..(Len(relay) - 1) : relay' = SubSeq(relay, 1, n)
  /\ UNCHANGED <<damaged, flight, content, disk, run>>

CopyIsDamaged ==
  /\ Fault
  /\ relay # NoHead /\ relay \notin damaged
  /\ damaged' = damaged \cup {relay}
  /\ UNCHANGED <<relay, flight, content, disk, run>>

-----------------------------------------------------------------------------

Step(m) ==
  \/ Sync(m)
  \/ LookAtHead(m) \/ LookRefused(m) \/ ReplaceHead(m)
  \/ Fetch(m) \/ FetchFails(m) \/ SaveMerge(m)
  \/ InSync(m) \/ WriteCopy(m)
  \/ Put(m) \/ PutRefused(m) \/ AskLanded(m) \/ AskUnknown(m) \/ SavePush(m)

Next ==
  \/ \E m \in Macs :
       \/ Step(m)
       \/ Edit(m) \/ UseRelayCopy(m) \/ ReplaceRelayCopy(m)
       \/ PutBroken(m) \/ Stop(m)
  \/ \E head \in flight : LateCommit(head)
  \/ RelayGoesBack
  \/ CopyIsDamaged

Spec == Init /\ [][Next]_vars

\* The worker of each Mac syncs again and again, and a run goes on.
Fairness == \A m \in Macs : WF_vars(Step(m))

LiveSpec == Spec /\ Fairness

-----------------------------------------------------------------------------
(* Properties *)

TypeOK ==
  /\ relay \in Seq(Entries)
  /\ damaged \subseteq Seq(Entries)
  /\ flight \subseteq Seq(Entries)
  /\ content \in [Macs -> SUBSET Changes]
  /\ disk \in [Macs -> States]
  /\ run \in [Macs -> Runs]
  /\ faults \in 0..MaxFaults

\* Each version after the first has what the one before it has, and more,
\* unless the owner put it over that one.
Grows(head) ==
  \A i \in 2..Len(head) :
    head[i].replaced \/ (/\ head[i - 1].content \subseteq head[i].content
                         /\ head[i - 1].content # head[i].content)

\* No push drops a change that the relay has, and no push that is sent again,
\* or comes late, makes a version with nothing new.
NoUpdateLost == Grows(relay)

\* The sync state never runs ahead of the vault: the Mac merged the copy of
\* its anchor, wherever a run stopped.
AnchorMerged ==
  \A m \in Macs :
    disk[m].anchor # NoHead => Top(disk[m].anchor).content \subseteq content[m]

\* What a Mac thinks the relay has is what the copy of its anchor has, so a
\* change that is not there is pushed.
StateTruthful ==
  \A m \in Macs :
    disk[m].anchor # NoHead => disk[m].told = Top(disk[m].anchor).content

\* A sync that the owner did not start to get around a refused copy leaves
\* the Mac at a head that links to the one it had: it never takes a rollback
\* or a fork of the relay.
AnchorDescends ==
  [][\A m \in Macs : run[m].kind = "sync"
       => LinksTo(disk'[m].anchor, disk[m].anchor)]_vars

\* A Mac refuses what the relay has, or cannot read it: the owner decides.
OwnerNeeded ==
  \/ relay \in damaged
  \/ \E m \in Macs : ~Accepts(disk[m].anchor, relay)

\* Every change arrives on every Mac, whatever stopped or was lost on the way,
\* once no copy waits for the owner.
ChangesArrive ==
  \A c \in Changes :
    (\E m \in Macs : c \in content[m])
      ~> (\A m \in Macs : c \in content[m]) \/ OwnerNeeded
=============================================================================
