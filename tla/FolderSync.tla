----------------------------- MODULE FolderSync -----------------------------
(***************************************************************************)
(* The Macs of a vault that sync through a folder of a sync service        *)
(* (src/sync/mod.rs).  Each Mac edits and deletes credentials, merges the  *)
(* file that its folder shows, and writes its vault over the file when it  *)
(* has something that the file does not have.                              *)
(*                                                                         *)
(* The sync service is outside of the code: the folder of a Mac can show,  *)
(* at each sync, any file that a Mac wrote, also an old one again, or none *)
(* (docs/operations/sync.md, sections 6 and 11).                           *)
(*                                                                         *)
(* A sync holds the vault from its start to its end, so it is one action,  *)
(* but the program can be gone after each of its steps: the merge is one   *)
(* transaction, the file is renamed, and the sync state is written last.   *)
(*                                                                         *)
(* Abstracted: the states of the folder in which a sync stops before it    *)
(* does anything, damaged files and changes of the passphrase.  The        *)
(* credentials of Items are on every Mac at the start.                     *)
(***************************************************************************)
EXTENDS VaultMerge, Sequences

CONSTANTS
  Items,           \* the UUIDs of the credentials
  Values,          \* what a credential can hold
  Variables,       \* the names of variables
  Asks,            \* how the owner sets "Always ask"
  Start,           \* the value that every credential has at the start
  MaxTime,         \* bound: the wall clock of a Mac
  MaxChanges,      \* bound: edits and deletes
  MaxFiles         \* bound: files written

ASSUME FolderAssumption ==
  /\ Start \in Values
  /\ NoVariable \notin Variables
  /\ FALSE \in Asks /\ Asks \subseteq BOOLEAN
  /\ IsFiniteSet(Items)
  /\ {MaxTime, MaxChanges, MaxFiles} \subseteq Nat

VARIABLES
  vault,           \* the vault of each Mac
  time,            \* the time of the last change on each Mac
  changes,         \* how many changes there were
  files,           \* the files that were written, in the order of the writes
  last,            \* the sync state of each Mac: the file of its last sync
  seen             \* history: the counted changes that each vault has merged,
                   \* and the files, and what is in files is with each file

vars == <<vault, time, changes, files, last, seen>>

-----------------------------------------------------------------------------
(* Changes that a clock counts *)

Creator == CHOOSE m \in Macs : TRUE

Fresh == [value |-> Start, ask |-> FALSE, variable |-> NoVariable,
          version |-> [at |-> 0, by |-> Creator],
          clock |-> CountOne([clock |-> ZeroClock], Creator).clock]

\* The change of u in the stamped vault v, as mac counts it.
Change(v, mac, u) ==
  LET gone == u \notin DOMAIN v.live
      r == IF gone THEN v.tombs[u] ELSE v.live[u]
  IN  [uuid |-> u, mac |-> mac, clock |-> r.clock, gone |-> gone,
       value |-> IF gone THEN Start ELSE r.value,
       ask |-> ~gone /\ r.ask]

\* The changes that a stamp of the vault v counts.
Counted(v, mac) == {Change(Stamp(v, mac), mac, u) : u \in Unstamped(v)}

\* The changes in the vault of m, with the ones that its next stamp counts.
Known(m) == seen[m].changes \cup Counted(vault[m], m)

Init ==
  /\ vault = [m \in Macs |-> [live |-> [u \in Items |-> Fresh],
                              tombs |-> <<>>,
                              stamps |-> [u \in Items |-> Fresh.version]]]
  /\ time = [m \in Macs |-> 0]
  /\ changes = 0
  /\ files = <<[live |-> vault[Creator].live, tombs |-> <<>>,
                seen |-> [changes |-> {Change(vault[Creator], Creator, u) :
                                         u \in Items},
                          files |-> {1}]]>>
  /\ last = [m \in Macs |-> 1]
  /\ seen = [m \in Macs |-> files[1].seen]

-----------------------------------------------------------------------------
(* The owner *)

\* The clocks of two Macs can differ by any time, but the clock of one Mac
\* does not go back.
ChangesAt(m, t) ==
  /\ changes < MaxChanges
  /\ t > time[m]
  /\ changes' = changes + 1
  /\ time' = [time EXCEPT ![m] = t]
  /\ UNCHANGED <<files, last, seen>>

\* The triggers write the version, and leave the clock to the next stamp.
\* The variable of another credential here is refused.
Edit(m, u, t, content) ==
  /\ ChangesAt(m, t)
  /\ u \in DOMAIN vault[m].live
  /\ content # Content(vault[m].live[u])
  /\ \/ content.variable = NoVariable
     \/ \A o \in DOMAIN vault[m].live \ {u} :
          vault[m].live[o].variable # content.variable
  /\ vault' = [vault EXCEPT ![m].live[u] =
       [version |-> [at |-> t, by |-> m], clock |-> @.clock,
        value |-> content.value, ask |-> content.ask,
        variable |-> content.variable]]

\* A delete leaves a tombstone with the clock of the credential.
Delete(m, u, t) ==
  /\ ChangesAt(m, t)
  /\ u \in DOMAIN vault[m].live
  /\ vault' = [vault EXCEPT
       ![m].live = Drop(@, {u}),
       ![m].tombs = Put(@, u, [version |-> [at |-> t, by |-> m],
                               clock |-> vault[m].live[u].clock])]

-----------------------------------------------------------------------------
(* A sync of the Mac m, while its folder shows the file i (0: no file) *)

MustMerge(m, i) == i # 0 /\ i # last[m]

\* The vault after the merge, and the changes that it knows then.
Merged(m, i) ==
  IF MustMerge(m, i) THEN Merge(vault[m], m, files[i]) ELSE vault[m]

SeenMerged(m, i) ==
  IF MustMerge(m, i)
    THEN [changes |-> Known(m) \cup files[i].seen.changes,
          files |-> seen[m].files \cup files[i].seen.files]
    ELSE seen[m]

\* The vault has content that the file does not have.
MustPush(m, i) ==
  IF i = 0 THEN TRUE ELSE Synced(Merged(m, i)) # Synced(files[i])

Keep(m, v, known) ==
  /\ vault' = [vault EXCEPT ![m] = v]
  /\ seen' = [seen EXCEPT ![m] = known]
  /\ UNCHANGED <<time, changes>>

\* Nothing to push.
SyncPulls(m, i) ==
  /\ MustMerge(m, i) /\ ~MustPush(m, i)
  /\ Keep(m, Merged(m, i), SeenMerged(m, i))
  /\ last' = [last EXCEPT ![m] = i]
  /\ UNCHANGED files

\* The program is gone after the merge, or the push fails.
SyncStops(m, i) ==
  /\ MustMerge(m, i)
  /\ Keep(m, Merged(m, i), SeenMerged(m, i))
  /\ UNCHANGED <<files, last>>

\* The vault v is written over the file.  The program may be gone before it
\* writes the sync state.
Push(m, v, known) ==
  LET copy == Stamp(v, m)
      counted == [changes |-> known.changes \cup Counted(v, m),
                  files |-> known.files \cup {Len(files) + 1}]
  IN  /\ Len(files) < MaxFiles
      /\ Keep(m, copy, counted)
      /\ files' = Append(files, [live |-> copy.live, tombs |-> copy.tombs,
                                 seen |-> counted])
      /\ last' \in {[last EXCEPT ![m] = Len(files')], last}

SyncPushes(m, i) == MustPush(m, i) /\ Push(m, Merged(m, i), SeenMerged(m, i))

\* The last resort of the owner: the vault over the file, without a merge.
ReplaceSyncedFile(m) == Push(m, vault[m], seen[m])

-----------------------------------------------------------------------------

Contents ==
  [value : Values, ask : Asks, variable : Variables \cup {NoVariable}]

Next ==
  \/ \E m \in Macs :
       \/ ReplaceSyncedFile(m)
       \/ \E i \in 0..Len(files) :
            SyncPulls(m, i) \/ SyncStops(m, i) \/ SyncPushes(m, i)
       \/ \E t \in 1..MaxTime, u \in DOMAIN vault[m].live :
            \/ Delete(m, u, t)
            \/ \E content \in Contents : Edit(m, u, t, content)

Spec == Init /\ [][Next]_vars

-----------------------------------------------------------------------------
(* Properties *)

Clocks == [Macs -> Nat]
VersionsOf == [at : 0..MaxTime, by : Macs]
Records ==
  [value : Values, ask : BOOLEAN, variable : Variables \cup {NoVariable},
   version : VersionsOf, clock : Clocks]
Tombs == [version : VersionsOf, clock : Clocks]

CopyOK(v) ==
  /\ \A u \in DOMAIN v.live : v.live[u] \in Records
  /\ \A u \in DOMAIN v.tombs : v.tombs[u] \in Tombs
  /\ DOMAIN v.live \cap DOMAIN v.tombs = {}

TypeOK ==
  /\ \A m \in Macs : CopyOK(vault[m])
  /\ \A m \in Macs : \A u \in DOMAIN vault[m].stamps :
       vault[m].stamps[u] \in VersionsOf
  /\ \A i \in 1..Len(files) : CopyOK(files[i])
  /\ time \in [Macs -> 0..MaxTime]
  /\ changes \in 0..MaxChanges
  /\ last \in [Macs -> 1..Len(files)]

\* A count that a Mac gave to two changes of a credential.
CountsReused ==
  \E m, n \in Macs : \E e \in Known(m), f \in Known(n) :
    e # f /\ e.uuid = f.uuid /\ e.mac = f.mac /\ e.clock[e.mac] = f.clock[f.mac]

\* A delete and another change of a credential that did not see one another.
DeleteRaced ==
  \E m, n \in Macs : \E e \in Known(m), f \in Known(n) :
    e.gone /\ e.uuid = f.uuid /\ Concurrent(e.clock, f.clock)

Superseded(e, known) ==
  \E f \in known :
    f.uuid = e.uuid /\ f.clock # e.clock /\ Covers(f.clock, e.clock)

\* The owner changed a conflict copy of u on this Mac, or on one that it knows.
CopyTouched(m, u) ==
  \E c \in Unstamped(vault[m]) \cup {e.uuid : e \in seen[m].changes} :
    c \notin Items /\ c.from = u

Holds(m, u, value) ==
  \E c \in DOMAIN vault[m].live :
    /\ c = u \/ (c \notin Items /\ c.from = u)
    /\ vault[m].live[c].value = value

\* Claimed by docs/operations/sync.md:100 ("Nothing is lost").  A Mac that
\* merged an edit, and no later change of it, has its value, in the
\* credential or in a conflict copy.
EditsKept ==
  \A m \in Macs : \A e \in seen[m].changes :
    \/ e.gone \/ Superseded(e, seen[m].changes)
    \/ e.uuid \in Unstamped(vault[m]) \/ CopyTouched(m, e.uuid)
    \/ Holds(m, e.uuid, e.value)

NothingLost == CountsReused \/ EditsKept

\* "Always ask" goes off only by an edit that saw it on, whatever order the
\* Macs merge in.
AskKept ==
  CountsReused \/
  \A m \in Macs : \A e \in seen[m].changes :
    /\ e.ask /\ ~Superseded(e, seen[m].changes)
    /\ e.uuid \in DOMAIN vault[m].live \ Unstamped(vault[m])
    => vault[m].live[e.uuid].ask

\* A Mac that knows of a delete does not have a version that the delete saw,
\* whichever old files the folder shows it later.
DeletedStaysDeleted ==
  DeleteRaced \/
  \A m \in Macs : \A e \in seen[m].changes :
    e.gone /\ e.uuid \in DOMAIN vault[m].live \ Unstamped(vault[m])
    => ~Covers(e.clock, vault[m].live[e.uuid].clock)

\* The vault of m that merged the vault of n, and the vault of n that then
\* merged that one.
Pulled(m, n) == Merge(vault[m], m, Synced(Stamp(vault[n], n)))
PulledBack(m, n) == Merge(vault[n], n, Synced(Pulled(m, n)))

\* Claimed by merge.rs:2161-2162 ("Both Macs get the same result").
Converges ==
  CountsReused \/ \A m, n \in Macs : Synced(PulledBack(m, n)) = Synced(Pulled(m, n))

\* What two copies have in common whatever happens to the settings.
ValuesOf(v) ==
  [live |-> [u \in DOMAIN v.live |-> [value |-> v.live[u].value,
                                     version |-> v.live[u].version,
                                     clock |-> v.live[u].clock]],
   tombs |-> v.tombs]

\* Two Macs that merge one another's vault, in either way, have the same
\* credentials, with the same values, versions, clocks and tombstones
\* (merge_attached): only the flags of Converges can differ.
ValuesConverge ==
  CountsReused \/ \A m, n \in Macs : ValuesOf(PulledBack(m, n)) = ValuesOf(Pulled(m, n))

\* Claimed by docs/operations/sync.md:98.  A file with nothing new changes
\* nothing and makes no conflict copy.
OldFilesAreOld ==
  \A m \in Macs : \A i \in seen[m].files :
    Merge(vault[m], m, files[i]).live = Stamp(vault[m], m).live

OldFileInert == DeleteRaced \/ OldFilesAreOld
=============================================================================
