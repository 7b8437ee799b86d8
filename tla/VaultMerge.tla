----------------------------- MODULE VaultMerge -----------------------------
(***************************************************************************)
(* The merge of two copies of a vault (src/vault/merge.rs), as operators.  *)
(*                                                                         *)
(* A copy has the live credentials, the tombstones of the deleted ones,    *)
(* and the stamps: for each of them the version that its clock counts.     *)
(* A copy that a Mac publishes has no stamps.                              *)
(*                                                                         *)
(* Abstracted: the fields of a credential (its value, its "Always ask" and *)
(* its variable stay, for the merge treats each in its own way), the rows  *)
(* that the later one wins (folders, shared vaults, trusted devices), the  *)
(* history, the source rows of short-lived keys, and copies of an earlier  *)
(* schema.                                                                 *)
(***************************************************************************)
EXTENDS Naturals, FiniteSetsExt, Functions

CONSTANTS
  Macs,            \* the device IDs, which also break a tie of two times
  NoVariable       \* the variable of a credential without one

ASSUME MergeAssumption == Macs \subseteq Nat /\ Macs # {}

-----------------------------------------------------------------------------
(* Clocks and versions *)

ZeroClock == [m \in Macs |-> 0]

\* Clock a has every change of clock b.
Covers(a, b) == \A m \in Macs : a[m] >= b[m]

Concurrent(a, b) == ~Covers(a, b) /\ ~Covers(b, a)

Joined(a, b) == [m \in Macs |-> IF a[m] >= b[m] THEN a[m] ELSE b[m]]

\* The order of versions: the time, then the device.
Later(a, b) == a.at > b.at \/ (a.at = b.at /\ a.by > b.by)

\* Mutant of LaterOf: a tombstone takes the version that came last.
LaterOfTakesTheirs(a, b) == b

LaterOf(a, b) == IF Later(a, b) THEN a ELSE b

Content(r) == [value |-> r.value, ask |-> r.ask, variable |-> r.variable]

-----------------------------------------------------------------------------
(* Copies: live and tombs are functions from UUIDs to records *)

Put(f, key, value) ==
  [k \in DOMAIN f \cup {key} |-> IF k = key THEN value ELSE f[k]]
Drop(f, keys) == Restrict(f, DOMAIN f \ keys)

\* The entries of f, and those of g for the other keys.
Over(f, g) ==
  [k \in DOMAIN f \cup DOMAIN g |-> IF k \in DOMAIN f THEN f[k] ELSE g[k]]

Uuids(v) == DOMAIN v.live \cup DOMAIN v.tombs

\* The version of a live credential or of a tombstone.
VersionIn(v, u) == IF u \in DOMAIN v.live THEN v.live[u].version
                                          ELSE v.tombs[u].version

Unstamped(v) ==
  {u \in Uuids(v) : u \notin DOMAIN v.stamps \/ v.stamps[u] # VersionIn(v, u)}

CountOne(r, mac) == [r EXCEPT !.clock[mac] = @ + 1]

\* Count each local change since the last stamp.
Stamp(v, mac) ==
  LET fresh == Unstamped(v)
      Counted(f) == [u \in DOMAIN f |-> IF u \in fresh THEN CountOne(f[u], mac)
                                                       ELSE f[u]]
  IN  [live |-> Counted(v.live),
       tombs |-> Counted(v.tombs),
       stamps |-> [u \in Uuids(v) |-> VersionIn(v, u)]]

\* What the digest of the synced content tells apart.
Synced(v) == [live |-> v.live, tombs |-> v.tombs]

\* A live credential, stamped as it is: it is not a change of this Mac.
PutLive(v, u, r) == [v EXCEPT !.live = Put(@, u, r),
                              !.stamps = Put(@, u, r.version)]

-----------------------------------------------------------------------------
(* The merge of one credential *)

\* A variable name that another credential has here is left out.
WithoutTaken(v, u, r) ==
  IF \E o \in DOMAIN v.live \ {u} : v.live[o].variable = r.variable
    THEN [r EXCEPT !.variable = NoVariable]
    ELSE r

TakeRecord(v, u, r) == PutLive(v, u, WithoutTaken(v, u, r))

\* The UUID of a conflict copy comes from the version that lost.
CopyOf(u, loser) ==
  [from |-> u, clock |-> loser.clock, version |-> loser.version]

\* Mutant of KeepConflictCopy: the version that lost is left out.
KeepNoConflictCopy(v, u, loser) == v

\* The version that lost stays as a credential of its own, without settings.
KeepConflictCopy(v, u, loser) ==
  IF CopyOf(u, loser) \in DOMAIN v.live
    THEN v
    ELSE PutLive(v, CopyOf(u, loser),
                 [loser EXCEPT !.ask = FALSE, !.variable = NoVariable])

\* Mutant of AskOnIfEither: the winner decides.
AskAsWinner(v, u, ours, theirs) == v

AskOnIfEither(v, u, ours, theirs) ==
  [v EXCEPT !.live[u].ask = @ \/ ours.ask \/ theirs.ask]

MergeConcurrent(v, u, ours, theirs) ==
  LET clock == Joined(ours.clock, theirs.clock)
      with(r) == [r EXCEPT !.clock = clock]
      settled ==
        IF Content(ours) = Content(theirs)
          THEN PutLive(v, u, [with(ours) EXCEPT
                 !.version = LaterOf(ours.version, theirs.version)])
          ELSE IF Later(theirs.version, ours.version)
            THEN TakeRecord(KeepConflictCopy(v, u, ours), u, with(theirs))
            ELSE LET kept == KeepConflictCopy(v, u, theirs)
                 IN  [kept EXCEPT !.live[u] = with(ours)]
  IN  AskOnIfEither(settled, u, ours, theirs)

\* Mutant of Deletes: a delete is forgotten.
DeletesNothing(copy, u, r) == FALSE

\* The copy has a delete of u that saw the version of the record r.
Deletes(copy, u, r) ==
  u \in DOMAIN copy.tombs /\ Covers(copy.tombs[u].clock, r.clock)

\* v is the vault in the middle of the merge, local the vault at its start.
MergeRecord(v, u, local, remote) ==
  LET ours == local.live[u]
      theirs == remote.live[u]
  IN  CASE u \notin DOMAIN local.live ->
             IF u \in DOMAIN v.live \/ Deletes(local, u, theirs)
               THEN v
               ELSE TakeRecord([v EXCEPT !.tombs = Drop(@, {u})], u, theirs)
        [] u \in DOMAIN local.live /\ u \notin DOMAIN remote.live ->
             IF Deletes(remote, u, ours)
               THEN [v EXCEPT !.live = Drop(@, {u})]
               ELSE v
        [] u \in DOMAIN local.live \cap DOMAIN remote.live ->
             IF Concurrent(ours.clock, theirs.clock)
               THEN MergeConcurrent(v, u, ours, theirs)
               ELSE IF Covers(ours.clock, theirs.clock)
                      THEN v
                      ELSE TakeRecord(v, u, theirs)

\* Tombstones join their clocks, and take the later of their versions.
JoinTombs(ours, theirs) ==
  [clock |-> Joined(ours.clock, theirs.clock),
   version |-> LaterOf(ours.version, theirs.version)]

\* Mutant of MergeTombs: the tombstone of a live credential stays.
MergeTombsOfLive(v, local, remote) ==
  [v EXCEPT !.tombs = Over(@, remote.tombs)]

\* Mutant of MergeTombs: the other copy's tombstones stay there.
MergeTombsOwn(v, local, remote) == [v EXCEPT !.tombs = Drop(@, DOMAIN v.live)]

MergeTombs(v, local, remote) ==
  LET taken == DOMAIN remote.tombs \ DOMAIN v.live
      tombs == [u \in taken |->
                  IF u \in DOMAIN local.tombs
                    THEN JoinTombs(local.tombs[u], remote.tombs[u])
                    ELSE remote.tombs[u]]
  IN  [v EXCEPT !.tombs = Drop(Over(tombs, @), DOMAIN v.live),
                !.stamps = Over([u \in taken |-> tombs[u].version], @)]

\* The merge of the copy remote into the vault of mac, in one transaction.
\* The code goes by UUID; here the order is some fixed one.
Merge(v, mac, remote) ==
  LET local == Stamp(v, mac)
      One(u, acc) == MergeRecord(acc, u, local, remote)
  IN  MergeTombs(FoldSet(One, local, DOMAIN local.live \cup DOMAIN remote.live),
                 local, remote)
=============================================================================
