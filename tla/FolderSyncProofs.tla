-------------------------- MODULE FolderSyncProofs --------------------------
(***************************************************************************)
(* Theorems about FolderSync: the types of the vaults and the files, and,  *)
(* unless a delete raced with another change, what a vault has of the      *)
(* changes that it knows: their clocks first, then their contents, and     *)
(* then, with two Macs, the version that won.                              *)
(*                                                                         *)
(* The merge is a fold over a set, so its effect is proved by induction    *)
(* over the subsets of the set (MergeUnfolds), once for the types, once    *)
(* for the clocks, once for the contents, and once for a file with nothing *)
(* new.                                                                    *)
(***************************************************************************)
EXTENDS FolderSync, FiniteSetTheorems, WellFoundedInduction, TLAPS

(***************************************************************************)
(* Functions that are put together.                                        *)
(***************************************************************************)

\* A vault has these three parts.
IsCopy(v) == v = [live |-> v.live, tombs |-> v.tombs, stamps |-> v.stamps]

\* A live credential, stamped as it is.
LEMMA PutLiveFacts ==
  ASSUME NEW v, IsCopy(v), NEW u, NEW r
  PROVE  /\ IsCopy(PutLive(v, u, r))
         /\ PutLive(v, u, r).live = Put(v.live, u, r)
         /\ PutLive(v, u, r).tombs = v.tombs
         /\ PutLive(v, u, r).stamps = Put(v.stamps, u, r.version)
<1> DEFINE live == Put(v.live, u, r)
           stamps == Put(v.stamps, u, r.version)
<1>1. PutLive(v, u, r) = [v EXCEPT !.live = live, !.stamps = stamps]
  BY DEF PutLive
<1> HIDE DEF live, stamps
<1>2. PutLive(v, u, r) = [live |-> live, tombs |-> v.tombs, stamps |-> stamps]
  BY <1>1 DEF IsCopy
<1> QED BY <1>2 DEF IsCopy, live, stamps

(***************************************************************************)
(* The merge goes through the credentials one by one.                      *)
(***************************************************************************)

\* The credential that the merge takes next, of those that are left.
NextOf(s) == CHOOSE u \in s : TRUE

\* f[s] is the vault after the merge of the credentials s.
MergesTo(f, S, local, remote) ==
  f = [s \in SUBSET S |->
         IF s = {} THEN local
         ELSE MergeRecord(f[s \ {NextOf(s)}], NextOf(s), local, remote)]

\* Of some subsets of a finite set, one has none of the others in it.
LEMMA LeastSubset ==
  ASSUME NEW S, IsFiniteSet(S), NEW T, T \subseteq SUBSET S, T # {}
  PROVE  \E s \in T : \A t \in T : t \subseteq s => t = s
<1>1. IsWellFoundedOn(StrictSubsetOrdering(S), SUBSET S)
  BY FS_StrictSubsetOrderingWellFounded, FS_FiniteSubsetsOfFinite
<1>2. \E s \in T : \A t \in T : ~ (<<t, s>> \in StrictSubsetOrdering(S))
  BY <1>1, WFMin
<1> QED BY <1>2 DEF StrictSubsetOrdering

\* What is true of no credential, and stays true with one more, is true of all:
\* bad are the subsets of which it is not true.
LEMMA SubsetInduction ==
  ASSUME NEW S, IsFiniteSet(S), NEW bad, bad \subseteq SUBSET S, {} \notin bad,
         \A s \in bad : s # {} => s \ {NextOf(s)} \in bad
  PROVE  bad = {}
<1> SUFFICES ASSUME bad # {} PROVE FALSE
  OBVIOUS
<1>1. PICK s \in bad : \A t \in bad : t \subseteq s => t = s
  BY LeastSubset
<1>2. s # {} /\ NextOf(s) \in s
  BY DEF NextOf
<1>3. s \ {NextOf(s)} \in bad
  BY <1>2
<1> QED BY <1>1, <1>2, <1>3

\* Two of these functions agree where both are defined.
LEMMA MergesAgree ==
  ASSUME NEW S, IsFiniteSet(S), NEW T \in SUBSET S, NEW local, NEW remote,
         NEW f, MergesTo(f, S, local, remote),
         NEW g, MergesTo(g, T, local, remote)
  PROVE  \A s \in SUBSET T : f[s] = g[s]
<1> DEFINE bad == {s \in SUBSET T : f[s] # g[s]}
<1>1. {} \notin bad
  BY DEF MergesTo
<1>2. ASSUME NEW s \in bad, s # {}, s \ {NextOf(s)} \notin bad
      PROVE  FALSE
  <2>1. s \ {NextOf(s)} \in SUBSET T /\ s \in SUBSET S /\ s \ {NextOf(s)} \in SUBSET S
    OBVIOUS
  <2>2. f[s \ {NextOf(s)}] = g[s \ {NextOf(s)}]
    BY <1>2, <2>1
  <2>3. /\ f[s] = MergeRecord(f[s \ {NextOf(s)}], NextOf(s), local, remote)
        /\ g[s] = MergeRecord(g[s \ {NextOf(s)}], NextOf(s), local, remote)
    BY <1>2, <2>1 DEF MergesTo
  <2> QED BY <1>2, <2>2, <2>3
<1>3. IsFiniteSet(T)
  BY FS_Subset
<1> HIDE DEF bad
<1>4. bad = {}
  BY <1>1, <1>2, <1>3, SubsetInduction DEF bad
<1> QED BY <1>4 DEF bad

\* The function exists on the subsets of every finite set.
LEMMA MergesExist ==
  ASSUME NEW S, IsFiniteSet(S), NEW local, NEW remote
  PROVE  \E f : MergesTo(f, S, local, remote)
<1> DEFINE bad == {s \in SUBSET S : ~\E f : MergesTo(f, s, local, remote)}
<1> SUFFICES ASSUME bad # {} PROVE FALSE
  OBVIOUS
<1>1. PICK s \in bad : \A t \in bad : t \subseteq s => t = s
  <2> HIDE DEF bad
  <2>1. bad \subseteq SUBSET S
    BY DEF bad
  <2> QED BY <2>1, LeastSubset
<1> DEFINE On(t) == CHOOSE f : MergesTo(f, t, local, remote)
           rest(t) == t \ {NextOf(t)}
<1>2. \A t \in SUBSET s : t # s => MergesTo(On(t), t, local, remote)
  BY <1>1
<1>3. \A t \in SUBSET s : IsFiniteSet(t)
  BY <1>1, FS_Subset
<1>4. \A t \in SUBSET s : t # {} => rest(t) \in SUBSET t /\ rest(t) # t
  BY DEF NextOf
<1> HIDE DEF bad, On
<1> DEFINE h == [t \in SUBSET s |->
                   IF t = s /\ s # {}
                     THEN MergeRecord(On(rest(s))[rest(s)], NextOf(s), local, remote)
                     ELSE IF t = {} THEN local ELSE On(t)[t]]
<1>5. h[{}] = local
  OBVIOUS
<1>6. ASSUME NEW t \in SUBSET s, t # {}, t # s
      PROVE  h[t] = MergeRecord(h[rest(t)], NextOf(t), local, remote)
  <2>1. /\ rest(t) \in SUBSET t /\ rest(t) # t /\ rest(t) \in SUBSET s
        /\ rest(t) # s /\ IsFiniteSet(t) /\ t \in SUBSET t
    BY <1>3, <1>4, <1>6
  <2>2. MergesTo(On(t), t, local, remote)
    BY <1>2, <1>6
  <2>3. On(t)[t] = MergeRecord(On(t)[rest(t)], NextOf(t), local, remote)
    BY <2>1, <2>2, <1>6 DEF MergesTo
  <2>4. h[rest(t)] = On(t)[rest(t)]
    <3>1. CASE rest(t) = {}
      <4>1. On(t)[{}] = local
        BY <2>2 DEF MergesTo
      <4> QED BY <1>5, <3>1, <4>1
    <3>2. CASE rest(t) # {}
      <4>1. MergesTo(On(rest(t)), rest(t), local, remote)
        BY <1>2, <2>1
      <4>2. On(t)[rest(t)] = On(rest(t))[rest(t)]
        BY <2>1, <2>2, <4>1, MergesAgree
      <4> QED BY <2>1, <3>2, <4>2
    <3> QED BY <3>1, <3>2
  <2>5. h[t] = On(t)[t]
    BY <1>6
  <2> QED BY <2>3, <2>4, <2>5
<1>7. ASSUME s # {}
      PROVE  h[s] = MergeRecord(h[rest(s)], NextOf(s), local, remote)
  <2>1. rest(s) \in SUBSET s /\ rest(s) # s
    BY <1>4, <1>7
  <2>2. h[rest(s)] = On(rest(s))[rest(s)]
    <3>1. CASE rest(s) = {}
      <4>1. MergesTo(On({}), {}, local, remote)
        BY <1>2, <1>7
      <4> QED BY <1>5, <3>1, <4>1 DEF MergesTo
    <3>2. CASE rest(s) # {}
      BY <2>1, <3>2
    <3> QED BY <3>1, <3>2
  <2> QED BY <1>7, <2>2
<1>8. MergesTo(h, s, local, remote)
  <2>1. \A t \in SUBSET s :
          h[t] = IF t = {} THEN local
                 ELSE MergeRecord(h[t \ {NextOf(t)}], NextOf(t), local, remote)
    BY <1>5, <1>6, <1>7
  <2>2. h = [t \in SUBSET s |-> h[t]]
    OBVIOUS
  <2> HIDE DEF h
  <2>3. h = [t \in SUBSET s |->
               IF t = {} THEN local
               ELSE MergeRecord(h[t \ {NextOf(t)}], NextOf(t), local, remote)]
    BY <2>1, <2>2, Zenon
  <2> QED BY <2>3 DEF MergesTo
<1> HIDE DEF h
<1>9. s \notin bad
  BY <1>8 DEF bad
<1> QED BY <1>1, <1>9

\* What the merge of a copy does: it stamps the local changes, merges the
\* credentials one by one, and then the tombstones.
LEMMA MergeUnfolds ==
  ASSUME NEW v, NEW mac, NEW remote, NEW local, local = Stamp(v, mac),
         NEW S, S = DOMAIN local.live \cup DOMAIN remote.live, IsFiniteSet(S)
  PROVE  \E f : /\ MergesTo(f, S, local, remote)
                /\ Merge(v, mac, remote) = MergeTombs(f[S], local, remote)
<1> DEFINE One(u, acc) == MergeRecord(acc, u, local, remote)
           f == CHOOSE f : MergesTo(f, S, local, remote)
<1>1. FoldSet(One, local, S) = f[S]
  BY DEF FoldSet, MapThenFoldSet, MergesTo, NextOf
<1>2. MergesTo(f, S, local, remote)
  BY MergesExist
<1>3. Merge(v, mac, remote) = MergeTombs(FoldSet(One, local, S), local, remote)
  BY DEF Merge
<1> QED BY <1>1, <1>2, <1>3

(***************************************************************************)
(* Types.  W is a set of versions.                                         *)
(***************************************************************************)

RecordsOf(W) ==
  [value : Values, ask : BOOLEAN, variable : Variables \cup {NoVariable},
   version : W, clock : Clocks]
TombsOf(W) == [version : W, clock : Clocks]

\* A copy with finitely many credentials and with versions of W.
Typed(X, W) ==
  /\ IsFiniteSet(DOMAIN X.live)
  /\ \A u \in DOMAIN X.live : X.live[u] \in RecordsOf(W)
  /\ \A u \in DOMAIN X.tombs : X.tombs[u] \in TombsOf(W)

VaultTyped(v, W) ==
  /\ IsCopy(v)
  /\ Typed(v, W)
  /\ \A u \in DOMAIN v.stamps : v.stamps[u] \in W

\* A credential is live or deleted, not both.
Apart(X) == DOMAIN X.live \cap DOMAIN X.tombs = {}

\* Each version is stamped.
Stamped(v) ==
  \A u \in Uuids(v) : u \in DOMAIN v.stamps /\ v.stamps[u] = VersionIn(v, u)

\* Clocks.
LEMMA JoinedFacts ==
  ASSUME NEW a \in Clocks, NEW b \in Clocks
  PROVE  /\ Joined(a, b) \in Clocks
         /\ Covers(Joined(a, b), a) /\ Covers(Joined(a, b), b)
         /\ \A c \in Clocks : Covers(c, a) /\ Covers(c, b) => Covers(c, Joined(a, b))
         /\ Covers(a, b) => Joined(a, b) = a
         /\ Covers(b, a) => Joined(a, b) = b
         /\ \A n \in Macs : Joined(a, b)[n] \in {a[n], b[n]}
BY DEF Joined, Covers, Clocks

\* The order of clocks.
LEMMA CoversFacts ==
  /\ \A a \in Clocks : Covers(a, a)
  /\ \A a, b, c \in Clocks : Covers(a, b) /\ Covers(b, c) => Covers(a, c)
BY DEF Covers, Clocks

(***************************************************************************)
(* What the merge of one credential does.                                  *)
(***************************************************************************)

\* x is v with the live and stamped record r of u.
Sets(v, x, u, r) ==
  /\ IsCopy(x)
  /\ DOMAIN x.live = DOMAIN v.live \cup {u} /\ x.live[u] = r
  /\ \A k \in DOMAIN v.live \ {u} : x.live[k] = v.live[k]
  /\ DOMAIN x.stamps = DOMAIN v.stamps \cup {u} /\ x.stamps[u] = r.version
  /\ \A k \in DOMAIN v.stamps \ {u} : x.stamps[k] = v.stamps[k]
  /\ DOMAIN x.tombs \subseteq DOMAIN v.tombs
  /\ DOMAIN v.tombs \ {u} \subseteq DOMAIN x.tombs
  /\ \A k \in DOMAIN x.tombs : x.tombs[k] = v.tombs[k]

\* A credential that comes in is set.
LEMMA PutLiveSets ==
  ASSUME NEW v, IsCopy(v), NEW u, NEW r
  PROVE  Sets(v, PutLive(v, u, r), u, r)
<1> DEFINE live == Put(v.live, u, r)
           stamps == Put(v.stamps, u, r.version)
<1>1. PICK x : x = PutLive(v, u, r)
  OBVIOUS
<1>2. IsCopy(x) /\ x.live = live /\ x.tombs = v.tombs /\ x.stamps = stamps
  BY <1>1, PutLiveFacts
<1>3. /\ DOMAIN live = DOMAIN v.live \cup {u} /\ live[u] = r
      /\ \A k \in DOMAIN v.live \ {u} : live[k] = v.live[k]
  BY DEF Put
<1>4. /\ DOMAIN stamps = DOMAIN v.stamps \cup {u} /\ stamps[u] = r.version
      /\ \A k \in DOMAIN v.stamps \ {u} : stamps[k] = v.stamps[k]
  BY DEF Put
<1> HIDE DEF live, stamps
<1> QED BY <1>1, <1>2, <1>3, <1>4 DEF Sets

\* So is one that is put in place of another, while its version stays.
LEMMA PutOverSets ==
  ASSUME NEW v, IsCopy(v), NEW u \in DOMAIN v.live, NEW r,
         u \in DOMAIN v.stamps, v.stamps[u] = r.version
  PROVE  Sets(v, [v EXCEPT !.live[u] = r], u, r)
<1> DEFINE live == [v.live EXCEPT ![u] = r]
<1>1. PICK x : x = [v EXCEPT !.live[u] = r]
  OBVIOUS
<1>2. x = [live |-> live, tombs |-> v.tombs, stamps |-> v.stamps]
  <2>1. x = [v EXCEPT !.live = live]
    BY <1>1
  <2> HIDE DEF live
  <2> QED BY <2>1 DEF IsCopy
<1>3. /\ DOMAIN live = DOMAIN v.live /\ live[u] = r
      /\ \A k \in DOMAIN v.live \ {u} : live[k] = v.live[k]
  OBVIOUS
<1> HIDE DEF live
<1>4. IsCopy(x) /\ x.live = live /\ x.tombs = v.tombs /\ x.stamps = v.stamps
  BY <1>2 DEF IsCopy
<1> QED BY <1>1, <1>3, <1>4 DEF Sets

\* "Always ask" goes on in the record that was set.
LEMMA AskSets ==
  ASSUME NEW W, NEW v, NEW x, NEW u, NEW r \in RecordsOf(W), Sets(v, x, u, r),
         NEW ours, NEW theirs, ours.ask \in BOOLEAN, theirs.ask \in BOOLEAN
  PROVE  Sets(v, AskOnIfEither(x, u, ours, theirs), u,
              [r EXCEPT !.ask = r.ask \/ ours.ask \/ theirs.ask])
<1> DEFINE q == [r EXCEPT !.ask = r.ask \/ ours.ask \/ theirs.ask]
           live == [x.live EXCEPT ![u] = q]
<1>1. PICK y : y = AskOnIfEither(x, u, ours, theirs)
  OBVIOUS
<1>2. y = [x EXCEPT !.live = live]
  <2>1. u \in DOMAIN x.live /\ x.live[u] = r
    BY DEF Sets
  <2> QED BY <1>1, <2>1 DEF AskOnIfEither
<1>3. q.version = r.version
  BY DEF RecordsOf
<1> HIDE DEF q
<1>4. /\ DOMAIN live = DOMAIN x.live /\ live[u] = q
      /\ \A k \in DOMAIN x.live \ {u} : live[k] = x.live[k]
  BY DEF Sets
<1> HIDE DEF live
<1>5. y = [live |-> live, tombs |-> x.tombs, stamps |-> x.stamps]
  BY <1>2 DEF Sets, IsCopy
<1>6. IsCopy(y) /\ y.live = live /\ y.tombs = x.tombs /\ y.stamps = x.stamps
  BY <1>5 DEF IsCopy
<1> QED BY <1>1, <1>3, <1>4, <1>6 DEF Sets, q

\* A record r that is set for the record q: its variable may be left out.
Alike(r, q) ==
  r.clock = q.clock /\ r.version = q.version /\ r.value = q.value /\ r.ask = q.ask

\* Two records that are alike have the same content, clock and version.
LEMMA AlikeFacts ==
  ASSUME NEW W, NEW r \in RecordsOf(W)
  PROVE  /\ \A v, u : /\ WithoutTaken(v, u, r) \in RecordsOf(W)
                      /\ Alike(WithoutTaken(v, u, r), r)
         /\ LET q == [r EXCEPT !.ask = FALSE, !.variable = NoVariable]
            IN  /\ q \in RecordsOf(W)
                /\ q.clock = r.clock /\ q.version = r.version /\ q.value = r.value
<1>1. [r EXCEPT !.variable = NoVariable] \in RecordsOf(W)
      /\ Alike([r EXCEPT !.variable = NoVariable], r)
  BY DEF RecordsOf, Alike
<1>2. \A v, u : /\ WithoutTaken(v, u, r) \in RecordsOf(W)
                /\ Alike(WithoutTaken(v, u, r), r)
  <2> TAKE v, u
  <2>1. CASE WithoutTaken(v, u, r) = r
    BY <2>1 DEF Alike
  <2>2. CASE WithoutTaken(v, u, r) = [r EXCEPT !.variable = NoVariable]
    BY <1>1, <2>2
  <2> QED BY <2>1, <2>2 DEF WithoutTaken
<1> QED BY <1>2 DEF RecordsOf

\* The record of the other copy is taken.
LEMMA TakeRecordSets ==
  ASSUME NEW W, NEW v, IsCopy(v), NEW u, NEW q \in RecordsOf(W)
  PROVE  \E r \in RecordsOf(W) : Alike(r, q) /\ Sets(v, TakeRecord(v, u, q), u, r)
<1> DEFINE r == WithoutTaken(v, u, q)
<1>1. r \in RecordsOf(W) /\ Alike(r, q)
  BY AlikeFacts
<1>2. Sets(v, TakeRecord(v, u, q), u, r)
  BY PutLiveSets DEF TakeRecord
<1> QED BY <1>1, <1>2

\* A record with the content that lost.
AsLost(r, loser) ==
  r.clock = loser.clock /\ r.version = loser.version /\ r.value = loser.value

\* y is v with the version that lost, if it was not there.
KeptCopy(W, v, y, u, loser) ==
  \/ CopyOf(u, loser) \in DOMAIN v.live /\ y = v
  \/ /\ CopyOf(u, loser) \notin DOMAIN v.live
     /\ \E r \in RecordsOf(W) :
          /\ AsLost(r, loser)
          /\ Sets(v, y, CopyOf(u, loser), r)

\* What comes of the version that loses.
LEMMA KeepConflictCopyKeeps ==
  ASSUME NEW W, NEW v, IsCopy(v), NEW u, NEW loser \in RecordsOf(W)
  PROVE  KeptCopy(W, v, KeepConflictCopy(v, u, loser), u, loser)
<1> DEFINE r == [loser EXCEPT !.ask = FALSE, !.variable = NoVariable]
<1>1. r \in RecordsOf(W) /\ AsLost(r, loser)
  BY AlikeFacts DEF AsLost
<1>2. CASE CopyOf(u, loser) \in DOMAIN v.live
  BY <1>2 DEF KeptCopy, KeepConflictCopy
<1>3. CASE CopyOf(u, loser) \notin DOMAIN v.live
  <2>1. Sets(v, KeepConflictCopy(v, u, loser), CopyOf(u, loser), r)
    BY <1>3, PutLiveSets DEF KeepConflictCopy
  <2> QED BY <1>1, <1>3, <2>1 DEF KeptCopy
<1> QED BY <1>2, <1>3

\* The same edit wrote the values of r and q.
Twins(r, q) == r.version = q.version /\ r.value = q.value

\* Of two versions that did not see one another the later one wins.
Wins(w, a, b) ==
  \/ w = a /\ (Later(a, b) \/ ~Later(b, a))
  \/ w = b /\ (Later(b, a) \/ ~Later(a, b))

\* x is v after the merge of two versions that did not see one another.
Settles(W, v, x, u, ours, theirs) ==
  \E r \in RecordsOf(W) :
    /\ r.clock = Joined(ours.clock, theirs.clock)
    /\ r.ask = (ours.ask \/ theirs.ask)
    /\ Wins(r.version, ours.version, theirs.version)
    /\ r.version \in {ours.version, theirs.version}
    /\ Twins(r, ours) \/ Twins(r, theirs)
    /\ \/ /\ ours.value = theirs.value /\ r.value = ours.value
          /\ Sets(v, x, u, r)
       \/ r.value = theirs.value /\ \E y : KeptCopy(W, v, y, u, ours) /\ Sets(y, x, u, r)
       \/ r.value = ours.value /\ \E y : KeptCopy(W, v, y, u, theirs) /\ Sets(y, x, u, r)

\* What stays of the vault in which the version that lost was kept.
LEMMA KeptCopyFacts ==
  ASSUME NEW W, NEW v, IsCopy(v), NEW u, NEW loser, NEW y, KeptCopy(W, v, y, u, loser)
  PROVE  /\ IsCopy(y)
         /\ \A k \in DOMAIN v.live : k \in DOMAIN y.live /\ y.live[k] = v.live[k]
         /\ \A k \in DOMAIN v.live \cap DOMAIN v.stamps :
              k \in DOMAIN y.stamps /\ y.stamps[k] = v.stamps[k]
<1>1. CASE CopyOf(u, loser) \in DOMAIN v.live /\ y = v
  BY <1>1
<1>2. ASSUME CopyOf(u, loser) \notin DOMAIN v.live,
             NEW r \in RecordsOf(W), Sets(v, y, CopyOf(u, loser), r)
      PROVE  /\ IsCopy(y)
             /\ \A k \in DOMAIN v.live : k \in DOMAIN y.live /\ y.live[k] = v.live[k]
             /\ \A k \in DOMAIN v.live \cap DOMAIN v.stamps :
                  k \in DOMAIN y.stamps /\ y.stamps[k] = v.stamps[k]
  <2> PICK c : c = CopyOf(u, loser)
    OBVIOUS
  <2>1. Sets(v, y, c, r) /\ c \notin DOMAIN v.live
    BY <1>2
  <2> QED BY <2>1 DEF Sets
<1> QED BY <1>1, <1>2 DEF KeptCopy

\* Two versions that did not see one another.
LEMMA MergeConcurrentSettles ==
  ASSUME NEW W, NEW v, IsCopy(v), NEW u \in DOMAIN v.live \cap DOMAIN v.stamps,
         NEW ours \in RecordsOf(W), NEW theirs \in RecordsOf(W),
         v.stamps[u] = ours.version
  PROVE  Settles(W, v, MergeConcurrent(v, u, ours, theirs), u, ours, theirs)
<1> DEFINE clock == Joined(ours.clock, theirs.clock)
           with(r) == [r EXCEPT !.clock = clock]
           either(r) == [r EXCEPT !.ask = r.ask \/ ours.ask \/ theirs.ask]
           x == MergeConcurrent(v, u, ours, theirs)
<1>1. /\ ours.clock \in Clocks /\ theirs.clock \in Clocks
      /\ ours.ask \in BOOLEAN /\ theirs.ask \in BOOLEAN
      /\ ours.version \in W /\ theirs.version \in W
  BY DEF RecordsOf
<1>2. clock \in Clocks
  BY <1>1, JoinedFacts
<1> HIDE DEF clock
<1>3. \A r \in {ours, theirs} :
        /\ with(r) \in RecordsOf(W) /\ with(r).clock = clock /\ with(r).ask = r.ask
        /\ with(r).version = r.version /\ with(r).value = r.value
  BY <1>2 DEF RecordsOf
<1>4. \A r \in RecordsOf(W) :
        /\ either(r) \in RecordsOf(W) /\ either(r).clock = r.clock
        /\ r.ask \in {ours.ask, theirs.ask} => either(r).ask = (ours.ask \/ theirs.ask)
        /\ either(r).version = r.version /\ either(r).value = r.value
  BY <1>1 DEF RecordsOf
<1> HIDE DEF with
<1>5. CASE Content(ours) = Content(theirs)
  <2> DEFINE q == [with(ours) EXCEPT !.version = LaterOf(ours.version, theirs.version)]
  <2>1. ours.value = theirs.value
    BY <1>5 DEF Content
  <2>2. /\ LaterOf(ours.version, theirs.version) \in {ours.version, theirs.version}
        /\ Wins(LaterOf(ours.version, theirs.version), ours.version, theirs.version)
    BY DEF LaterOf, Wins
  <2>3. /\ q \in RecordsOf(W) /\ q.clock = clock /\ q.ask = ours.ask
        /\ q.version \in {ours.version, theirs.version} /\ q.value = ours.value
        /\ Wins(q.version, ours.version, theirs.version)
    <3>1. PICK w \in W : w = LaterOf(ours.version, theirs.version)
      BY <1>1, <2>2
    <3>2. PICK p \in RecordsOf(W) : p = with(ours)
      BY <1>3
    <3>3. /\ [p EXCEPT !.version = w] \in RecordsOf(W)
          /\ [p EXCEPT !.version = w].clock = p.clock
          /\ [p EXCEPT !.version = w].ask = p.ask
          /\ [p EXCEPT !.version = w].version = w
          /\ [p EXCEPT !.version = w].value = p.value
      BY DEF RecordsOf
    <3> QED BY <1>3, <2>2, <3>1, <3>2, <3>3
  <2>4. x = AskOnIfEither(PutLive(v, u, q), u, ours, theirs)
    BY <1>5 DEF MergeConcurrent, clock, with
  <2>5. PICK s : s = q
    OBVIOUS
  <2>6. PICK y : y = PutLive(v, u, s)
    OBVIOUS
  <2>7. Sets(v, y, u, s)
    BY <2>6, PutLiveSets
  <2> HIDE DEF q, x
  <2>8. Sets(v, x, u, either(s))
    BY <1>1, <2>3, <2>4, <2>5, <2>6, <2>7, AskSets
  <2>9. /\ either(s) \in RecordsOf(W) /\ either(s).clock = clock
        /\ either(s).ask = (ours.ask \/ theirs.ask)
        /\ either(s).version \in {ours.version, theirs.version}
        /\ Wins(either(s).version, ours.version, theirs.version)
        /\ either(s).value = ours.value
    BY <1>4, <2>3, <2>5
  <2> HIDE DEF either
  <2> QED BY <2>1, <2>8, <2>9 DEF Settles, Twins, clock, x
<1>6. CASE Content(ours) # Content(theirs) /\ Later(theirs.version, ours.version)
  <2>1. PICK y : y = KeepConflictCopy(v, u, ours)
    OBVIOUS
  <2>2. KeptCopy(W, v, y, u, ours) /\ IsCopy(y)
    BY <2>1, KeepConflictCopyKeeps, KeptCopyFacts
  <2>3. PICK q : q = with(theirs)
    OBVIOUS
  <2>4. PICK r \in RecordsOf(W) : Alike(r, q) /\ Sets(y, TakeRecord(y, u, q), u, r)
    BY <1>3, <2>2, <2>3, TakeRecordSets
  <2>5. x = AskOnIfEither(TakeRecord(y, u, q), u, ours, theirs)
    BY <1>6, <2>1, <2>3 DEF MergeConcurrent, clock, with
  <2> HIDE DEF x
  <2>6. Sets(y, x, u, either(r))
    BY <1>1, <2>4, <2>5, AskSets
  <2>7. /\ either(r) \in RecordsOf(W) /\ either(r).clock = clock
        /\ either(r).ask = (ours.ask \/ theirs.ask)
        /\ either(r).version = theirs.version /\ either(r).value = theirs.value
    BY <1>3, <1>4, <2>3, <2>4 DEF Alike
  <2>8. Wins(theirs.version, ours.version, theirs.version)
    BY <1>6 DEF Wins
  <2> HIDE DEF either
  <2> QED BY <2>2, <2>6, <2>7, <2>8 DEF Settles, Twins, clock, x
<1>7. CASE Content(ours) # Content(theirs) /\ ~Later(theirs.version, ours.version)
  <2>1. PICK y : y = KeepConflictCopy(v, u, theirs)
    OBVIOUS
  <2>2. KeptCopy(W, v, y, u, theirs) /\ IsCopy(y)
    BY <2>1, KeepConflictCopyKeeps, KeptCopyFacts
  <2>3. u \in DOMAIN y.live /\ u \in DOMAIN y.stamps /\ y.stamps[u] = ours.version
    BY <2>2, KeptCopyFacts
  <2>4. PICK q : q = with(ours)
    OBVIOUS
  <2>5. Sets(y, [y EXCEPT !.live[u] = q], u, q)
    BY <1>3, <2>2, <2>3, <2>4, PutOverSets
  <2>6. x = AskOnIfEither([y EXCEPT !.live[u] = q], u, ours, theirs)
    BY <1>7, <2>1, <2>4 DEF MergeConcurrent, clock, with
  <2> HIDE DEF x
  <2>7. Sets(y, x, u, either(q))
    BY <1>1, <1>3, <2>4, <2>5, <2>6, AskSets
  <2>8. /\ either(q) \in RecordsOf(W) /\ either(q).clock = clock
        /\ either(q).ask = (ours.ask \/ theirs.ask)
        /\ either(q).version = ours.version /\ either(q).value = ours.value
    BY <1>3, <1>4, <2>4
  <2>9. Wins(ours.version, ours.version, theirs.version)
    BY <1>7 DEF Wins
  <2> HIDE DEF either
  <2> QED BY <2>2, <2>7, <2>8, <2>9 DEF Settles, Twins, clock, x
<1> QED BY <1>5, <1>6, <1>7

\* x is v without the live credential u.
Drops(v, x, u) ==
  /\ IsCopy(x)
  /\ DOMAIN x.live = DOMAIN v.live \ {u}
  /\ \A k \in DOMAIN x.live : x.live[k] = v.live[k]
  /\ x.tombs = v.tombs /\ x.stamps = v.stamps

\* x is v with the record q, which the other copy has.
Takes(W, v, x, u, q) == \E r \in RecordsOf(W) : Alike(r, q) /\ Sets(v, x, u, r)

\* x is v after the merge of u.
Does(W, v, x, u, local, remote) ==
  LET ours == local.live[u]
      theirs == remote.live[u]
  IN  /\ u \notin DOMAIN local.live =>
           IF u \in DOMAIN v.live \/ Deletes(local, u, theirs)
             THEN x = v ELSE Takes(W, v, x, u, theirs)
      /\ u \in DOMAIN local.live \ DOMAIN remote.live =>
           IF Deletes(remote, u, ours) THEN Drops(v, x, u) ELSE x = v
      /\ u \in DOMAIN local.live \cap DOMAIN remote.live =>
           IF Concurrent(ours.clock, theirs.clock)
             THEN Settles(W, v, x, u, ours, theirs)
             ELSE IF Covers(ours.clock, theirs.clock)
                    THEN x = v ELSE Takes(W, v, x, u, theirs)

\* Before its merge, a credential of this Mac is as it was at the start.
AsAtStart(v, u, local) ==
  /\ u \in DOMAIN v.live /\ v.live[u] = local.live[u]
  /\ u \in DOMAIN v.stamps /\ v.stamps[u] = local.live[u].version

\* The merge of one credential.
LEMMA MergeRecordDoes ==
  ASSUME NEW W, NEW v, IsCopy(v), NEW local, NEW remote,
         NEW u \in DOMAIN local.live \cup DOMAIN remote.live,
         u \in DOMAIN local.live => AsAtStart(v, u, local),
         u \in DOMAIN local.live => local.live[u] \in RecordsOf(W),
         u \in DOMAIN remote.live => remote.live[u] \in RecordsOf(W)
  PROVE  Does(W, v, MergeRecord(v, u, local, remote), u, local, remote)
<1> PICK x : x = MergeRecord(v, u, local, remote)
  OBVIOUS
<1> PICK ours : ours = local.live[u]
  OBVIOUS
<1> PICK theirs : theirs = remote.live[u]
  OBVIOUS
<1>1. CASE u \notin DOMAIN local.live
  <2>1. theirs \in RecordsOf(W)
    BY <1>1
  <2>2. CASE u \in DOMAIN v.live \/ Deletes(local, u, theirs)
    BY <1>1, <2>2 DEF Does, MergeRecord
  <2>3. CASE ~(u \in DOMAIN v.live \/ Deletes(local, u, theirs))
    <3>1. PICK tombs : tombs = Drop(v.tombs, {u})
      OBVIOUS
    <3>2. PICK y : y = [live |-> v.live, tombs |-> tombs, stamps |-> v.stamps]
      OBVIOUS
    <3>3. y = [v EXCEPT !.tombs = Drop(@, {u})]
      BY <3>1, <3>2 DEF IsCopy
    <3>4. x = TakeRecord(y, u, theirs)
      BY <1>1, <2>3, <3>3 DEF MergeRecord
    <3>5. IsCopy(y) /\ y.live = v.live /\ y.tombs = tombs /\ y.stamps = v.stamps
      BY <3>2 DEF IsCopy
    <3>6. PICK r \in RecordsOf(W) : Alike(r, theirs) /\ Sets(y, x, u, r)
      BY <2>1, <3>4, <3>5, TakeRecordSets
    <3>7. DOMAIN tombs = DOMAIN v.tombs \ {u} /\ \A k \in DOMAIN tombs : tombs[k] = v.tombs[k]
      BY <3>1 DEF Drop, Restrict
    <3>8. Sets(v, x, u, r)
      BY <3>5, <3>6, <3>7 DEF Sets
    <3> QED BY <1>1, <2>3, <3>6, <3>8 DEF Does, Takes
  <2> QED BY <2>2, <2>3
<1>2. CASE u \in DOMAIN local.live /\ u \notin DOMAIN remote.live
  <2>1. CASE ~Deletes(remote, u, ours)
    BY <1>2, <2>1 DEF Does, MergeRecord
  <2>2. CASE Deletes(remote, u, ours)
    <3>1. PICK live : live = Drop(v.live, {u})
      OBVIOUS
    <3>2. x = [live |-> live, tombs |-> v.tombs, stamps |-> v.stamps]
      BY <1>2, <2>2, <3>1 DEF MergeRecord, IsCopy
    <3>3. IsCopy(x) /\ x.live = live /\ x.tombs = v.tombs /\ x.stamps = v.stamps
      BY <3>2 DEF IsCopy
    <3>4. DOMAIN live = DOMAIN v.live \ {u} /\ \A k \in DOMAIN live : live[k] = v.live[k]
      BY <3>1 DEF Drop, Restrict
    <3>5. Drops(v, x, u)
      BY <3>3, <3>4 DEF Drops
    <3> QED BY <1>2, <2>2, <3>5 DEF Does
  <2> QED BY <2>1, <2>2
<1>3. CASE u \in DOMAIN local.live \cap DOMAIN remote.live
  <2>1. ours \in RecordsOf(W) /\ theirs \in RecordsOf(W)
    BY <1>3
  <2>2. CASE Concurrent(ours.clock, theirs.clock)
    <3>1. x = MergeConcurrent(v, u, ours, theirs)
      BY <1>3, <2>2 DEF MergeRecord
    <3>2. Settles(W, v, x, u, ours, theirs)
      BY <1>3, <2>1, <3>1, MergeConcurrentSettles DEF AsAtStart
    <3> QED BY <1>3, <2>2, <3>2 DEF Does
  <2>3. CASE ~Concurrent(ours.clock, theirs.clock) /\ Covers(ours.clock, theirs.clock)
    BY <1>3, <2>3 DEF Does, MergeRecord
  <2>4. CASE ~Concurrent(ours.clock, theirs.clock) /\ ~Covers(ours.clock, theirs.clock)
    <3>1. x = TakeRecord(v, u, theirs)
      BY <1>3, <2>4 DEF MergeRecord
    <3>2. Takes(W, v, x, u, theirs)
      BY <2>1, <3>1, TakeRecordSets DEF Takes
    <3> QED BY <1>3, <2>4, <3>2 DEF Does
  <2> QED BY <2>2, <2>3, <2>4
<1> QED BY <1>1, <1>2, <1>3

(***************************************************************************)
(* The vault in the middle of the merge, while the credentials todo are    *)
(* left.                                                                   *)
(***************************************************************************)

Halfway(W, v, todo, local) ==
  /\ VaultTyped(v, W)
  /\ Stamped(v)
  /\ \A u \in todo \cap DOMAIN local.live : AsAtStart(v, u, local)
  /\ DOMAIN v.tombs \subseteq DOMAIN local.tombs
  /\ DOMAIN local.tombs \subseteq Uuids(v)
  /\ \A u \in DOMAIN v.tombs : v.tombs[u] = local.tombs[u]

\* It stays so when a record is set that is not a credential of this Mac left.
LEMMA SetsHalfway ==
  ASSUME NEW W, NEW v, NEW todo, NEW local, Halfway(W, v, todo, local),
         NEW u, u \notin todo \cap DOMAIN local.live, NEW r \in RecordsOf(W),
         NEW x, Sets(v, x, u, r)
  PROVE  Halfway(W, x, todo, local)
<1>1. r.version \in W
  BY DEF RecordsOf
<1>2. IsFiniteSet(DOMAIN x.live)
  BY FS_AddElement DEF Sets, Halfway, VaultTyped, Typed
<1>3. VaultTyped(x, W)
  BY <1>1, <1>2 DEF Sets, Halfway, VaultTyped, Typed
<1>4. Stamped(x)
  BY DEF Sets, Halfway, Stamped, Uuids, VersionIn
<1>5. \A k \in todo \cap DOMAIN local.live : AsAtStart(x, k, local)
  BY DEF Sets, Halfway, AsAtStart
<1>6. DOMAIN local.tombs \subseteq Uuids(x)
  BY DEF Sets, Halfway, Uuids
<1> QED BY <1>3, <1>4, <1>5, <1>6 DEF Sets, Halfway

\* And when a live credential is dropped that is not one of those left.
LEMMA DropsHalfway ==
  ASSUME NEW W, NEW v, NEW todo, NEW local, Halfway(W, v, todo, local),
         Apart(local), NEW u \in DOMAIN local.live \ todo, NEW x, Drops(v, x, u)
  PROVE  Halfway(W, x, todo, local)
<1>1. IsFiniteSet(DOMAIN x.live)
  BY FS_Subset DEF Drops, Halfway, VaultTyped, Typed
<1>2. VaultTyped(x, W)
  BY <1>1 DEF Drops, Halfway, VaultTyped, Typed
<1>3. u \notin DOMAIN local.tombs
  BY DEF Apart
<1>4. Stamped(x)
  BY <1>3 DEF Drops, Halfway, Stamped, Uuids, VersionIn
<1>5. \A k \in todo \cap DOMAIN local.live : AsAtStart(x, k, local)
  BY DEF Drops, Halfway, AsAtStart
<1>6. DOMAIN local.tombs \subseteq Uuids(x)
  BY <1>3 DEF Drops, Halfway, Uuids
<1> QED BY <1>2, <1>4, <1>5, <1>6 DEF Drops, Halfway

\* And when the version that lost is kept.
LEMMA KeptCopyHalfway ==
  ASSUME NEW W, NEW v, NEW todo, NEW local, Halfway(W, v, todo, local),
         NEW u, NEW loser, NEW y, KeptCopy(W, v, y, u, loser)
  PROVE  Halfway(W, y, todo, local)
<1>1. ASSUME CopyOf(u, loser) \notin DOMAIN v.live,
             NEW r \in RecordsOf(W), Sets(v, y, CopyOf(u, loser), r)
      PROVE  Halfway(W, y, todo, local)
  <2>1. PICK c : c = CopyOf(u, loser)
    OBVIOUS
  <2>2. c \notin todo \cap DOMAIN local.live
    BY <1>1, <2>1 DEF Halfway, AsAtStart
  <2> QED BY <1>1, <2>1, <2>2, SetsHalfway
<1> QED BY <1>1 DEF KeptCopy

\* The merge of one credential.
LEMMA MergeRecordHalfway ==
  ASSUME NEW W, NEW v, NEW todo, NEW local, NEW remote, NEW u \in todo,
         Halfway(W, v, todo, local), Typed(local, W), Typed(remote, W),
         Apart(local), todo \subseteq DOMAIN local.live \cup DOMAIN remote.live
  PROVE  Halfway(W, MergeRecord(v, u, local, remote), todo \ {u}, local)
<1>1. PICK x : x = MergeRecord(v, u, local, remote)
  OBVIOUS
<1>2. PICK rest : rest = todo \ {u}
  OBVIOUS
<1>3. Halfway(W, v, rest, local) /\ u \notin rest
  BY <1>2 DEF Halfway
<1>4. Does(W, v, x, u, local, remote)
  BY <1>1, MergeRecordDoes DEF Halfway, VaultTyped, Typed
<1>5. \A q : Takes(W, v, x, u, q) => Halfway(W, x, rest, local)
  BY <1>3, SetsHalfway DEF Takes
<1>6. ASSUME NEW ours, NEW theirs, Settles(W, v, x, u, ours, theirs)
      PROVE  Halfway(W, x, rest, local)
  <2>1. PICK r \in RecordsOf(W) :
          \/ Sets(v, x, u, r)
          \/ \E y, loser : KeptCopy(W, v, y, u, loser) /\ Sets(y, x, u, r)
    BY <1>6 DEF Settles
  <2>2. CASE Sets(v, x, u, r)
    BY <1>3, <2>2, SetsHalfway
  <2>3. ASSUME NEW y, NEW loser, KeptCopy(W, v, y, u, loser), Sets(y, x, u, r)
        PROVE  Halfway(W, x, rest, local)
    <3>1. Halfway(W, y, rest, local)
      BY <1>3, <2>3, KeptCopyHalfway
    <3> QED BY <1>3, <2>3, <3>1, SetsHalfway
  <2> QED BY <2>1, <2>2, <2>3
<1>7. Drops(v, x, u) /\ u \in DOMAIN local.live => Halfway(W, x, rest, local)
  BY <1>3, DropsHalfway
<1>8. Halfway(W, x, rest, local)
  BY <1>3, <1>4, <1>5, <1>6, <1>7 DEF Does
<1> QED BY <1>1, <1>2, <1>8

\* The vault after the merge of all credentials.
LEMMA MergesHalfway ==
  ASSUME NEW W, NEW local, NEW remote, VaultTyped(local, W), Stamped(local),
         Apart(local), Typed(remote, W),
         NEW S, S = DOMAIN local.live \cup DOMAIN remote.live,
         NEW f, MergesTo(f, S, local, remote)
  PROVE  Halfway(W, f[S], {}, local)
<1> DEFINE bad == {s \in SUBSET S : ~Halfway(W, f[s], S \ s, local)}
<1>1. IsFiniteSet(S)
  BY FS_Union DEF VaultTyped, Typed
<1>2. {} \notin bad
  <2>1. f[{}] = local
    BY DEF MergesTo
  <2>2. Halfway(W, local, S, local)
    BY DEF Halfway, AsAtStart, Stamped, Uuids, VersionIn
  <2> QED BY <2>1, <2>2
<1>3. ASSUME NEW s \in SUBSET S, s # {},
             Halfway(W, f[s \ {NextOf(s)}], S \ (s \ {NextOf(s)}), local)
      PROVE  Halfway(W, f[s], S \ s, local)
  <2>1. PICK u \in s : u = NextOf(s)
    BY <1>3 DEF NextOf
  <2>2. PICK todo : todo = S \ (s \ {u})
    OBVIOUS
  <2>3. u \in todo /\ todo \ {u} = S \ s /\ todo \subseteq S
    BY <2>1, <2>2
  <2>4. f[s] = MergeRecord(f[s \ {u}], u, local, remote)
    BY <1>3, <2>1 DEF MergesTo
  <2>5. Halfway(W, f[s \ {u}], todo, local)
    BY <1>3, <2>1, <2>2
  <2> QED BY <2>3, <2>4, <2>5, MergeRecordHalfway DEF VaultTyped
<1>4. \A s \in bad : s # {} => s \ {NextOf(s)} \in bad
  BY <1>3
<1>5. bad \subseteq SUBSET S
  OBVIOUS
<1> HIDE DEF bad
<1>6. bad = {}
  BY <1>1, <1>2, <1>4, <1>5, SubsetInduction
<1>7. Halfway(W, f[S], S \ S, local)
  BY <1>6 DEF bad
<1> QED BY <1>7

\* The stamp counts the local changes.
LEMMA StampFacts ==
  ASSUME NEW W, NEW v, VaultTyped(v, W), NEW mac \in Macs, NEW s, s = Stamp(v, mac)
  PROVE  /\ VaultTyped(s, W) /\ Stamped(s)
         /\ DOMAIN s.live = DOMAIN v.live /\ DOMAIN s.tombs = DOMAIN v.tombs
         /\ \A u \in DOMAIN v.live :
              /\ s.live[u] = IF u \in Unstamped(v) THEN CountOne(v.live[u], mac)
                                                  ELSE v.live[u]
              /\ s.live[u].version = v.live[u].version
              /\ s.live[u].value = v.live[u].value
              /\ s.live[u].ask = v.live[u].ask
         /\ \A u \in DOMAIN v.tombs :
              /\ s.tombs[u] = IF u \in Unstamped(v) THEN CountOne(v.tombs[u], mac)
                                                    ELSE v.tombs[u]
              /\ s.tombs[u].version = v.tombs[u].version
<1> DEFINE fresh == Unstamped(v)
           live == [u \in DOMAIN v.live |-> IF u \in fresh THEN CountOne(v.live[u], mac)
                                                           ELSE v.live[u]]
           tombs == [u \in DOMAIN v.tombs |-> IF u \in fresh THEN CountOne(v.tombs[u], mac)
                                                             ELSE v.tombs[u]]
           stamps == [u \in Uuids(v) |-> VersionIn(v, u)]
<1>1. s = [live |-> live, tombs |-> tombs, stamps |-> stamps]
  BY DEF Stamp
<1>2. /\ DOMAIN live = DOMAIN v.live
      /\ \A u \in DOMAIN v.live :
           live[u] = IF u \in fresh THEN CountOne(v.live[u], mac) ELSE v.live[u]
  OBVIOUS
<1>3. /\ DOMAIN tombs = DOMAIN v.tombs
      /\ \A u \in DOMAIN v.tombs :
           tombs[u] = IF u \in fresh THEN CountOne(v.tombs[u], mac) ELSE v.tombs[u]
  OBVIOUS
<1>4. DOMAIN stamps = Uuids(v) /\ \A u \in Uuids(v) : stamps[u] = VersionIn(v, u)
  OBVIOUS
<1> HIDE DEF live, tombs, stamps, fresh
<1>5. IsCopy(s) /\ s.live = live /\ s.tombs = tombs /\ s.stamps = stamps
  BY <1>1 DEF IsCopy
<1>6. \A r \in RecordsOf(W) :
        /\ CountOne(r, mac) \in RecordsOf(W)
        /\ CountOne(r, mac).version = r.version
        /\ CountOne(r, mac).value = r.value
        /\ CountOne(r, mac).ask = r.ask
  BY DEF CountOne, RecordsOf, Clocks
<1>7. \A r \in TombsOf(W) :
        CountOne(r, mac) \in TombsOf(W) /\ CountOne(r, mac).version = r.version
  BY DEF CountOne, TombsOf, Clocks
<1>8. /\ \A u \in DOMAIN v.live : v.live[u] \in RecordsOf(W) /\ v.live[u].version \in W
      /\ \A u \in DOMAIN v.tombs : v.tombs[u] \in TombsOf(W) /\ v.tombs[u].version \in W
      /\ IsFiniteSet(DOMAIN v.live)
  BY DEF VaultTyped, Typed, RecordsOf, TombsOf
<1>9. \A u \in DOMAIN v.live :
        /\ live[u] \in RecordsOf(W) /\ live[u].version = v.live[u].version
        /\ live[u].value = v.live[u].value /\ live[u].ask = v.live[u].ask
  BY <1>2, <1>6, <1>8
<1>10. \A u \in DOMAIN v.tombs :
        tombs[u] \in TombsOf(W) /\ tombs[u].version = v.tombs[u].version
  BY <1>3, <1>7, <1>8
<1>11. \A u \in Uuids(v) : stamps[u] \in W /\ VersionIn(s, u) = stamps[u]
  BY <1>2, <1>3, <1>4, <1>5, <1>8, <1>9, <1>10 DEF Uuids, VersionIn
<1>12. VaultTyped(s, W)
  BY <1>2, <1>3, <1>4, <1>5, <1>8, <1>9, <1>10, <1>11 DEF VaultTyped, Typed
<1>13. Stamped(s)
  BY <1>2, <1>3, <1>4, <1>5, <1>11 DEF Stamped, Uuids
<1> QED BY <1>2, <1>3, <1>5, <1>9, <1>10, <1>12, <1>13 DEF fresh

\* The tombstones after the merge.
LEMMA MergeTombsFacts ==
  ASSUME NEW v, IsCopy(v), NEW local, NEW remote,
         NEW x, x = MergeTombs(v, local, remote)
  PROVE  /\ IsCopy(x) /\ x.live = v.live
         /\ DOMAIN x.tombs = (DOMAIN v.tombs \cup DOMAIN remote.tombs) \ DOMAIN v.live
         /\ \A u \in DOMAIN x.tombs :
              x.tombs[u] = IF u \in DOMAIN remote.tombs
                             THEN IF u \in DOMAIN local.tombs
                                    THEN JoinTombs(local.tombs[u], remote.tombs[u])
                                    ELSE remote.tombs[u]
                             ELSE v.tombs[u]
         /\ DOMAIN x.stamps =
              DOMAIN v.stamps \cup (DOMAIN remote.tombs \ DOMAIN v.live)
         /\ \A u \in DOMAIN x.stamps :
              x.stamps[u] = IF u \in DOMAIN remote.tombs \ DOMAIN v.live
                              THEN x.tombs[u].version ELSE v.stamps[u]
<1> DEFINE taken == DOMAIN remote.tombs \ DOMAIN v.live
           tombs == [u \in taken |->
                  IF u \in DOMAIN local.tombs
                    THEN JoinTombs(local.tombs[u], remote.tombs[u])
                    ELSE remote.tombs[u]]
           all == Drop(Over(tombs, v.tombs), DOMAIN v.live)
           versions == [u \in taken |-> tombs[u].version]
           stamps == Over(versions, v.stamps)
<1>1. x = [v EXCEPT !.tombs = all, !.stamps = stamps]
  BY DEF MergeTombs
<1>2. /\ DOMAIN tombs = taken
      /\ \A u \in taken : tombs[u] = IF u \in DOMAIN local.tombs
                    THEN JoinTombs(local.tombs[u], remote.tombs[u])
                    ELSE remote.tombs[u]
  OBVIOUS
<1> HIDE DEF tombs
<1>3. /\ DOMAIN all = (taken \cup DOMAIN v.tombs) \ DOMAIN v.live
      /\ \A u \in DOMAIN all : all[u] = IF u \in taken THEN tombs[u] ELSE v.tombs[u]
  BY <1>2 DEF Drop, Restrict, Over
<1>4. /\ DOMAIN stamps = taken \cup DOMAIN v.stamps
      /\ \A u \in DOMAIN stamps :
           stamps[u] = IF u \in taken THEN tombs[u].version ELSE v.stamps[u]
  BY DEF Over
<1> HIDE DEF all, stamps
<1>5. x = [live |-> v.live, tombs |-> all, stamps |-> stamps]
  BY <1>1 DEF IsCopy
<1>6. IsCopy(x) /\ x.live = v.live /\ x.tombs = all /\ x.stamps = stamps
  BY <1>5 DEF IsCopy
<1> QED BY <1>2, <1>3, <1>4, <1>6

\* The joined tombstone is well typed.
LEMMA JoinTombsTyped ==
  ASSUME NEW W, NEW a \in TombsOf(W), NEW b \in TombsOf(W)
  PROVE  /\ JoinTombs(a, b) \in TombsOf(W)
         /\ JoinTombs(a, b).clock = Joined(a.clock, b.clock)
<1>1. a.clock \in Clocks /\ b.clock \in Clocks /\ a.version \in W /\ b.version \in W
  BY DEF TombsOf
<1>2. Joined(a.clock, b.clock) \in Clocks
  BY <1>1, JoinedFacts
<1>3. LaterOf(a.version, b.version) \in W
  BY <1>1 DEF LaterOf
<1> QED BY <1>2, <1>3 DEF JoinTombs, TombsOf

\* A merge gives a vault of the same type, and stamps what it takes.
LEMMA MergeTyped ==
  ASSUME NEW W, NEW v, VaultTyped(v, W), Apart(v), NEW mac \in Macs,
         NEW remote, Typed(remote, W),
         NEW x, x = Merge(v, mac, remote)
  PROVE  VaultTyped(x, W) /\ Apart(x) /\ Stamped(x)
<1>1. PICK local : local = Stamp(v, mac)
  OBVIOUS
<1>2. VaultTyped(local, W) /\ Stamped(local) /\ Apart(local)
  BY <1>1, StampFacts DEF Apart
<1>3. PICK S : S = DOMAIN local.live \cup DOMAIN remote.live
  OBVIOUS
<1>4. IsFiniteSet(S)
  BY <1>2, <1>3, FS_Union DEF VaultTyped, Typed
<1>5. PICK f : MergesTo(f, S, local, remote) /\ x = MergeTombs(f[S], local, remote)
  BY <1>1, <1>3, <1>4, MergeUnfolds
<1>6. PICK y : y = f[S]
  OBVIOUS
<1>7. Halfway(W, y, {}, local)
  BY <1>2, <1>3, <1>5, <1>6, MergesHalfway
<1>8. IsCopy(y) /\ x = MergeTombs(y, local, remote)
  BY <1>5, <1>6, <1>7 DEF Halfway, VaultTyped
<1>9. /\ IsCopy(x) /\ x.live = y.live
      /\ DOMAIN x.tombs = (DOMAIN y.tombs \cup DOMAIN remote.tombs) \ DOMAIN y.live
      /\ \A u \in DOMAIN x.tombs :
           x.tombs[u] = IF u \in DOMAIN remote.tombs
                          THEN IF u \in DOMAIN local.tombs
                                 THEN JoinTombs(local.tombs[u], remote.tombs[u])
                                 ELSE remote.tombs[u]
                          ELSE y.tombs[u]
      /\ DOMAIN x.stamps = DOMAIN y.stamps \cup (DOMAIN remote.tombs \ DOMAIN y.live)
      /\ \A u \in DOMAIN x.stamps :
           x.stamps[u] = IF u \in DOMAIN remote.tombs \ DOMAIN y.live
                           THEN x.tombs[u].version ELSE y.stamps[u]
  BY <1>8, MergeTombsFacts
<1>10. \A u \in DOMAIN x.tombs : x.tombs[u] \in TombsOf(W) /\ x.tombs[u].version \in W
  <2>1. \A u \in DOMAIN x.tombs : x.tombs[u] \in TombsOf(W)
    BY <1>2, <1>7, <1>9, JoinTombsTyped DEF Halfway, VaultTyped, Typed
  <2> QED BY <2>1 DEF TombsOf
<1>11. \A u \in DOMAIN x.stamps : x.stamps[u] \in W
  BY <1>7, <1>9, <1>10 DEF Halfway, VaultTyped
<1>12. VaultTyped(x, W)
  BY <1>7, <1>9, <1>10, <1>11 DEF Halfway, VaultTyped, Typed
<1>13. Apart(x)
  BY <1>9 DEF Apart
<1>14. Stamped(x)
  BY <1>7, <1>9 DEF Halfway, Stamped, Uuids, VersionIn
<1> QED BY <1>12, <1>13, <1>14

(***************************************************************************)
(* The types of the vaults and the files.                                  *)
(***************************************************************************)

\* The versions that the Macs can have written up to the times T.
Timely(T) == {w \in VersionsOf : w.at <= T[w.by]}

ChangesTyped(K) ==
  \A e \in K : e.mac \in Macs /\ e.clock \in Clocks /\ e.gone \in BOOLEAN

VaultShape(v, T) == VaultTyped(v, Timely(T)) /\ Apart(v)

FileShape(f, T, n) ==
  /\ Typed(f, Timely(T)) /\ Apart(f)
  /\ ChangesTyped(f.seen.changes) /\ f.seen.files \subseteq 1..n

SeenShape(s, n) ==
  /\ s = [changes |-> s.changes, files |-> s.files]
  /\ ChangesTyped(s.changes) /\ s.files \subseteq 1..n

ShapeInv ==
  /\ DOMAIN vault = Macs /\ DOMAIN seen = Macs
  /\ \A m \in Macs : VaultShape(vault[m], time)
  /\ \A m \in Macs : SeenShape(seen[m], Len(files))
  /\ \E T : files \in Seq(T)
  /\ \A i \in 1..Len(files) : FileShape(files[i], time, Len(files))
  /\ time \in [Macs -> 0..MaxTime]
  /\ changes \in 0..MaxChanges
  /\ last \in [Macs -> 1..Len(files)]

\* A vault stays well typed when time goes on.
LEMMA TypedLater ==
  ASSUME NEW T, NEW U, Timely(T) \subseteq Timely(U)
  PROVE  /\ \A r \in RecordsOf(Timely(T)) : r \in RecordsOf(Timely(U))
         /\ \A r \in TombsOf(Timely(T)) : r \in TombsOf(Timely(U))
         /\ \A v : VaultShape(v, T) => VaultShape(v, U)
         /\ \A f, n : FileShape(f, T, n) => FileShape(f, U, n)
<1>1. PICK A : A = Timely(T)
  OBVIOUS
<1>2. PICK B : B = Timely(U)
  OBVIOUS
<1>3. A \subseteq B
  BY <1>1, <1>2
<1>4. RecordsOf(A) \subseteq RecordsOf(B) /\ TombsOf(A) \subseteq TombsOf(B)
  BY <1>3 DEF RecordsOf, TombsOf
<1>5. \A v : Typed(v, A) => Typed(v, B)
  BY <1>4 DEF Typed
<1>6. \A v : VaultTyped(v, A) => VaultTyped(v, B)
  BY <1>3, <1>5 DEF VaultTyped
<1> QED BY <1>1, <1>2, <1>4, <1>5, <1>6 DEF VaultShape, FileShape

\* The changes that a stamp counts.
LEMMA CountedTyped ==
  ASSUME NEW W, NEW v, VaultTyped(v, W), NEW mac \in Macs
  PROVE  /\ ChangesTyped(Counted(v, mac))
         /\ \A e \in Counted(v, mac) :
              /\ e.uuid \in Unstamped(v) /\ e.mac = mac
              /\ e.gone = (e.uuid \notin DOMAIN v.live)
              /\ e.clock = IF e.uuid \in DOMAIN v.live
                             THEN CountOne(v.live[e.uuid], mac).clock
                             ELSE CountOne(v.tombs[e.uuid], mac).clock
<1>1. PICK s : s = Stamp(v, mac)
  OBVIOUS
<1>2. /\ VaultTyped(s, W)
      /\ DOMAIN s.live = DOMAIN v.live /\ DOMAIN s.tombs = DOMAIN v.tombs
      /\ \A u \in DOMAIN v.live \cap Unstamped(v) : s.live[u] = CountOne(v.live[u], mac)
      /\ \A u \in DOMAIN v.tombs \cap Unstamped(v) : s.tombs[u] = CountOne(v.tombs[u], mac)
  BY <1>1, StampFacts
<1>3. ASSUME NEW u \in Unstamped(v), NEW e, e = Change(s, mac, u)
      PROVE  /\ e.mac = mac /\ e.clock \in Clocks /\ e.gone \in BOOLEAN
             /\ e.uuid = u /\ e.gone = (u \notin DOMAIN v.live)
             /\ e.clock = IF u \in DOMAIN v.live THEN CountOne(v.live[u], mac).clock
                                                 ELSE CountOne(v.tombs[u], mac).clock
  <2>1. u \in DOMAIN v.live \/ u \in DOMAIN v.tombs
    BY DEF Unstamped, Uuids
  <2>2. CASE u \in DOMAIN v.live
    <3>1. s.live[u].clock \in Clocks
      BY <1>2, <2>2 DEF VaultTyped, Typed, RecordsOf
    <3>2. e.clock = s.live[u].clock /\ e.mac = mac /\ e.uuid = u /\ e.gone = FALSE
      BY <1>2, <1>3, <2>2 DEF Change
    <3> QED BY <1>2, <2>2, <3>1, <3>2
  <2>3. CASE u \notin DOMAIN v.live
    <3>1. s.tombs[u].clock \in Clocks
      BY <1>2, <2>1, <2>3 DEF VaultTyped, Typed, TombsOf
    <3>2. e.clock = s.tombs[u].clock /\ e.mac = mac /\ e.uuid = u /\ e.gone = TRUE
      BY <1>2, <1>3, <2>3 DEF Change
    <3> QED BY <1>2, <2>1, <2>3, <3>1, <3>2
  <2> QED BY <2>2, <2>3
<1>4. \A e \in Counted(v, mac) : \E u \in Unstamped(v) : e = Change(s, mac, u)
  BY <1>1 DEF Counted
<1> QED BY <1>3, <1>4 DEF ChangesTyped

\* The record of every credential at the start is well typed.
LEMMA StartTyped ==
  /\ Creator \in Macs /\ ZeroClock \in Clocks
  /\ Fresh \in RecordsOf(Timely([m \in Macs |-> 0]))
  /\ Fresh.version = [at |-> 0, by |-> Creator] /\ Fresh.ask = FALSE
  /\ Fresh.clock = [ZeroClock EXCEPT ![Creator] = 1]
<1>1. Creator \in Macs
  BY MergeAssumption DEF Creator
<1>2. ZeroClock \in Clocks
  BY DEF ZeroClock, Clocks
<1>3. CountOne([clock |-> ZeroClock], Creator).clock = [ZeroClock EXCEPT ![Creator] = 1]
  BY <1>1 DEF CountOne, ZeroClock
<1>4. [ZeroClock EXCEPT ![Creator] = 1] \in Clocks
  BY <1>1, <1>2 DEF Clocks
<1>5. [at |-> 0, by |-> Creator] \in Timely([m \in Macs |-> 0])
  BY <1>1, FolderAssumption DEF Timely, VersionsOf
<1> QED BY <1>1, <1>2, <1>3, <1>4, <1>5, FolderAssumption DEF Fresh, RecordsOf

\* The vault that every Mac has at the start.
LEMMA StartVault ==
  ASSUME NEW v, v = [live |-> [u \in Items |-> Fresh], tombs |-> <<>>,
                     stamps |-> [u \in Items |-> Fresh.version]]
  PROVE  /\ VaultShape(v, [m \in Macs |-> 0]) /\ Unstamped(v) = {}
         /\ DOMAIN v.live = Items /\ DOMAIN v.tombs = {}
         /\ \A u \in Items : v.live[u] = Fresh
<1> PICK live : live = [u \in Items |-> Fresh]
  OBVIOUS
<1> PICK stamps : stamps = [u \in Items |-> Fresh.version]
  OBVIOUS
<1> PICK none : none = <<>> /\ DOMAIN none = {}
  OBVIOUS
<1> PICK W : W = Timely([m \in Macs |-> 0])
  OBVIOUS
<1>1. Fresh \in RecordsOf(W) /\ Fresh.version \in W
  BY StartTyped DEF RecordsOf
<1>2. v = [live |-> live, tombs |-> none, stamps |-> stamps]
  OBVIOUS
<1>3. IsCopy(v) /\ v.live = live /\ v.tombs = none /\ v.stamps = stamps
  BY <1>2 DEF IsCopy
<1>4. /\ DOMAIN live = Items /\ DOMAIN stamps = Items
      /\ \A u \in Items : live[u] = Fresh /\ stamps[u] = Fresh.version
  OBVIOUS
<1>5. VaultTyped(v, W) /\ Apart(v)
  BY <1>1, <1>3, <1>4, FolderAssumption DEF VaultTyped, Typed, Apart
<1>6. Unstamped(v) = {}
  BY <1>3, <1>4 DEF Unstamped, Uuids, VersionIn
<1> QED BY <1>3, <1>4, <1>5, <1>6 DEF VaultShape

\* The first file, of the vault of the creator.
LEMMA StartFile ==
  ASSUME Init
  PROVE  /\ files \in Seq({files[1]}) /\ Len(files) = 1
         /\ files[1].live = vault[Creator].live /\ files[1].tombs = <<>>
         /\ files[1].seen.files = {1}
         /\ files[1].seen.changes = {Change(vault[Creator], Creator, u) : u \in Items}
<1>1. PICK K : K = {Change(vault[Creator], Creator, u) : u \in Items}
  OBVIOUS
<1>2. PICK known : known = [changes |-> K, files |-> {1}]
  OBVIOUS
<1>3. PICK r : r = [live |-> vault[Creator].live, tombs |-> <<>>, seen |-> known]
  OBVIOUS
<1>4. files = <<r>>
  BY <1>1, <1>2, <1>3 DEF Init
<1>5. files \in Seq({files[1]}) /\ Len(files) = 1 /\ files[1] = r
  BY <1>4
<1> QED BY <1>1, <1>2, <1>3, <1>5

\* The vaults and the first file are well typed at the start.
LEMMA ShapeInit == Init => ShapeInv
<1> SUFFICES ASSUME Init PROVE ShapeInv
  OBVIOUS
<1>1. PICK v : v = vault[Creator]
  OBVIOUS
<1>2. /\ DOMAIN vault = Macs /\ \A m \in Macs : vault[m] = v
      /\ VaultShape(v, time) /\ DOMAIN v.live = Items
      /\ \A u \in Items : v.live[u] = Fresh
  <2>1. Creator \in Macs
    BY StartTyped
  <2>2. v = [live |-> [u \in Items |-> Fresh], tombs |-> <<>>,
             stamps |-> [u \in Items |-> Fresh.version]]
        /\ DOMAIN vault = Macs /\ \A m \in Macs : vault[m] = v
    BY <1>1, <2>1 DEF Init
  <2>3. time = [m \in Macs |-> 0]
    BY DEF Init
  <2> QED BY <2>2, <2>3, StartVault
<1>3. PICK f : f = files[1]
  OBVIOUS
<1>4. /\ files \in Seq({f}) /\ Len(files) = 1 /\ f.live = v.live /\ DOMAIN f.tombs = {}
      /\ f.seen.files = {1}
      /\ f.seen.changes = {Change(v, Creator, u) : u \in Items}
  <2>1. DOMAIN <<>> = {}
    OBVIOUS
  <2> QED BY <1>1, <1>3, <2>1, StartFile
<1>5. ChangesTyped(f.seen.changes)
  <2>1. Fresh.clock \in Clocks
    BY StartTyped DEF RecordsOf
  <2>2. \A u \in Items : /\ Change(v, Creator, u).mac = Creator
                         /\ Change(v, Creator, u).clock = Fresh.clock
                         /\ Change(v, Creator, u).gone = FALSE
    BY <1>2 DEF Change
  <2> QED BY <1>4, <2>1, <2>2, StartTyped DEF ChangesTyped
<1>6. FileShape(f, time, 1)
  <2>1. Typed(f, Timely(time)) /\ Apart(f)
    BY <1>2, <1>4 DEF VaultShape, VaultTyped, Typed, Apart
  <2> QED BY <1>4, <1>5, <2>1 DEF FileShape
<1>7. /\ DOMAIN seen = Macs
      /\ \A m \in Macs : seen[m] = [changes |-> f.seen.changes, files |-> f.seen.files]
  BY <1>3 DEF Init
<1>8. \A m \in Macs : SeenShape(seen[m], 1)
  <2>1. PICK K : K = f.seen.changes
    OBVIOUS
  <2>2. ASSUME NEW m \in Macs, NEW s, s = seen[m] PROVE SeenShape(s, 1)
    <3>1. s = [changes |-> K, files |-> {1}]
      BY <1>4, <1>7, <2>1, <2>2
    <3> QED BY <1>5, <2>1, <3>1 DEF SeenShape
  <2> QED BY <2>2
<1>9. /\ time \in [Macs -> 0..MaxTime] /\ changes \in 0..MaxChanges
      /\ last \in [Macs -> 1..1]
  BY FolderAssumption DEF Init
<1>10. \A m \in Macs : VaultShape(vault[m], time)
  BY <1>2
<1>11. /\ \A i \in 1..Len(files) : FileShape(files[i], time, Len(files))
       /\ \A m \in Macs : SeenShape(seen[m], Len(files))
       /\ last \in [Macs -> 1..Len(files)]
  <2>1. PICK n : n = Len(files)
    OBVIOUS
  <2>2. n = 1
    BY <1>4, <2>1
  <2> QED BY <1>3, <1>6, <1>8, <1>9, <2>1, <2>2
<1>12. \E T : files \in Seq(T)
  BY <1>4
<1> QED BY <1>2, <1>7, <1>9, <1>10, <1>11, <1>12 DEF ShapeInv

\* A change of the owner leaves the other vaults, and the time goes on.
LEMMA ChangeShape ==
  ASSUME ShapeInv, NEW m \in Macs, NEW t \in 1..MaxTime, ChangesAt(m, t),
         DOMAIN vault' = Macs, \A n \in Macs \ {m} : vault'[n] = vault[n],
         VaultShape(vault'[m], time')
  PROVE  ShapeInv'
<1>1. /\ time' = [time EXCEPT ![m] = t] /\ t > time[m]
      /\ changes' = changes + 1 /\ changes < MaxChanges
      /\ files' = files /\ last' = last /\ seen' = seen
      /\ time \in [Macs -> 0..MaxTime] /\ changes \in 0..MaxChanges
  BY DEF ChangesAt, ShapeInv
<1>2. Timely(time) \subseteq Timely(time')
  BY <1>1, MergeAssumption, FolderAssumption DEF Timely, VersionsOf
<1>3. /\ \A v : VaultShape(v, time) => VaultShape(v, time')
      /\ \A f, n : FileShape(f, time, n) => FileShape(f, time', n)
  BY <1>2, TypedLater
<1>4. \A n \in Macs : VaultShape(vault'[n], time')
  BY <1>3 DEF ShapeInv
<1>5. \A i \in 1..Len(files') : FileShape(files'[i], time', Len(files'))
  BY <1>1, <1>3 DEF ShapeInv
<1>6. time' \in [Macs -> 0..MaxTime] /\ changes' \in 0..MaxChanges
  BY <1>1, FolderAssumption
<1> QED BY <1>1, <1>4, <1>5, <1>6 DEF ShapeInv

\* A version of now.
LEMMA NowTimely ==
  ASSUME ShapeInv, NEW m \in Macs, NEW t \in 1..MaxTime, ChangesAt(m, t)
  PROVE  /\ [at |-> t, by |-> m] \in Timely(time')
         /\ [at |-> t, by |-> m] \notin Timely(time)
         /\ Timely(time) \subseteq Timely(time')
<1>1. time' = [time EXCEPT ![m] = t] /\ t > time[m] /\ time \in [Macs -> 0..MaxTime]
  BY DEF ChangesAt, ShapeInv
<1> QED BY <1>1, MergeAssumption, FolderAssumption DEF Timely, VersionsOf

\* x is v with another record of the live credential u, which keeps its clock.
Edited(v, x, u) ==
  /\ IsCopy(x) /\ x.tombs = v.tombs /\ x.stamps = v.stamps
  /\ DOMAIN x.live = DOMAIN v.live
  /\ \A k \in DOMAIN v.live \ {u} : x.live[k] = v.live[k]
  /\ x.live[u].clock = v.live[u].clock

\* x is v with a tombstone in place of the live credential u.
Deleted(v, x, u) ==
  /\ IsCopy(x) /\ x.stamps = v.stamps
  /\ DOMAIN x.live = DOMAIN v.live \ {u}
  /\ \A k \in DOMAIN v.live \ {u} : x.live[k] = v.live[k]
  /\ DOMAIN x.tombs = DOMAIN v.tombs \cup {u}
  /\ \A k \in DOMAIN v.tombs \ {u} : x.tombs[k] = v.tombs[k]
  /\ x.tombs[u].clock = v.live[u].clock

\* What an edit does to the vault.
LEMMA EditDoes ==
  ASSUME ShapeInv, NEW m \in Macs, NEW u \in DOMAIN vault[m].live,
         NEW t \in 1..MaxTime, NEW content \in Contents, Edit(m, u, t, content),
         NEW v, v = vault[m], NEW x, x = vault'[m]
  PROVE  /\ DOMAIN vault' = Macs /\ \A n \in Macs \ {m} : vault'[n] = vault[n]
         /\ Edited(v, x, u) /\ x.live[u] \in RecordsOf(Timely(time'))
         /\ x.live[u].version = [at |-> t, by |-> m]
<1>1. VaultTyped(v, Timely(time)) /\ u \in DOMAIN v.live /\ DOMAIN vault = Macs
  BY DEF ShapeInv, VaultShape
<1>2. PICK w : w = [at |-> t, by |-> m]
  OBVIOUS
<1>3. w \in Timely(time')
  BY <1>2, NowTimely DEF Edit
<1>4. v.live[u].clock \in Clocks
  BY <1>1 DEF VaultTyped, Typed, RecordsOf
<1>5. PICK r : r = [version |-> w, clock |-> v.live[u].clock, value |-> content.value,
                    ask |-> content.ask, variable |-> content.variable]
  OBVIOUS
<1>6. r \in RecordsOf(Timely(time')) /\ r.clock = v.live[u].clock /\ r.version = w
  BY <1>3, <1>4, <1>5, FolderAssumption DEF RecordsOf, Contents
<1>7. PICK live : live = [v.live EXCEPT ![u] = r]
  OBVIOUS
<1>8. PICK y : y = [v EXCEPT !.live = live]
  OBVIOUS
<1>9. vault' = [vault EXCEPT ![m] = y]
  BY <1>1, <1>2, <1>5, <1>7, <1>8 DEF Edit
<1>10. y = [live |-> live, tombs |-> v.tombs, stamps |-> v.stamps]
  BY <1>1, <1>8 DEF VaultTyped, IsCopy
<1>11. IsCopy(y) /\ y.live = live /\ y.tombs = v.tombs /\ y.stamps = v.stamps
  BY <1>10 DEF IsCopy
<1>12. /\ DOMAIN live = DOMAIN v.live /\ live[u] = r
       /\ \A k \in DOMAIN v.live \ {u} : live[k] = v.live[k]
  BY <1>1, <1>7
<1>13. x = y /\ DOMAIN vault' = Macs /\ \A n \in Macs \ {m} : vault'[n] = vault[n]
  BY <1>1, <1>9
<1> QED BY <1>2, <1>6, <1>11, <1>12, <1>13 DEF Edited

\* What a delete does to the vault.
LEMMA DeleteDoes ==
  ASSUME ShapeInv, NEW m \in Macs, NEW u \in DOMAIN vault[m].live,
         NEW t \in 1..MaxTime, Delete(m, u, t),
         NEW v, v = vault[m], NEW x, x = vault'[m]
  PROVE  /\ DOMAIN vault' = Macs /\ \A n \in Macs \ {m} : vault'[n] = vault[n]
         /\ Deleted(v, x, u) /\ x.tombs[u] \in TombsOf(Timely(time'))
         /\ x.tombs[u].version = [at |-> t, by |-> m]
<1>1. VaultTyped(v, Timely(time)) /\ u \in DOMAIN v.live /\ DOMAIN vault = Macs
  BY DEF ShapeInv, VaultShape
<1>2. PICK w : w = [at |-> t, by |-> m]
  OBVIOUS
<1>3. w \in Timely(time')
  BY <1>2, NowTimely DEF Delete
<1>4. v.live[u].clock \in Clocks
  BY <1>1 DEF VaultTyped, Typed, RecordsOf
<1>5. PICK r : r = [version |-> w, clock |-> v.live[u].clock]
  OBVIOUS
<1>6. r \in TombsOf(Timely(time')) /\ r.clock = v.live[u].clock /\ r.version = w
  BY <1>3, <1>4, <1>5 DEF TombsOf
<1>7. PICK live : live = Drop(v.live, {u})
  OBVIOUS
<1>8. PICK tombs : tombs = Put(v.tombs, u, r)
  OBVIOUS
<1>9. PICK y : y = [v EXCEPT !.live = live, !.tombs = tombs]
  OBVIOUS
<1>10. vault' = [vault EXCEPT ![m] = y]
  BY <1>1, <1>2, <1>5, <1>7, <1>8, <1>9 DEF Delete
<1>11. y = [live |-> live, tombs |-> tombs, stamps |-> v.stamps]
  BY <1>1, <1>9 DEF VaultTyped, IsCopy
<1>12. IsCopy(y) /\ y.live = live /\ y.tombs = tombs /\ y.stamps = v.stamps
  BY <1>11 DEF IsCopy
<1>13. /\ DOMAIN live = DOMAIN v.live \ {u}
       /\ \A k \in DOMAIN v.live \ {u} : live[k] = v.live[k]
  BY <1>7 DEF Drop, Restrict
<1>14. /\ DOMAIN tombs = DOMAIN v.tombs \cup {u} /\ tombs[u] = r
       /\ \A k \in DOMAIN v.tombs \ {u} : tombs[k] = v.tombs[k]
  BY <1>8 DEF Put
<1>15. x = y /\ DOMAIN vault' = Macs /\ \A n \in Macs \ {m} : vault'[n] = vault[n]
  BY <1>1, <1>10
<1> QED BY <1>2, <1>6, <1>12, <1>13, <1>14, <1>15 DEF Deleted

\* An edit leaves the vaults well typed.
LEMMA EditShape ==
  ASSUME ShapeInv, NEW m \in Macs, NEW u \in DOMAIN vault[m].live,
         NEW t \in 1..MaxTime, NEW content \in Contents, Edit(m, u, t, content)
  PROVE  ShapeInv'
<1>1. PICK v : v = vault[m]
  OBVIOUS
<1>2. PICK x : x = vault'[m]
  OBVIOUS
<1>3. PICK W : W = Timely(time')
  OBVIOUS
<1>4. /\ DOMAIN vault' = Macs /\ \A n \in Macs \ {m} : vault'[n] = vault[n]
      /\ Edited(v, x, u) /\ x.live[u] \in RecordsOf(Timely(time'))
  BY <1>1, <1>2, EditDoes
<1>5. VaultTyped(v, W) /\ Apart(v)
  BY <1>1, <1>3, NowTimely, TypedLater DEF ShapeInv, VaultShape, Edit
<1>6. VaultTyped(x, W) /\ Apart(x)
  BY <1>3, <1>4, <1>5 DEF Edited, VaultTyped, Typed, Apart
<1>7. VaultShape(x, time')
  BY <1>3, <1>6 DEF VaultShape
<1> QED BY <1>2, <1>4, <1>7, ChangeShape DEF Edit

\* A delete leaves the vaults well typed.
LEMMA DeleteShape ==
  ASSUME ShapeInv, NEW m \in Macs, NEW u \in DOMAIN vault[m].live,
         NEW t \in 1..MaxTime, Delete(m, u, t)
  PROVE  ShapeInv'
<1>1. PICK v : v = vault[m]
  OBVIOUS
<1>2. PICK x : x = vault'[m]
  OBVIOUS
<1>3. PICK W : W = Timely(time')
  OBVIOUS
<1>4. /\ DOMAIN vault' = Macs /\ \A n \in Macs \ {m} : vault'[n] = vault[n]
      /\ Deleted(v, x, u) /\ x.tombs[u] \in TombsOf(Timely(time'))
  BY <1>1, <1>2, DeleteDoes
<1>5. VaultTyped(v, W) /\ Apart(v)
  BY <1>1, <1>3, NowTimely, TypedLater DEF ShapeInv, VaultShape, Delete
<1>6. IsFiniteSet(DOMAIN x.live)
  BY <1>4, <1>5, FS_Subset DEF Deleted, VaultTyped, Typed
<1>7. VaultTyped(x, W) /\ Apart(x)
  BY <1>3, <1>4, <1>5, <1>6 DEF Deleted, VaultTyped, Typed, Apart
<1>8. VaultShape(x, time')
  BY <1>3, <1>7 DEF VaultShape
<1> QED BY <1>2, <1>4, <1>8, ChangeShape DEF Delete

\* The vault after the merge of a sync, and what it knows then.
LEMMA MergedShape ==
  ASSUME ShapeInv, NEW m \in Macs, NEW i \in 0..Len(files)
  PROVE  /\ VaultShape(Merged(m, i), time)
         /\ SeenShape(SeenMerged(m, i), Len(files))
<1>1. CASE ~MustMerge(m, i)
  BY <1>1 DEF ShapeInv, Merged, SeenMerged
<1>2. CASE MustMerge(m, i)
  <2>1. i \in 1..Len(files)
    <3>1. Len(files) \in Nat
      BY DEF ShapeInv
    <3> QED BY <1>2, <3>1 DEF MustMerge
  <2>2. PICK W : W = Timely(time)
    OBVIOUS
  <2>3. PICK f : f = files[i]
    OBVIOUS
  <2>4. PICK v : v = vault[m]
    OBVIOUS
  <2>5. /\ VaultTyped(v, W) /\ Apart(v) /\ Typed(f, W)
        /\ ChangesTyped(f.seen.changes) /\ f.seen.files \subseteq 1..Len(files)
        /\ ChangesTyped(seen[m].changes) /\ seen[m].files \subseteq 1..Len(files)
    BY <2>1, <2>2, <2>3, <2>4 DEF ShapeInv, VaultShape, FileShape, SeenShape
  <2>6. VaultTyped(Merge(v, m, f), W) /\ Apart(Merge(v, m, f))
    BY <2>5, MergeTyped
  <2>7. ChangesTyped(Counted(v, m))
    BY <2>5, CountedTyped
  <2>8. PICK A : A = Known(m) \cup f.seen.changes
    OBVIOUS
  <2>9. ChangesTyped(A)
    BY <2>4, <2>5, <2>7, <2>8 DEF Known, ChangesTyped
  <2>10. PICK B : B = seen[m].files \cup f.seen.files
    OBVIOUS
  <2>11. SeenMerged(m, i) = [changes |-> A, files |-> B]
    BY <1>2, <2>3, <2>8, <2>10 DEF SeenMerged
  <2>12. SeenShape(SeenMerged(m, i), Len(files))
    BY <2>5, <2>9, <2>10, <2>11 DEF SeenShape
  <2> QED BY <1>2, <2>2, <2>3, <2>4, <2>6, <2>12 DEF Merged, VaultShape
<1> QED BY <1>1, <1>2

\* The vault v is kept.
LEMMA KeepShape ==
  ASSUME ShapeInv, NEW m \in Macs, NEW v, VaultShape(v, time),
         NEW known, SeenShape(known, Len(files)),
         Keep(m, v, known), UNCHANGED files, last' \in [Macs -> 1..Len(files)]
  PROVE  ShapeInv'
<1>1. /\ vault' = [vault EXCEPT ![m] = v] /\ seen' = [seen EXCEPT ![m] = known]
      /\ time' = time /\ changes' = changes
  BY DEF Keep
<1>2. /\ DOMAIN vault' = Macs /\ DOMAIN seen' = Macs
      /\ \A n \in Macs : VaultShape(vault'[n], time)
      /\ \A n \in Macs : SeenShape(seen'[n], Len(files))
  BY <1>1 DEF ShapeInv
<1> QED BY <1>1, <1>2 DEF ShapeInv

\* The vault v is written over the file.
PushedFile(v, m, known, n) ==
  [live |-> Stamp(v, m).live, tombs |-> Stamp(v, m).tombs,
   seen |-> [changes |-> known.changes \cup Counted(v, m),
             files |-> known.files \cup {n}]]

\* What a push does.
LEMMA PushDoes ==
  ASSUME ShapeInv, NEW m \in Macs, NEW v, NEW known, Push(m, v, known)
  PROVE  /\ \E T : files' \in Seq(T)
         /\ Len(files) \in Nat /\ Len(files') = Len(files) + 1
         /\ \A i \in 1..Len(files) : files'[i] = files[i]
         /\ files'[Len(files')] = PushedFile(v, m, known, Len(files'))
         /\ vault' = [vault EXCEPT ![m] = Stamp(v, m)]
         /\ seen' = [seen EXCEPT ![m] = PushedFile(v, m, known, Len(files')).seen]
         /\ time' = time /\ changes' = changes
         /\ last' \in [Macs -> 1..Len(files')]
<1>1. PICK f : f = PushedFile(v, m, known, Len(files) + 1)
  OBVIOUS
<1>2. files' = Append(files, f)
  BY <1>1 DEF Push, PushedFile
<1>3. PICK T : files \in Seq(T)
  BY DEF ShapeInv
<1>4. /\ files' \in Seq(T \cup {f}) /\ Len(files) \in Nat
      /\ Len(files') = Len(files) + 1 /\ files'[Len(files')] = f
      /\ \A i \in 1..Len(files) : files'[i] = files[i]
  <2>1. files \in Seq(T \cup {f})
    BY <1>3
  <2> QED BY <1>2, <1>3, <2>1
<1>5. last' \in [Macs -> 1..Len(files')]
  <2>1. last \in [Macs -> 1..Len(files)]
    BY DEF ShapeInv
  <2>2. last' = [last EXCEPT ![m] = Len(files')] \/ last' = last
    BY DEF Push
  <2> QED BY <1>4, <2>1, <2>2
<1>6. f = PushedFile(v, m, known, Len(files'))
  BY <1>1, <1>4
<1>7. /\ vault' = [vault EXCEPT ![m] = Stamp(v, m)]
      /\ seen' = [seen EXCEPT ![m] = f.seen]
      /\ time' = time /\ changes' = changes
  BY <1>1 DEF Push, Keep, PushedFile
<1> QED BY <1>4, <1>5, <1>6, <1>7

\* A push leaves the vaults and the files well typed.
LEMMA PushShape ==
  ASSUME ShapeInv, NEW m \in Macs, NEW v, VaultShape(v, time),
         NEW known, SeenShape(known, Len(files)), Push(m, v, known)
  PROVE  ShapeInv'
<1>1. PICK k : k = Len(files)
  OBVIOUS
<1>2. PICK n : n = Len(files')
  OBVIOUS
<1>3. PICK f : f = PushedFile(v, m, known, n)
  OBVIOUS
<1>4. /\ \E T : files' \in Seq(T)
      /\ k \in Nat /\ n = k + 1
      /\ \A i \in 1..k : files'[i] = files[i]
      /\ files'[n] = f
      /\ vault' = [vault EXCEPT ![m] = Stamp(v, m)]
      /\ seen' = [seen EXCEPT ![m] = f.seen]
      /\ time' = time /\ changes' = changes
      /\ last' \in [Macs -> 1..n]
  BY <1>1, <1>2, <1>3, PushDoes
<1>5. PICK s : s = Stamp(v, m)
  OBVIOUS
<1>6. VaultTyped(s, Timely(time)) /\ Apart(s)
  BY <1>5, StampFacts DEF VaultShape, Apart
<1>7. ChangesTyped(known.changes) /\ known.files \subseteq 1..k
  BY <1>1 DEF SeenShape
<1>8. ChangesTyped(Counted(v, m))
  BY CountedTyped DEF VaultShape
<1>9. PICK K : K = known.changes \cup Counted(v, m)
  OBVIOUS
<1>10. PICK F : F = known.files \cup {n}
  OBVIOUS
<1>11. ChangesTyped(K) /\ F \subseteq 1..n
  BY <1>4, <1>7, <1>8, <1>9, <1>10 DEF ChangesTyped
<1>12. PICK q : q = [changes |-> K, files |-> F]
  OBVIOUS
<1>13. SeenShape(q, n)
  BY <1>11, <1>12 DEF SeenShape
<1>14. f = [live |-> s.live, tombs |-> s.tombs, seen |-> q]
  BY <1>3, <1>5, <1>9, <1>10, <1>12 DEF PushedFile
<1>15. f.seen = q /\ FileShape(f, time, n)
  BY <1>6, <1>11, <1>12, <1>14 DEF FileShape, VaultTyped, Typed, Apart
<1>16. \A a \in Macs : VaultShape(vault'[a], time')
  BY <1>4, <1>5, <1>6 DEF ShapeInv, VaultShape
<1>17. \A a \in Macs : SeenShape(seen'[a], n)
  <2>1. \A a \in Macs : SeenShape(seen[a], k) => SeenShape(seen[a], n)
    BY <1>4 DEF SeenShape
  <2> QED BY <1>1, <1>4, <1>13, <1>15, <2>1 DEF ShapeInv
<1>18. \A i \in 1..n : FileShape(files'[i], time', n)
  <2>1. \A i \in 1..k : FileShape(files[i], time, k) => FileShape(files[i], time, n)
    BY <1>4 DEF FileShape
  <2>2. \A i \in 1..k : FileShape(files'[i], time', n)
    BY <1>1, <1>4, <2>1 DEF ShapeInv
  <2>3. FileShape(files'[n], time', n)
    BY <1>4, <1>15
  <2>4. \A i \in 1..n : i \in 1..k \/ i = n
    BY <1>4
  <2> QED BY <2>2, <2>3, <2>4
<1>19. time' \in [Macs -> 0..MaxTime] /\ changes' \in 0..MaxChanges
       /\ DOMAIN vault' = Macs /\ DOMAIN seen' = Macs
  BY <1>4 DEF ShapeInv
<1> QED BY <1>2, <1>4, <1>16, <1>17, <1>18, <1>19 DEF ShapeInv

\* Every step leaves the vaults and the files well typed.
LEMMA ShapeNext == ShapeInv /\ [Next]_vars => ShapeInv'
<1> SUFFICES ASSUME ShapeInv, [Next]_vars PROVE ShapeInv'
  OBVIOUS
<1>1. ASSUME NEW m \in Macs, ReplaceSyncedFile(m) PROVE ShapeInv'
  <2>1. Push(m, vault[m], seen[m])
    BY <1>1 DEF ReplaceSyncedFile
  <2> QED BY <2>1, PushShape DEF ShapeInv
<1>2. ASSUME NEW m \in Macs, NEW i \in 0..Len(files),
             SyncPulls(m, i) \/ SyncStops(m, i) \/ SyncPushes(m, i)
      PROVE  ShapeInv'
  <2>1. PICK v : v = Merged(m, i)
    OBVIOUS
  <2>2. PICK known : known = SeenMerged(m, i)
    OBVIOUS
  <2>3. VaultShape(v, time) /\ SeenShape(known, Len(files))
    BY <2>1, <2>2, MergedShape
  <2>4. CASE SyncPulls(m, i)
    <3>1. Keep(m, v, known) /\ UNCHANGED files /\ last' = [last EXCEPT ![m] = i]
      BY <2>1, <2>2, <2>4 DEF SyncPulls
    <3>2. i \in 1..Len(files)
      <4>1. Len(files) \in Nat
        BY DEF ShapeInv
      <4> QED BY <2>4, <4>1 DEF SyncPulls, MustMerge
    <3>3. last' \in [Macs -> 1..Len(files)]
      BY <3>1, <3>2 DEF ShapeInv
    <3> QED BY <2>3, <3>1, <3>3, KeepShape
  <2>5. CASE SyncStops(m, i)
    <3>1. Keep(m, v, known) /\ UNCHANGED files /\ last' = last
      BY <2>1, <2>2, <2>5 DEF SyncStops
    <3>2. last' \in [Macs -> 1..Len(files)]
      BY <3>1 DEF ShapeInv
    <3> QED BY <2>3, <3>1, <3>2, KeepShape
  <2>6. CASE SyncPushes(m, i)
    <3>1. Push(m, v, known)
      BY <2>1, <2>2, <2>6 DEF SyncPushes
    <3> QED BY <2>3, <3>1, PushShape
  <2> QED BY <1>2, <2>4, <2>5, <2>6
<1>3. ASSUME NEW m \in Macs, NEW t \in 1..MaxTime, NEW u \in DOMAIN vault[m].live,
             \/ Delete(m, u, t)
             \/ \E content \in Contents : Edit(m, u, t, content)
      PROVE  ShapeInv'
  BY <1>3, DeleteShape, EditShape
<1>4. CASE UNCHANGED vars
  BY <1>4 DEF vars, ShapeInv
<1> QED BY <1>1, <1>2, <1>3, <1>4 DEF Next

\* The vaults and the files are well typed, whatever happens in the folder.
THEOREM ShapeHolds == Spec => []ShapeInv
BY ShapeInit, ShapeNext, PTL DEF Spec

\* A vault keeps well typed records, and no credential is both live and
\* deleted, in a vault or in a file, after every merge and every crash of a
\* sync (merge.rs, sync/mod.rs).
THEOREM VaultsTyped == Spec => []TypeOK
<1>1. ShapeInv => TypeOK
  <2> SUFFICES ASSUME ShapeInv PROVE TypeOK
    OBVIOUS
  <2>1. Timely(time) \subseteq VersionsOf
    BY DEF Timely
  <2>2. \A v : Typed(v, Timely(time)) /\ Apart(v) => CopyOK(v)
    BY <2>1 DEF Typed, Apart, CopyOK, RecordsOf, TombsOf, Records, Tombs
  <2> QED BY <2>1, <2>2 DEF ShapeInv, TypeOK, VaultShape, VaultTyped, FileShape
<1> QED BY <1>1, ShapeHolds, PTL

(***************************************************************************)
(* What a merge gives, as long as no conflict copy is there already.       *)
(***************************************************************************)

\* u is the conflict copy of a version that lost, or may lose, in this merge.
CopiedFrom(u, w, loser, local, remote) ==
  /\ w \in DOMAIN local.live \cap DOMAIN remote.live
  /\ Concurrent(local.live[w].clock, remote.live[w].clock)
  /\ loser \in {local.live[w], remote.live[w]}
  /\ u = CopyOf(w, loser)

\* None of the conflict copies is there.
CopiesNew(local, remote) ==
  \A u, w, loser :
    CopiedFrom(u, w, loser, local, remote) => u \notin Uuids(local) \cup Uuids(remote)

\* u is live with this clock.
LiveAt(v, u, clock) == u \in DOMAIN v.live /\ v.live[u].clock = clock

\* What the merge of u gives.
Gives(v, u, local, remote) ==
  LET ours == local.live[u]
      theirs == remote.live[u]
  IN  /\ u \in DOMAIN local.live \cap DOMAIN remote.live =>
           LiveAt(v, u, Joined(ours.clock, theirs.clock))
      /\ u \in DOMAIN local.live \ DOMAIN remote.live =>
           IF Deletes(remote, u, ours) THEN u \notin DOMAIN v.live
                                       ELSE LiveAt(v, u, ours.clock)
      /\ u \in DOMAIN remote.live \ DOMAIN local.live =>
           IF Deletes(local, u, theirs) THEN u \notin DOMAIN v.live
                                        ELSE LiveAt(v, u, theirs.clock)

\* A credential that comes from neither copy.
GivesCopy(v, u, local, remote) ==
  \E w, loser : CopiedFrom(u, w, loser, local, remote) /\ LiveAt(v, u, loser.clock)

\* The vault in the middle of the merge, after the credentials done.
Midway(v, done, local, remote) ==
  /\ \A u \in done : Gives(v, u, local, remote)
  /\ \A u \in DOMAIN v.live \ (DOMAIN local.live \cup DOMAIN remote.live) :
       GivesCopy(v, u, local, remote)
  /\ \A u \in DOMAIN remote.live \ DOMAIN local.live :
       u \in DOMAIN v.live => u \in done

\* A copy that is kept leaves the other credentials as they are.
LEMMA KeptCopyMidway ==
  ASSUME NEW W, NEW v, NEW done, NEW local, NEW remote, Midway(v, done, local, remote),
         CopiesNew(local, remote),
         done \subseteq DOMAIN local.live \cup DOMAIN remote.live,
         NEW w, NEW loser, CopiedFrom(CopyOf(w, loser), w, loser, local, remote),
         NEW y, KeptCopy(W, v, y, w, loser)
  PROVE  Midway(y, done, local, remote)
<1>1. PICK c : c = CopyOf(w, loser)
  OBVIOUS
<1>2. CASE y = v
  BY <1>2
<1>3. ASSUME NEW r, r.clock = loser.clock, Sets(v, y, c, r)
      PROVE  Midway(y, done, local, remote)
  <2>1. CopiedFrom(c, w, loser, local, remote) /\ c \notin Uuids(local) \cup Uuids(remote)
    BY <1>1 DEF CopiesNew
  <2>2. c \notin DOMAIN local.live \cup DOMAIN remote.live
    BY <2>1 DEF Uuids
  <2>3. /\ DOMAIN y.live = DOMAIN v.live \cup {c}
        /\ \A k \in DOMAIN v.live \ {c} : y.live[k] = v.live[k]
        /\ LiveAt(y, c, loser.clock)
    BY <1>3 DEF Sets, LiveAt
  <2>4. \A k, clock : k # c => (LiveAt(y, k, clock) <=> LiveAt(v, k, clock))
    BY <2>3 DEF LiveAt
  <2>5. \A u \in done : Gives(y, u, local, remote)
    BY <2>2, <2>3, <2>4 DEF Midway, Gives
  <2>6. \A u \in DOMAIN y.live \ (DOMAIN local.live \cup DOMAIN remote.live) :
          GivesCopy(y, u, local, remote)
    BY <2>1, <2>3, <2>4 DEF Midway, GivesCopy
  <2>7. \A u \in DOMAIN remote.live \ DOMAIN local.live : u \in DOMAIN y.live => u \in done
    BY <2>2, <2>3 DEF Midway
  <2> QED BY <2>5, <2>6, <2>7 DEF Midway
<1> QED BY <1>1, <1>2, <1>3 DEF KeptCopy, AsLost

\* So does a credential that is merged.
LEMMA SetsMidway ==
  ASSUME NEW v, NEW done, NEW local, NEW remote, Midway(v, done, local, remote),
         NEW u \in DOMAIN local.live \cup DOMAIN remote.live, u \notin done,
         NEW x, NEW r, Sets(v, x, u, r), Gives(x, u, local, remote)
  PROVE  Midway(x, done \cup {u}, local, remote)
<1>1. /\ DOMAIN x.live = DOMAIN v.live \cup {u}
      /\ \A k \in DOMAIN v.live \ {u} : x.live[k] = v.live[k]
  BY DEF Sets
<1>2. \A k, clock : k # u => (LiveAt(x, k, clock) <=> LiveAt(v, k, clock))
  BY <1>1 DEF LiveAt
<1>3. \A k \in done : Gives(x, k, local, remote)
  BY <1>1, <1>2 DEF Midway, Gives
<1>4. \A k \in DOMAIN x.live \ (DOMAIN local.live \cup DOMAIN remote.live) :
        GivesCopy(x, k, local, remote)
  BY <1>1, <1>2 DEF Midway, GivesCopy
<1> QED BY <1>1, <1>3, <1>4 DEF Midway

\* A credential that the other copy deleted.
LEMMA DropsMidway ==
  ASSUME NEW v, NEW done, NEW local, NEW remote, Midway(v, done, local, remote),
         NEW u \in DOMAIN local.live \cup DOMAIN remote.live, u \notin done,
         NEW x, Drops(v, x, u), Gives(x, u, local, remote)
  PROVE  Midway(x, done \cup {u}, local, remote)
<1>1. /\ DOMAIN x.live = DOMAIN v.live \ {u}
      /\ \A k \in DOMAIN v.live \ {u} : x.live[k] = v.live[k]
  BY DEF Drops
<1>2. \A k, clock : k # u => (LiveAt(x, k, clock) <=> LiveAt(v, k, clock))
  BY <1>1 DEF LiveAt
<1>3. \A k \in done : Gives(x, k, local, remote)
  BY <1>1, <1>2 DEF Midway, Gives
<1>4. \A k \in DOMAIN x.live \ (DOMAIN local.live \cup DOMAIN remote.live) :
        GivesCopy(x, k, local, remote)
  BY <1>1, <1>2 DEF Midway, GivesCopy
<1> QED BY <1>1, <1>3, <1>4 DEF Midway

\* A credential that the merge leaves.
LEMMA StaysMidway ==
  ASSUME NEW v, NEW done, NEW local, NEW remote, Midway(v, done, local, remote),
         NEW u, Gives(v, u, local, remote)
  PROVE  Midway(v, done \cup {u}, local, remote)
BY DEF Midway

\* The merge of one credential.
LEMMA MergeRecordMidway ==
  ASSUME NEW W, NEW local, NEW remote, Typed(local, W), Typed(remote, W),
         Apart(local), Apart(remote), CopiesNew(local, remote),
         NEW S, S = DOMAIN local.live \cup DOMAIN remote.live,
         NEW s \in SUBSET S, NEW u \in s,
         NEW v, Halfway(W, v, S \ (s \ {u}), local), Midway(v, s \ {u}, local, remote)
  PROVE  Midway(MergeRecord(v, u, local, remote), s, local, remote)
<1>1. PICK x : x = MergeRecord(v, u, local, remote)
  OBVIOUS
<1> SUFFICES Midway(x, s, local, remote)
  BY <1>1
<1>2. PICK done : done = s \ {u}
  OBVIOUS
<1>3. PICK ours : ours = local.live[u]
  OBVIOUS
<1>4. PICK theirs : theirs = remote.live[u]
  OBVIOUS
<1>5. /\ u \notin done /\ s = done \cup {u} /\ done \subseteq S /\ u \in S
      /\ Midway(v, done, local, remote) /\ IsCopy(v)
      /\ u \in DOMAIN local.live => AsAtStart(v, u, local)
  BY <1>2 DEF Halfway, VaultTyped
<1>6. Does(W, v, x, u, local, remote)
  BY <1>1, <1>5, MergeRecordDoes DEF Typed
<1>7. /\ u \in DOMAIN local.live => ours \in RecordsOf(W) /\ ours.clock \in Clocks
      /\ u \in DOMAIN remote.live => theirs \in RecordsOf(W) /\ theirs.clock \in Clocks
  BY <1>3, <1>4 DEF Typed, RecordsOf
<1>8. x = v /\ Gives(v, u, local, remote) => Midway(x, s, local, remote)
  BY <1>5, StaysMidway
<1>9. \A r : Sets(v, x, u, r) => LiveAt(x, u, r.clock)
  BY DEF Sets, LiveAt
<1>10. \A r : Sets(v, x, u, r) /\ Gives(x, u, local, remote) => Midway(x, s, local, remote)
  BY <1>5, SetsMidway
<1>11. CASE u \notin DOMAIN local.live
  <2>1. u \in DOMAIN remote.live
    BY <1>5, <1>11
  <2>2. CASE u \in DOMAIN v.live \/ Deletes(local, u, theirs)
    <3>1. x = v
      BY <1>4, <1>6, <1>11, <2>2 DEF Does
    <3>2. u \notin DOMAIN v.live
      BY <1>5, <1>11, <2>1 DEF Midway
    <3>3. Gives(v, u, local, remote)
      BY <1>4, <1>11, <2>2, <3>2 DEF Gives
    <3> QED BY <1>8, <3>1, <3>3
  <2>3. CASE ~(u \in DOMAIN v.live \/ Deletes(local, u, theirs))
    <3>1. PICK r \in RecordsOf(W) : Alike(r, theirs) /\ Sets(v, x, u, r)
      BY <1>4, <1>6, <1>11, <2>3 DEF Does, Takes
    <3>2. LiveAt(x, u, theirs.clock)
      BY <1>9, <3>1 DEF Alike
    <3>3. Gives(x, u, local, remote)
      BY <1>4, <1>11, <2>3, <3>2 DEF Gives
    <3> QED BY <1>10, <3>1, <3>3
  <2> QED BY <2>2, <2>3
<1>12. CASE u \in DOMAIN local.live /\ u \notin DOMAIN remote.live
  <2>1. LiveAt(v, u, ours.clock)
    BY <1>3, <1>5, <1>12 DEF AsAtStart, LiveAt
  <2>2. CASE Deletes(remote, u, ours)
    <3>1. Drops(v, x, u)
      BY <1>3, <1>6, <1>12, <2>2 DEF Does
    <3>2. Gives(x, u, local, remote)
      BY <1>3, <1>12, <2>2, <3>1 DEF Gives, Drops
    <3> QED BY <1>5, <3>1, <3>2, DropsMidway
  <2>3. CASE ~Deletes(remote, u, ours)
    <3>1. x = v
      BY <1>3, <1>6, <1>12, <2>3 DEF Does
    <3>2. Gives(v, u, local, remote)
      BY <1>3, <1>12, <2>1, <2>3 DEF Gives
    <3> QED BY <1>8, <3>1, <3>2
  <2> QED BY <2>2, <2>3
<1>13. CASE u \in DOMAIN local.live /\ u \in DOMAIN remote.live
  <2>1. CASE Concurrent(ours.clock, theirs.clock)
    <3>1. Settles(W, v, x, u, ours, theirs)
      BY <1>3, <1>4, <1>6, <1>13, <2>1 DEF Does
    <3>2. PICK r \in RecordsOf(W) :
            /\ r.clock = Joined(ours.clock, theirs.clock)
            /\ \/ Sets(v, x, u, r)
               \/ \E y : KeptCopy(W, v, y, u, ours) /\ Sets(y, x, u, r)
               \/ \E y : KeptCopy(W, v, y, u, theirs) /\ Sets(y, x, u, r)
      BY <3>1 DEF Settles
    <3>3. CASE Sets(v, x, u, r)
      <4>1. Gives(x, u, local, remote)
        BY <1>3, <1>4, <1>9, <1>13, <3>2, <3>3 DEF Gives
      <4> QED BY <1>10, <3>3, <4>1
    <3>4. ASSUME NEW loser \in {ours, theirs}, NEW y,
                 KeptCopy(W, v, y, u, loser), Sets(y, x, u, r)
          PROVE  Midway(x, s, local, remote)
      <4>1. CopiedFrom(CopyOf(u, loser), u, loser, local, remote)
        BY <1>3, <1>4, <1>13, <2>1 DEF CopiedFrom
      <4>2. done \subseteq DOMAIN local.live \cup DOMAIN remote.live
        BY <1>5
      <4>3. Midway(y, done, local, remote)
        BY <1>5, <3>4, <4>1, <4>2, KeptCopyMidway
      <4>4. LiveAt(x, u, r.clock)
        BY <3>4 DEF Sets, LiveAt
      <4>5. Gives(x, u, local, remote)
        BY <1>3, <1>4, <1>13, <3>2, <4>4 DEF Gives
      <4> QED BY <1>5, <3>4, <4>3, <4>5, SetsMidway
    <3> QED BY <3>2, <3>3, <3>4
  <2>2. CASE ~Concurrent(ours.clock, theirs.clock) /\ Covers(ours.clock, theirs.clock)
    <3>1. x = v
      BY <1>3, <1>4, <1>6, <1>13, <2>2 DEF Does
    <3>2. LiveAt(v, u, Joined(ours.clock, theirs.clock))
      BY <1>3, <1>5, <1>7, <1>13, <2>2, JoinedFacts DEF AsAtStart, LiveAt
    <3>3. Gives(v, u, local, remote)
      BY <1>3, <1>4, <1>13, <3>2 DEF Gives
    <3> QED BY <1>8, <3>1, <3>3
  <2>3. CASE ~Concurrent(ours.clock, theirs.clock) /\ ~Covers(ours.clock, theirs.clock)
    <3>1. PICK r \in RecordsOf(W) : Alike(r, theirs) /\ Sets(v, x, u, r)
      BY <1>3, <1>4, <1>6, <1>13, <2>3 DEF Does, Takes
    <3>2. Covers(theirs.clock, ours.clock)
      BY <2>3 DEF Concurrent
    <3>3. LiveAt(x, u, Joined(ours.clock, theirs.clock))
      BY <1>7, <1>9, <1>13, <3>1, <3>2, JoinedFacts DEF Alike
    <3>4. Gives(x, u, local, remote)
      BY <1>3, <1>4, <1>13, <3>3 DEF Gives
    <3> QED BY <1>10, <3>1, <3>4
  <2> QED BY <2>1, <2>2, <2>3
<1> QED BY <1>5, <1>11, <1>12, <1>13

\* All of them.
LEMMA MergesMidway ==
  ASSUME NEW W, NEW local, NEW remote, VaultTyped(local, W), Stamped(local),
         Typed(remote, W), Apart(local), Apart(remote), CopiesNew(local, remote),
         NEW S, S = DOMAIN local.live \cup DOMAIN remote.live,
         NEW f, MergesTo(f, S, local, remote)
  PROVE  /\ Midway(f[S], S, local, remote) /\ Halfway(W, f[S], {}, local)
         /\ \A s \in SUBSET S : /\ Halfway(W, f[s], S \ s, local)
                                /\ Midway(f[s], s, local, remote)
<1> DEFINE bad == {s \in SUBSET S : ~(Halfway(W, f[s], S \ s, local)
                                      /\ Midway(f[s], s, local, remote))}
<1>1. IsFiniteSet(S)
  BY FS_Union DEF VaultTyped, Typed
<1>2. {} \notin bad
  <2>1. f[{}] = local
    BY DEF MergesTo
  <2>2. Halfway(W, local, S, local)
    BY DEF Halfway, AsAtStart, Stamped, Uuids, VersionIn
  <2>3. Midway(local, {}, local, remote)
    BY DEF Midway
  <2> QED BY <2>1, <2>2, <2>3
<1>3. ASSUME NEW s \in SUBSET S, s # {},
             Halfway(W, f[s \ {NextOf(s)}], S \ (s \ {NextOf(s)}), local),
             Midway(f[s \ {NextOf(s)}], s \ {NextOf(s)}, local, remote)
      PROVE  Halfway(W, f[s], S \ s, local) /\ Midway(f[s], s, local, remote)
  <2>1. PICK u \in s : u = NextOf(s)
    BY <1>3 DEF NextOf
  <2>2. PICK todo : todo = S \ (s \ {u})
    OBVIOUS
  <2>3. u \in todo /\ todo \ {u} = S \ s /\ todo \subseteq S
    BY <2>1, <2>2
  <2>4. f[s] = MergeRecord(f[s \ {u}], u, local, remote)
    BY <1>3, <2>1 DEF MergesTo
  <2>5. Halfway(W, f[s \ {u}], todo, local)
    BY <1>3, <2>1, <2>2
  <2>6. Halfway(W, f[s], S \ s, local)
    BY <2>3, <2>4, <2>5, MergeRecordHalfway DEF VaultTyped
  <2>7. Midway(f[s], s, local, remote)
    BY <1>3, <2>1, <2>2, <2>4, <2>5, MergeRecordMidway DEF VaultTyped
  <2> QED BY <2>6, <2>7
<1>4. \A s \in bad : s # {} => s \ {NextOf(s)} \in bad
  BY <1>3
<1>5. bad \subseteq SUBSET S
  OBVIOUS
<1> HIDE DEF bad
<1>6. bad = {}
  BY <1>1, <1>2, <1>4, <1>5, SubsetInduction
<1>7. \A s \in SUBSET S : Halfway(W, f[s], S \ s, local) /\ Midway(f[s], s, local, remote)
  BY <1>6 DEF bad
<1>8. Halfway(W, f[S], S \ S, local) /\ Midway(f[S], S, local, remote)
  BY <1>7
<1>9. S \ S = {}
  OBVIOUS
<1> QED BY <1>7, <1>8, <1>9

\* u is deleted, and its tombstone has this clock.
TombAt(v, u, clock) == u \in DOMAIN v.tombs /\ v.tombs[u].clock = clock

\* What the merge of the copies X and Y gives.
MergeOf(x, X, Y) ==
  /\ \A u \in DOMAIN X.live \cap DOMAIN Y.live :
       LiveAt(x, u, Joined(X.live[u].clock, Y.live[u].clock))
  /\ \A u \in DOMAIN X.live \ DOMAIN Y.live :
       IF Deletes(Y, u, X.live[u]) THEN TombAt(x, u, Y.tombs[u].clock)
                                   ELSE LiveAt(x, u, X.live[u].clock)
  /\ \A u \in DOMAIN Y.live \ DOMAIN X.live :
       IF Deletes(X, u, Y.live[u]) THEN TombAt(x, u, X.tombs[u].clock)
                                   ELSE LiveAt(x, u, Y.live[u].clock)
  /\ \A u \in DOMAIN X.tombs \ DOMAIN Y.live :
       TombAt(x, u, IF u \in DOMAIN Y.tombs
                      THEN Joined(X.tombs[u].clock, Y.tombs[u].clock)
                      ELSE X.tombs[u].clock)
  /\ \A u \in DOMAIN Y.tombs \ Uuids(X) : TombAt(x, u, Y.tombs[u].clock)
  /\ \A u \in Uuids(x) \ (Uuids(X) \cup Uuids(Y)) : GivesCopy(x, u, X, Y)

\* What the merge gives.
LEMMA MergeGives ==
  ASSUME NEW W, NEW v, VaultTyped(v, W), Apart(v), NEW mac \in Macs,
         NEW Y, Typed(Y, W), Apart(Y),
         NEW X, X = Stamp(v, mac), CopiesNew(X, Y),
         NEW x, x = Merge(v, mac, Y)
  PROVE  MergeOf(x, X, Y)
<1>1. VaultTyped(X, W) /\ Stamped(X) /\ Apart(X)
  BY StampFacts DEF Apart
<1>2. PICK S : S = DOMAIN X.live \cup DOMAIN Y.live
  OBVIOUS
<1>3. IsFiniteSet(S)
  BY <1>1, <1>2, FS_Union DEF VaultTyped, Typed
<1>4. PICK f : MergesTo(f, S, X, Y) /\ x = MergeTombs(f[S], X, Y)
  BY <1>2, <1>3, MergeUnfolds
<1>5. PICK y : y = f[S]
  OBVIOUS
<1>6. Halfway(W, y, {}, X) /\ Midway(y, S, X, Y)
  BY <1>1, <1>2, <1>4, <1>5, MergesMidway
<1>7. IsCopy(y) /\ x = MergeTombs(y, X, Y)
  BY <1>4, <1>5, <1>6 DEF Halfway, VaultTyped
<1>8. /\ x.live = y.live
      /\ DOMAIN x.tombs = (DOMAIN y.tombs \cup DOMAIN Y.tombs) \ DOMAIN y.live
      /\ \A u \in DOMAIN x.tombs :
           x.tombs[u] = IF u \in DOMAIN Y.tombs
                          THEN IF u \in DOMAIN X.tombs
                                 THEN JoinTombs(X.tombs[u], Y.tombs[u])
                                 ELSE Y.tombs[u]
                          ELSE y.tombs[u]
  BY <1>7, MergeTombsFacts
<1>9. /\ DOMAIN y.tombs \subseteq DOMAIN X.tombs
      /\ DOMAIN X.tombs \ DOMAIN y.live \subseteq DOMAIN y.tombs
      /\ \A u \in DOMAIN y.tombs : y.tombs[u] = X.tombs[u]
  BY <1>6 DEF Halfway, Uuids
<1>10. \A u \in DOMAIN X.tombs \cap DOMAIN Y.tombs :
         JoinTombs(X.tombs[u], Y.tombs[u]).clock = Joined(X.tombs[u].clock, Y.tombs[u].clock)
  BY DEF JoinTombs
<1>11. \A u \in DOMAIN X.tombs \ DOMAIN y.live :
         /\ u \in DOMAIN Y.tombs => TombAt(x, u, Joined(X.tombs[u].clock, Y.tombs[u].clock))
         /\ u \notin DOMAIN Y.tombs => TombAt(x, u, X.tombs[u].clock)
  BY <1>8, <1>9, <1>10 DEF TombAt
<1>12. \A u \in DOMAIN Y.tombs \ (DOMAIN y.live \cup DOMAIN X.tombs) :
         TombAt(x, u, Y.tombs[u].clock)
  BY <1>8 DEF TombAt
<1>13. \A u, clock : LiveAt(y, u, clock) => LiveAt(x, u, clock)
  BY <1>8 DEF LiveAt
<1>14. \A u \in S : Gives(y, u, X, Y)
  BY <1>6 DEF Midway
<1>15. \A u \in DOMAIN y.live \ S : GivesCopy(y, u, X, Y) /\ u \notin Uuids(X) \cup Uuids(Y)
  <2>1. \A u \in DOMAIN y.live \ S : GivesCopy(y, u, X, Y)
    BY <1>2, <1>6 DEF Midway
  <2> QED BY <2>1 DEF GivesCopy, CopiesNew
<1>16. \A u \in DOMAIN X.live \cap DOMAIN Y.live :
         LiveAt(x, u, Joined(X.live[u].clock, Y.live[u].clock))
  BY <1>2, <1>13, <1>14 DEF Gives
<1>17. ASSUME NEW u \in DOMAIN X.live \ DOMAIN Y.live
       PROVE  IF Deletes(Y, u, X.live[u]) THEN TombAt(x, u, Y.tombs[u].clock)
                                          ELSE LiveAt(x, u, X.live[u].clock)
  <2>1. u \in S /\ u \notin DOMAIN X.tombs
    BY <1>1, <1>2 DEF Apart
  <2>2. CASE Deletes(Y, u, X.live[u])
    <3>1. u \notin DOMAIN y.live /\ u \in DOMAIN Y.tombs
      BY <1>14, <2>1, <2>2 DEF Gives, Deletes
    <3> QED BY <1>12, <2>1, <2>2, <3>1
  <2>3. CASE ~Deletes(Y, u, X.live[u])
    BY <1>13, <1>14, <2>1, <2>3 DEF Gives
  <2> QED BY <2>2, <2>3
<1>18. ASSUME NEW u \in DOMAIN Y.live \ DOMAIN X.live
       PROVE  IF Deletes(X, u, Y.live[u]) THEN TombAt(x, u, X.tombs[u].clock)
                                          ELSE LiveAt(x, u, Y.live[u].clock)
  <2>1. u \in S /\ u \notin DOMAIN Y.tombs
    BY <1>2 DEF Apart
  <2>2. CASE Deletes(X, u, Y.live[u])
    <3>1. u \notin DOMAIN y.live /\ u \in DOMAIN X.tombs
      BY <1>14, <2>1, <2>2 DEF Gives, Deletes
    <3> QED BY <1>11, <2>1, <2>2, <3>1
  <2>3. CASE ~Deletes(X, u, Y.live[u])
    BY <1>13, <1>14, <2>1, <2>3 DEF Gives
  <2> QED BY <2>2, <2>3
<1>19. \A u \in (DOMAIN X.tombs \cup DOMAIN Y.tombs) \ S : u \notin DOMAIN y.live
  BY <1>15 DEF Uuids
<1>20. \A u \in DOMAIN X.tombs \ DOMAIN Y.live :
         TombAt(x, u, IF u \in DOMAIN Y.tombs
                        THEN Joined(X.tombs[u].clock, Y.tombs[u].clock)
                        ELSE X.tombs[u].clock)
  <2>1. \A u \in DOMAIN X.tombs \ DOMAIN Y.live : u \notin DOMAIN y.live
    BY <1>1, <1>2, <1>19 DEF Apart
  <2> QED BY <1>11, <2>1
<1>21. \A u \in DOMAIN Y.tombs \ Uuids(X) : TombAt(x, u, Y.tombs[u].clock)
  <2>1. \A u \in DOMAIN Y.tombs \ Uuids(X) : u \notin DOMAIN y.live /\ u \notin DOMAIN X.tombs
    BY <1>2, <1>19 DEF Apart, Uuids
  <2> QED BY <1>12, <2>1
<1>22. \A u \in Uuids(x) \ (Uuids(X) \cup Uuids(Y)) : GivesCopy(x, u, X, Y)
  <2>1. \A u \in Uuids(x) \ (Uuids(X) \cup Uuids(Y)) : u \in DOMAIN y.live \ S
    BY <1>2, <1>8, <1>9 DEF Uuids
  <2>2. \A u : GivesCopy(y, u, X, Y) => GivesCopy(x, u, X, Y)
    BY <1>13 DEF GivesCopy
  <2> QED BY <1>15, <2>1, <2>2
<1> QED BY <1>16, <1>17, <1>18, <1>20, <1>21, <1>22 DEF MergeOf

(***************************************************************************)
(* What a stamped copy X has of the changes K that it knows.               *)
(***************************************************************************)

ClockIn(X, u) == IF u \in DOMAIN X.live THEN X.live[u].clock ELSE X.tombs[u].clock

\* The clock that a credential starts from.
Base(u) == IF u \in Items THEN ZeroClock ELSE u.clock

\* X has every credential of Y, with a clock that has every change of Y's.
Knows(X, Y) ==
  \A u \in Uuids(Y) : u \in Uuids(X) /\ Covers(ClockIn(X, u), ClockIn(Y, u))

\* Each change is in the clock of its credential.
ClocksHave(X, K) ==
  \A e \in K : e.uuid \in Uuids(X) /\ Covers(ClockIn(X, e.uuid), e.clock)

\* Each delete has its tombstone.
DeletesHave(X, K) == \A e \in K : e.gone => e.uuid \in DOMAIN X.tombs

\* Each count of a live credential is of a change, or from the start.
CountsFrom(X, K) ==
  \A u \in DOMAIN X.live, n \in Macs :
    \/ X.live[u].clock[n] = Base(u)[n]
    \/ \E e \in K : /\ e.uuid = u /\ e.clock[n] = X.live[u].clock[n]
                    /\ Covers(X.live[u].clock, e.clock)

\* Each tombstone is from a delete.
TombsFrom(X, K) ==
  \A u \in DOMAIN X.tombs :
    \E e \in K : e.gone /\ e.uuid = u /\ Covers(X.tombs[u].clock, e.clock)

\* A credential that a conflict copy was made of is there, and has more
\* changes than the version that lost.
CopiesFrom(X) ==
  \A u \in Uuids(X) \ Items :
    /\ u.from \in Uuids(X)
    /\ Covers(ClockIn(X, u.from), u.clock)
    /\ ~Covers(u.clock, ClockIn(X, u.from))

BasesBelow(X) ==
  \A u \in Uuids(X) : Base(u) \in Clocks /\ Covers(ClockIn(X, u), Base(u))

Good(X, K) ==
  /\ ClocksHave(X, K) /\ DeletesHave(X, K)
  /\ CountsFrom(X, K) /\ TombsFrom(X, K)
  /\ CopiesFrom(X) /\ BasesBelow(X)

\* A live credential has all that a change of A saw, or not its count, and
\* never the count of a delete.
Fits(X, A) ==
  \A e \in A : e.uuid \in DOMAIN X.live =>
    /\ X.live[e.uuid].clock[e.mac] >= e.clock[e.mac]
         => Covers(X.live[e.uuid].clock, e.clock)
    /\ e.gone => X.live[e.uuid].clock[e.mac] < e.clock[e.mac]

\* A delete and another change of a credential that did not see one another.
Raced(A) ==
  \E e, f \in A : e.gone /\ e.uuid = f.uuid /\ Concurrent(e.clock, f.clock)

\* The UUID of a credential of Items is not the one of a conflict copy.
ItemsAreNoCopies == \A u \in Items : \A w, loser : u # CopyOf(w, loser)

CopyTyped(X, W) == Typed(X, W) /\ Apart(X)

\* The clocks of a copy.
LEMMA ClockInTyped ==
  ASSUME NEW W, NEW X, CopyTyped(X, W)
  PROVE  /\ \A u \in Uuids(X) : ClockIn(X, u) \in Clocks
         /\ \A u \in DOMAIN X.live : X.live[u].clock \in Clocks
                                     /\ ClockIn(X, u) = X.live[u].clock
         /\ \A u \in DOMAIN X.tombs : X.tombs[u].clock \in Clocks
                                      /\ ClockIn(X, u) = X.tombs[u].clock
                                      /\ u \notin DOMAIN X.live
<1>1. \A u \in DOMAIN X.live : X.live[u].clock \in Clocks
  BY DEF CopyTyped, Typed, RecordsOf
<1>2. \A u \in DOMAIN X.tombs : X.tombs[u].clock \in Clocks
  BY DEF CopyTyped, Typed, TombsOf
<1>3. \A u \in DOMAIN X.tombs : u \notin DOMAIN X.live
  BY DEF CopyTyped, Apart
<1> QED BY <1>1, <1>2, <1>3 DEF ClockIn, Uuids

\* The parts of a conflict copy's UUID.
LEMMA CopyOfFacts ==
  ASSUME ItemsAreNoCopies, NEW w, NEW loser
  PROVE  /\ CopyOf(w, loser).from = w /\ CopyOf(w, loser).clock = loser.clock
         /\ CopyOf(w, loser) \notin Items
         /\ Base(CopyOf(w, loser)) = loser.clock
<1>1. CopyOf(w, loser).from = w /\ CopyOf(w, loser).clock = loser.clock
  BY DEF CopyOf
<1>2. CopyOf(w, loser) \notin Items
  BY DEF ItemsAreNoCopies
<1> QED BY <1>1, <1>2 DEF Base

\* In two good copies, no version that loses has its conflict copy yet.
LEMMA GoodCopiesNew ==
  ASSUME ItemsAreNoCopies, NEW W, NEW X, CopyTyped(X, W), NEW Y, CopyTyped(Y, W),
         CopiesFrom(X), CopiesFrom(Y)
  PROVE  CopiesNew(X, Y)
<1> SUFFICES ASSUME NEW u, NEW w, NEW loser, CopiedFrom(u, w, loser, X, Y)
             PROVE  u \notin Uuids(X) \cup Uuids(Y)
  BY DEF CopiesNew
<1>1. u \notin Items /\ u.from = w /\ u.clock = loser.clock
  BY CopyOfFacts DEF CopiedFrom
<1>2. PICK a \in Clocks : a = X.live[w].clock /\ a = ClockIn(X, w)
  BY ClockInTyped DEF CopiedFrom
<1>3. PICK b \in Clocks : b = Y.live[w].clock /\ b = ClockIn(Y, w)
  BY ClockInTyped DEF CopiedFrom
<1>4. ~Covers(a, b) /\ ~Covers(b, a) /\ (u.clock = a \/ u.clock = b)
  BY <1>1, <1>2, <1>3 DEF CopiedFrom, Concurrent
<1>5. ~Covers(a, u.clock) \/ Covers(u.clock, a)
  BY <1>4, CoversFacts
<1>6. ~Covers(b, u.clock) \/ Covers(u.clock, b)
  BY <1>4, CoversFacts
<1> QED BY <1>1, <1>2, <1>3, <1>5, <1>6 DEF CopiesFrom

\* Without a race, a tombstone saw every version of its credential that is
\* still live somewhere.
LEMMA TombCovers ==
  ASSUME NEW W, NEW X, CopyTyped(X, W), NEW Y, CopyTyped(Y, W),
         NEW A, ChangesTyped(A), ~Raced(A),
         NEW K \in SUBSET A, NEW L \in SUBSET A, Good(X, K), Good(Y, L), Fits(Y, A),
         NEW u \in DOMAIN X.tombs \cap DOMAIN Y.live
  PROVE  Deletes(X, u, Y.live[u])
<1>1. PICK a \in Clocks : a = X.tombs[u].clock
  BY ClockInTyped
<1>2. PICK b \in Clocks : b = Y.live[u].clock
  BY ClockInTyped
<1>3. PICK e \in K : e.gone /\ e.uuid = u /\ Covers(a, e.clock)
  BY <1>1 DEF Good, TombsFrom
<1>4. e \in A /\ e.mac \in Macs /\ e.clock \in Clocks
  BY DEF ChangesTyped
<1>5. b[e.mac] < e.clock[e.mac]
  BY <1>2, <1>3, <1>4 DEF Fits
<1>6. Base(u) \in Clocks /\ Covers(a, Base(u))
  BY <1>1, ClockInTyped DEF Good, BasesBelow, Uuids
<1>7. ASSUME NEW n \in Macs PROVE a[n] >= b[n]
  <2>1. CASE b[n] = Base(u)[n]
    BY <1>6, <2>1 DEF Covers
  <2>2. ASSUME NEW f \in L, f.uuid = u, f.clock[n] = b[n], Covers(b, f.clock)
        PROVE  a[n] >= b[n]
    <3>1. f \in A /\ f.clock \in Clocks
      BY DEF ChangesTyped
    <3>2. Covers(e.clock, f.clock) \/ Covers(f.clock, e.clock)
      BY <1>3, <1>4, <2>2, <3>1 DEF Raced, Concurrent
    <3>3. ~Covers(f.clock, e.clock)
      <4>1. b[e.mac] \in Nat /\ f.clock[e.mac] \in Nat /\ e.clock[e.mac] \in Nat
        BY <1>4, <3>1 DEF Clocks
      <4>2. b[e.mac] >= f.clock[e.mac]
        BY <1>4, <2>2 DEF Covers
      <4> QED BY <1>4, <1>5, <4>1, <4>2 DEF Covers
    <3>4. Covers(a, f.clock)
      BY <1>3, <1>4, <3>1, <3>2, <3>3, CoversFacts
    <3> QED BY <2>2, <3>4 DEF Covers
  <2>3. \/ b[n] = Base(u)[n]
        \/ \E f \in L : f.uuid = u /\ f.clock[n] = b[n] /\ Covers(b, f.clock)
    BY <1>2 DEF Good, CountsFrom
  <2> QED BY <2>1, <2>2, <2>3
<1> QED BY <1>1, <1>2, <1>7 DEF Deletes, Covers

\* x is what comes of X and Y: tombstones stay, and a live credential has the
\* clocks of both.
Union(x, X, Y) ==
  /\ Knows(x, X) /\ Knows(x, Y)
  /\ DOMAIN X.tombs \cup DOMAIN Y.tombs = DOMAIN x.tombs
  /\ \A u \in DOMAIN x.live :
       \/ /\ u \in DOMAIN X.live \cap DOMAIN Y.live
          /\ x.live[u].clock = Joined(X.live[u].clock, Y.live[u].clock)
       \/ u \in DOMAIN X.live \ Uuids(Y) /\ x.live[u].clock = X.live[u].clock
       \/ u \in DOMAIN Y.live \ Uuids(X) /\ x.live[u].clock = Y.live[u].clock
       \/ /\ u \notin Uuids(X) \cup Uuids(Y)
          /\ \E w, loser : CopiedFrom(u, w, loser, X, Y) /\ x.live[u].clock = loser.clock

\* What the merge of two good copies gives.
LEMMA MergeUnion ==
  ASSUME NEW W, NEW X, CopyTyped(X, W), NEW Y, CopyTyped(Y, W),
         NEW x, CopyTyped(x, W), MergeOf(x, X, Y),
         \A u \in DOMAIN X.tombs \cap DOMAIN Y.live : Deletes(X, u, Y.live[u]),
         \A u \in DOMAIN Y.tombs \cap DOMAIN X.live : Deletes(Y, u, X.live[u])
  PROVE  Union(x, X, Y)
<1>1. \A u, clock : LiveAt(x, u, clock) => u \in DOMAIN x.live /\ ClockIn(x, u) = clock
  BY DEF LiveAt, ClockIn
<1>2. \A u, clock : TombAt(x, u, clock) =>
        u \in DOMAIN x.tombs /\ u \notin DOMAIN x.live /\ ClockIn(x, u) = clock
  BY DEF TombAt, ClockIn, CopyTyped, Apart
<1>3. \A u \in DOMAIN X.live \cap DOMAIN Y.live :
        LiveAt(x, u, Joined(X.live[u].clock, Y.live[u].clock))
  BY DEF MergeOf
<1>4. \A u \in DOMAIN X.live \cap DOMAIN Y.tombs : TombAt(x, u, Y.tombs[u].clock)
  BY DEF MergeOf, CopyTyped, Apart
<1>5. \A u \in DOMAIN X.live \ Uuids(Y) : LiveAt(x, u, X.live[u].clock)
  BY DEF MergeOf, Deletes, Uuids
<1>6. \A u \in DOMAIN Y.live \cap DOMAIN X.tombs : TombAt(x, u, X.tombs[u].clock)
  BY DEF MergeOf, CopyTyped, Apart
<1>7. \A u \in DOMAIN Y.live \ Uuids(X) : LiveAt(x, u, Y.live[u].clock)
  BY DEF MergeOf, Deletes, Uuids
<1>8. \A u \in DOMAIN X.tombs \cap DOMAIN Y.tombs :
        TombAt(x, u, Joined(X.tombs[u].clock, Y.tombs[u].clock))
  BY DEF MergeOf, CopyTyped, Apart
<1>9. \A u \in DOMAIN X.tombs \ Uuids(Y) : TombAt(x, u, X.tombs[u].clock)
  BY DEF MergeOf, Uuids
<1>10. \A u \in DOMAIN Y.tombs \ Uuids(X) : TombAt(x, u, Y.tombs[u].clock)
  BY DEF MergeOf
<1>11. Knows(x, X)
  <2> SUFFICES ASSUME NEW u \in Uuids(X)
               PROVE  u \in Uuids(x) /\ Covers(ClockIn(x, u), ClockIn(X, u))
    BY DEF Knows
  <2>1. CASE u \in DOMAIN X.live /\ u \in DOMAIN Y.live
    BY <1>1, <1>3, <2>1, ClockInTyped, JoinedFacts DEF Uuids
  <2>2. CASE u \in DOMAIN X.live /\ u \in DOMAIN Y.tombs
    BY <1>2, <1>4, <2>2, ClockInTyped DEF Uuids, Deletes
  <2>3. CASE u \in DOMAIN X.live /\ u \notin Uuids(Y)
    BY <1>1, <1>5, <2>3, ClockInTyped, CoversFacts DEF Uuids
  <2>4. CASE u \in DOMAIN X.tombs /\ u \in DOMAIN Y.live
    BY <1>2, <1>6, <2>4, ClockInTyped, CoversFacts DEF Uuids
  <2>5. CASE u \in DOMAIN X.tombs /\ u \in DOMAIN Y.tombs
    BY <1>2, <1>8, <2>5, ClockInTyped, JoinedFacts DEF Uuids
  <2>6. CASE u \in DOMAIN X.tombs /\ u \notin Uuids(Y)
    BY <1>2, <1>9, <2>6, ClockInTyped, CoversFacts DEF Uuids
  <2> QED BY <2>1, <2>2, <2>3, <2>4, <2>5, <2>6 DEF Uuids
<1>12. Knows(x, Y)
  <2> SUFFICES ASSUME NEW u \in Uuids(Y)
               PROVE  u \in Uuids(x) /\ Covers(ClockIn(x, u), ClockIn(Y, u))
    BY DEF Knows
  <2>1. CASE u \in DOMAIN X.live /\ u \in DOMAIN Y.live
    BY <1>1, <1>3, <2>1, ClockInTyped, JoinedFacts DEF Uuids
  <2>2. CASE u \in DOMAIN Y.live /\ u \in DOMAIN X.tombs
    BY <1>2, <1>6, <2>2, ClockInTyped DEF Uuids, Deletes
  <2>3. CASE u \in DOMAIN Y.live /\ u \notin Uuids(X)
    BY <1>1, <1>7, <2>3, ClockInTyped, CoversFacts DEF Uuids
  <2>4. CASE u \in DOMAIN Y.tombs /\ u \in DOMAIN X.live
    BY <1>2, <1>4, <2>4, ClockInTyped, CoversFacts DEF Uuids
  <2>5. CASE u \in DOMAIN X.tombs /\ u \in DOMAIN Y.tombs
    BY <1>2, <1>8, <2>5, ClockInTyped, JoinedFacts DEF Uuids
  <2>6. CASE u \in DOMAIN Y.tombs /\ u \notin Uuids(X)
    BY <1>2, <1>10, <2>6, ClockInTyped, CoversFacts DEF Uuids
  <2> QED BY <2>1, <2>2, <2>3, <2>4, <2>5, <2>6 DEF Uuids
<1>13. \A u \in Uuids(x) \ (Uuids(X) \cup Uuids(Y)) : GivesCopy(x, u, X, Y)
  BY DEF MergeOf
<1>14. \A u \in DOMAIN X.tombs \cup DOMAIN Y.tombs : u \in DOMAIN x.tombs
  BY <1>2, <1>4, <1>6, <1>8, <1>9, <1>10 DEF Uuids
<1>15. \A u \in DOMAIN x.tombs : u \in DOMAIN X.tombs \cup DOMAIN Y.tombs
  <2> SUFFICES ASSUME NEW u \in DOMAIN x.tombs, u \notin DOMAIN X.tombs \cup DOMAIN Y.tombs
               PROVE  FALSE
    OBVIOUS
  <2>1. u \notin DOMAIN x.live
    BY DEF CopyTyped, Apart
  <2>2. u \in Uuids(x)
    BY DEF Uuids
  <2>3. CASE u \in DOMAIN X.live \cup DOMAIN Y.live
    BY <1>1, <1>3, <1>5, <1>7, <2>1, <2>3 DEF Uuids
  <2>4. CASE u \notin DOMAIN X.live \cup DOMAIN Y.live
    BY <1>13, <2>1, <2>2, <2>4 DEF GivesCopy, LiveAt, Uuids
  <2> QED BY <2>3, <2>4
<1>16. ASSUME NEW u \in DOMAIN x.live
       PROVE  \/ /\ u \in DOMAIN X.live \cap DOMAIN Y.live
                 /\ x.live[u].clock = Joined(X.live[u].clock, Y.live[u].clock)
              \/ u \in DOMAIN X.live \ Uuids(Y) /\ x.live[u].clock = X.live[u].clock
              \/ u \in DOMAIN Y.live \ Uuids(X) /\ x.live[u].clock = Y.live[u].clock
              \/ /\ u \notin Uuids(X) \cup Uuids(Y)
                 /\ \E w, loser : CopiedFrom(u, w, loser, X, Y)
                                  /\ x.live[u].clock = loser.clock
  <2>1. u \notin DOMAIN X.tombs \cup DOMAIN Y.tombs
    BY <1>14 DEF CopyTyped, Apart
  <2>2. u \in Uuids(x)
    BY DEF Uuids
  <2>3. CASE u \notin Uuids(X) \cup Uuids(Y)
    BY <1>13, <2>2, <2>3 DEF GivesCopy, LiveAt
  <2>4. CASE u \in DOMAIN X.live /\ u \in DOMAIN Y.live
    BY <1>3, <2>4 DEF LiveAt
  <2>5. CASE u \in DOMAIN X.live /\ u \notin Uuids(Y)
    BY <1>5, <2>5 DEF LiveAt
  <2>6. CASE u \in DOMAIN Y.live /\ u \notin Uuids(X)
    BY <1>7, <2>6 DEF LiveAt
  <2> QED BY <2>1, <2>3, <2>4, <2>5, <2>6 DEF Uuids
<1>17. DOMAIN X.tombs \cup DOMAIN Y.tombs = DOMAIN x.tombs
  BY <1>14, <1>15
<1> QED BY <1>11, <1>12, <1>16, <1>17 DEF Union

\* A copy has all that is in it, and all that is in the copies that it has.
LEMMA KnowsFacts ==
  /\ \A W, X : CopyTyped(X, W) => Knows(X, X)
  /\ \A W, X, Y, Z : CopyTyped(X, W) /\ CopyTyped(Y, W) /\ CopyTyped(Z, W)
                     /\ Knows(X, Y) /\ Knows(Y, Z) => Knows(X, Z)
BY ClockInTyped, CoversFacts DEF Knows

\* A conflict copy that comes in has the clock of the version that lost.
LEMMA CopiedClock ==
  ASSUME ItemsAreNoCopies, NEW W, NEW X, CopyTyped(X, W), NEW Y, CopyTyped(Y, W),
         NEW u, NEW w, NEW loser, CopiedFrom(u, w, loser, X, Y)
  PROVE  /\ u \notin Items /\ u.from = w /\ u.clock = loser.clock
         /\ Base(u) = loser.clock /\ loser.clock \in Clocks
         /\ LET both == Joined(X.live[w].clock, Y.live[w].clock)
            IN  Covers(both, loser.clock) /\ ~Covers(loser.clock, both)
<1>1. u \notin Items /\ u.from = w /\ u.clock = loser.clock /\ Base(u) = loser.clock
  BY CopyOfFacts DEF CopiedFrom
<1>2. PICK a \in Clocks : a = X.live[w].clock
  BY ClockInTyped DEF CopiedFrom
<1>3. PICK b \in Clocks : b = Y.live[w].clock
  BY ClockInTyped DEF CopiedFrom
<1>4. PICK c : c = loser.clock
  OBVIOUS
<1>5. ~Covers(a, b) /\ ~Covers(b, a) /\ (c = a \/ c = b)
  BY <1>2, <1>3, <1>4 DEF CopiedFrom, Concurrent
<1>6. Covers(Joined(a, b), a) /\ Covers(Joined(a, b), b) /\ Joined(a, b) \in Clocks
  BY JoinedFacts
<1>7. Covers(Joined(a, b), c) /\ ~Covers(c, Joined(a, b)) /\ c \in Clocks
  BY <1>5, <1>6, CoversFacts
<1> QED BY <1>1, <1>2, <1>3, <1>4, <1>7

\* What comes of two good copies is good.
LEMMA UnionGood ==
  ASSUME ItemsAreNoCopies, NEW W, NEW X, CopyTyped(X, W), NEW Y, CopyTyped(Y, W),
         NEW x, CopyTyped(x, W), Union(x, X, Y),
         NEW K, ChangesTyped(K), NEW L, ChangesTyped(L), Good(X, K), Good(Y, L)
  PROVE  Good(x, K \cup L)
<1>1. /\ \A u \in Uuids(X) : u \in Uuids(x) /\ Covers(ClockIn(x, u), ClockIn(X, u))
      /\ \A u \in Uuids(Y) : u \in Uuids(x) /\ Covers(ClockIn(x, u), ClockIn(Y, u))
  BY DEF Union, Knows
<1>2. ClocksHave(x, K \cup L)
  <2>1. \A e \in K \cup L : e.clock \in Clocks
    BY DEF ChangesTyped
  <2>2. \A e \in K : e.uuid \in Uuids(X) /\ Covers(ClockIn(X, e.uuid), e.clock)
    BY DEF Good, ClocksHave
  <2>3. \A e \in L : e.uuid \in Uuids(Y) /\ Covers(ClockIn(Y, e.uuid), e.clock)
    BY DEF Good, ClocksHave
  <2>4. \A e \in K : e.uuid \in Uuids(x) /\ Covers(ClockIn(x, e.uuid), e.clock)
    BY <1>1, <2>1, <2>2, ClockInTyped, CoversFacts
  <2>5. \A e \in L : e.uuid \in Uuids(x) /\ Covers(ClockIn(x, e.uuid), e.clock)
    BY <1>1, <2>1, <2>3, ClockInTyped, CoversFacts
  <2> QED BY <2>4, <2>5 DEF ClocksHave
<1>3. DeletesHave(x, K \cup L)
  BY DEF Good, DeletesHave, Union
<1>4. CountsFrom(x, K \cup L)
  <2> SUFFICES ASSUME NEW u \in DOMAIN x.live, NEW n \in Macs
               PROVE  \/ x.live[u].clock[n] = Base(u)[n]
                      \/ \E e \in K \cup L : /\ e.uuid = u /\ e.clock[n] = x.live[u].clock[n]
                                             /\ Covers(x.live[u].clock, e.clock)
    BY DEF CountsFrom
  <2>1. CASE u \in DOMAIN X.live \cap DOMAIN Y.live
             /\ x.live[u].clock = Joined(X.live[u].clock, Y.live[u].clock)
    <3>1. PICK a \in Clocks : a = X.live[u].clock
      BY <2>1, ClockInTyped
    <3>2. PICK b \in Clocks : b = Y.live[u].clock
      BY <2>1, ClockInTyped
    <3>3. PICK c \in Clocks : c = x.live[u].clock
      BY ClockInTyped
    <3>4. Covers(c, a) /\ Covers(c, b) /\ (c[n] = a[n] \/ c[n] = b[n])
      BY <2>1, <3>1, <3>2, <3>3, JoinedFacts
    <3>5. \/ a[n] = Base(u)[n]
          \/ \E e \in K : e.uuid = u /\ e.clock[n] = a[n] /\ Covers(a, e.clock)
      BY <2>1, <3>1 DEF Good, CountsFrom
    <3>6. \/ b[n] = Base(u)[n]
          \/ \E e \in L : e.uuid = u /\ e.clock[n] = b[n] /\ Covers(b, e.clock)
      BY <2>1, <3>2 DEF Good, CountsFrom
    <3>7. \A e \in K \cup L : e.clock \in Clocks
      BY DEF ChangesTyped
    <3>8. \/ c[n] = Base(u)[n]
          \/ \E e \in K \cup L : e.uuid = u /\ e.clock[n] = c[n] /\ Covers(c, e.clock)
      BY <3>4, <3>5, <3>6, <3>7, CoversFacts
    <3> QED BY <3>3, <3>8
  <2>2. CASE u \in DOMAIN X.live \ Uuids(Y) /\ x.live[u].clock = X.live[u].clock
    BY <2>2 DEF Good, CountsFrom
  <2>3. CASE u \in DOMAIN Y.live \ Uuids(X) /\ x.live[u].clock = Y.live[u].clock
    BY <2>3 DEF Good, CountsFrom
  <2>4. ASSUME NEW w, NEW loser, CopiedFrom(u, w, loser, X, Y),
               x.live[u].clock = loser.clock
        PROVE  x.live[u].clock[n] = Base(u)[n]
    BY <2>4, CopiedClock
  <2> QED BY <2>1, <2>2, <2>3, <2>4 DEF Union
<1>5. TombsFrom(x, K \cup L)
  <2> SUFFICES ASSUME NEW u \in DOMAIN x.tombs
               PROVE  \E e \in K \cup L :
                        e.gone /\ e.uuid = u /\ Covers(x.tombs[u].clock, e.clock)
    BY DEF TombsFrom
  <2>1. PICK c \in Clocks : c = x.tombs[u].clock /\ c = ClockIn(x, u)
    BY ClockInTyped
  <2>2. \A e \in K \cup L : e.clock \in Clocks
    BY DEF ChangesTyped
  <2>3. CASE u \in DOMAIN X.tombs
    <3>1. PICK a \in Clocks : a = X.tombs[u].clock /\ a = ClockIn(X, u)
      BY <2>3, ClockInTyped
    <3>2. PICK e \in K : e.gone /\ e.uuid = u /\ Covers(a, e.clock)
      BY <2>3, <3>1 DEF Good, TombsFrom
    <3>3. Covers(c, a)
      BY <1>1, <2>1, <2>3, <3>1 DEF Uuids
    <3>4. Covers(c, e.clock)
      BY <2>2, <3>2, <3>3, CoversFacts
    <3> QED BY <2>1, <3>2, <3>4
  <2>4. CASE u \in DOMAIN Y.tombs
    <3>1. PICK a \in Clocks : a = Y.tombs[u].clock /\ a = ClockIn(Y, u)
      BY <2>4, ClockInTyped
    <3>2. PICK e \in L : e.gone /\ e.uuid = u /\ Covers(a, e.clock)
      BY <2>4, <3>1 DEF Good, TombsFrom
    <3>3. Covers(c, a)
      BY <1>1, <2>1, <2>4, <3>1 DEF Uuids
    <3>4. Covers(c, e.clock)
      BY <2>2, <3>2, <3>3, CoversFacts
    <3> QED BY <2>1, <3>2, <3>4
  <2> QED BY <2>3, <2>4 DEF Union
<1>6. \A u \in Uuids(x) : \/ u \in Uuids(X) \/ u \in Uuids(Y)
                          \/ \E w, loser : /\ CopiedFrom(u, w, loser, X, Y)
                                           /\ ClockIn(x, u) = loser.clock
  BY ClockInTyped DEF Union, Uuids
<1>7. \A u \in DOMAIN X.live \cap DOMAIN Y.live : u \in Uuids(x) /\
        Covers(ClockIn(x, u), Joined(X.live[u].clock, Y.live[u].clock))
  <2>1. \A u \in DOMAIN X.live \cap DOMAIN Y.live :
          /\ u \in Uuids(X) /\ u \in Uuids(Y)
          /\ ClockIn(X, u) = X.live[u].clock /\ X.live[u].clock \in Clocks
          /\ ClockIn(Y, u) = Y.live[u].clock /\ Y.live[u].clock \in Clocks
    BY ClockInTyped DEF Uuids
  <2>2. \A u \in Uuids(x) : ClockIn(x, u) \in Clocks
    BY ClockInTyped
  <2> QED BY <1>1, <2>1, <2>2, JoinedFacts
<1>8. CopiesFrom(x)
  <2> SUFFICES ASSUME NEW u \in Uuids(x) \ Items
               PROVE  /\ u.from \in Uuids(x)
                      /\ Covers(ClockIn(x, u.from), u.clock)
                      /\ ~Covers(u.clock, ClockIn(x, u.from))
    BY DEF CopiesFrom
  <2>1. ASSUME NEW Z \in {X, Y}, u \in Uuids(Z)
        PROVE  /\ u.from \in Uuids(x)
               /\ Covers(ClockIn(x, u.from), u.clock)
               /\ ~Covers(u.clock, ClockIn(x, u.from))
    <3>1. /\ u.from \in Uuids(Z) /\ Base(u) \in Clocks
          /\ Covers(ClockIn(Z, u.from), u.clock) /\ ~Covers(u.clock, ClockIn(Z, u.from))
      BY <2>1 DEF Good, CopiesFrom, BasesBelow
    <3>2. u.clock \in Clocks
      BY <3>1 DEF Base
    <3>3. /\ u.from \in Uuids(x) /\ Covers(ClockIn(x, u.from), ClockIn(Z, u.from))
          /\ ClockIn(x, u.from) \in Clocks /\ ClockIn(Z, u.from) \in Clocks
      BY <1>1, <3>1, ClockInTyped
    <3> QED BY <3>1, <3>2, <3>3, CoversFacts
  <2>2. ASSUME NEW w, NEW loser, CopiedFrom(u, w, loser, X, Y)
        PROVE  /\ u.from \in Uuids(x)
               /\ Covers(ClockIn(x, u.from), u.clock)
               /\ ~Covers(u.clock, ClockIn(x, u.from))
    <3>1. PICK c : c = Joined(X.live[w].clock, Y.live[w].clock)
      OBVIOUS
    <3>2. /\ u.from = w /\ u.clock \in Clocks
          /\ Covers(c, u.clock) /\ ~Covers(u.clock, c)
      BY <2>2, <3>1, CopiedClock
    <3>3. w \in DOMAIN X.live \cap DOMAIN Y.live
      BY <2>2 DEF CopiedFrom
    <3>4. w \in Uuids(x) /\ Covers(ClockIn(x, w), c)
      BY <1>7, <3>1, <3>3
    <3>5. c \in Clocks /\ ClockIn(x, w) \in Clocks
      BY <3>1, <3>3, <3>4, ClockInTyped, JoinedFacts
    <3> QED BY <3>2, <3>4, <3>5, CoversFacts
  <2> QED BY <1>6, <2>1, <2>2
<1>9. BasesBelow(x)
  <2> SUFFICES ASSUME NEW u \in Uuids(x)
               PROVE  Base(u) \in Clocks /\ Covers(ClockIn(x, u), Base(u))
    BY DEF BasesBelow
  <2>1. ASSUME NEW Z \in {X, Y}, u \in Uuids(Z)
        PROVE  Base(u) \in Clocks /\ Covers(ClockIn(x, u), Base(u))
    <3>1. Base(u) \in Clocks /\ Covers(ClockIn(Z, u), Base(u))
      BY <2>1 DEF Good, BasesBelow
    <3>2. Covers(ClockIn(x, u), ClockIn(Z, u)) /\ ClockIn(x, u) \in Clocks
          /\ ClockIn(Z, u) \in Clocks
      BY <1>1, <2>1, ClockInTyped
    <3> QED BY <3>1, <3>2, CoversFacts
  <2>2. ASSUME NEW w, NEW loser, CopiedFrom(u, w, loser, X, Y),
               ClockIn(x, u) = loser.clock
        PROVE  Base(u) \in Clocks /\ Covers(ClockIn(x, u), Base(u))
    BY <2>2, CopiedClock, CoversFacts
  <2> QED BY <1>6, <2>1, <2>2
<1> QED BY <1>2, <1>3, <1>4, <1>5, <1>8, <1>9 DEF Good

\* No live credential has a count of the Mac n that its vault v does not have.
OwnedBy(X, v, n) ==
  \A u \in DOMAIN X.live :
    X.live[u].clock[n] <= IF u \in Uuids(v) THEN ClockIn(v, u)[n] ELSE Base(u)[n]

\* The counts of a change of A are not from the start of its credential.
CountsNew(A) == \A e \in A : e.clock[e.mac] > Base(e.uuid)[e.mac]

\* What comes of two copies that no change undoes is not undone.
LEMMA UnionFits ==
  ASSUME ItemsAreNoCopies, NEW W, NEW X, CopyTyped(X, W), NEW Y, CopyTyped(Y, W),
         NEW x, CopyTyped(x, W), Union(x, X, Y),
         NEW A, ChangesTyped(A), CountsNew(A), Fits(X, A), Fits(Y, A)
  PROVE  Fits(x, A)
<1> SUFFICES ASSUME NEW e \in A, e.uuid \in DOMAIN x.live
             PROVE  /\ x.live[e.uuid].clock[e.mac] >= e.clock[e.mac]
                         => Covers(x.live[e.uuid].clock, e.clock)
                    /\ e.gone => x.live[e.uuid].clock[e.mac] < e.clock[e.mac]
  BY DEF Fits
<1>1. PICK u \in DOMAIN x.live : u = e.uuid
  OBVIOUS
<1>2. e.mac \in Macs /\ e.clock \in Clocks
  BY DEF ChangesTyped
<1>3. CASE u \in DOMAIN X.live \cap DOMAIN Y.live
           /\ x.live[u].clock = Joined(X.live[u].clock, Y.live[u].clock)
  <2>1. PICK a \in Clocks : a = X.live[u].clock
    BY <1>3, ClockInTyped
  <2>2. PICK b \in Clocks : b = Y.live[u].clock
    BY <1>3, ClockInTyped
  <2>3. PICK c \in Clocks : c = x.live[u].clock
    BY ClockInTyped
  <2>4. Covers(c, a) /\ Covers(c, b) /\ (c[e.mac] = a[e.mac] \/ c[e.mac] = b[e.mac])
    BY <1>2, <1>3, <2>1, <2>2, <2>3, JoinedFacts
  <2>5. /\ a[e.mac] >= e.clock[e.mac] => Covers(a, e.clock)
        /\ e.gone => a[e.mac] < e.clock[e.mac]
        /\ b[e.mac] >= e.clock[e.mac] => Covers(b, e.clock)
        /\ e.gone => b[e.mac] < e.clock[e.mac]
    BY <1>1, <1>3, <2>1, <2>2 DEF Fits
  <2>6. c[e.mac] >= e.clock[e.mac] => Covers(c, e.clock)
    BY <1>2, <2>4, <2>5, CoversFacts
  <2>7. e.gone => c[e.mac] < e.clock[e.mac]
    BY <2>4, <2>5
  <2> QED BY <1>1, <2>3, <2>6, <2>7
<1>4. CASE u \in DOMAIN X.live \ Uuids(Y) /\ x.live[u].clock = X.live[u].clock
  BY <1>1, <1>4 DEF Fits
<1>5. CASE u \in DOMAIN Y.live \ Uuids(X) /\ x.live[u].clock = Y.live[u].clock
  BY <1>1, <1>5 DEF Fits
<1>6. ASSUME NEW w, NEW loser, CopiedFrom(u, w, loser, X, Y),
             x.live[u].clock = loser.clock
      PROVE  x.live[u].clock[e.mac] < e.clock[e.mac]
  <2>1. x.live[u].clock = Base(u) /\ Base(u) \in Clocks
    BY <1>6, CopiedClock
  <2>2. e.clock[e.mac] > Base(u)[e.mac]
    BY <1>1 DEF CountsNew
  <2> QED BY <1>2, <2>1, <2>2 DEF Clocks
<1>7. ASSUME NEW w, NEW loser, CopiedFrom(u, w, loser, X, Y),
             x.live[u].clock = loser.clock
      PROVE  /\ x.live[e.uuid].clock[e.mac] >= e.clock[e.mac]
                  => Covers(x.live[e.uuid].clock, e.clock)
             /\ e.gone => x.live[e.uuid].clock[e.mac] < e.clock[e.mac]
  <2>1. x.live[u].clock[e.mac] \in Nat /\ e.clock[e.mac] \in Nat
    BY <1>2, ClockInTyped DEF Clocks
  <2> QED BY <1>1, <1>6, <1>7, <2>1
<1> QED BY <1>1, <1>3, <1>4, <1>5, <1>7 DEF Union

\* What comes of two copies has the counts of the two.
LEMMA UnionOwned ==
  ASSUME ItemsAreNoCopies, NEW W, NEW X, CopyTyped(X, W), NEW Y, CopyTyped(Y, W),
         NEW x, CopyTyped(x, W), Union(x, X, Y),
         NEW n \in Macs, NEW v, CopyTyped(v, W), BasesBelow(v),
         OwnedBy(X, v, n), OwnedBy(Y, v, n)
  PROVE  OwnedBy(x, v, n)
<1> SUFFICES ASSUME NEW u \in DOMAIN x.live
             PROVE  x.live[u].clock[n] <=
                      IF u \in Uuids(v) THEN ClockIn(v, u)[n] ELSE Base(u)[n]
  BY DEF OwnedBy
<1>1. PICK top : top = IF u \in Uuids(v) THEN ClockIn(v, u)[n] ELSE Base(u)[n]
  OBVIOUS
<1>2. CASE u \in DOMAIN X.live \cap DOMAIN Y.live
           /\ x.live[u].clock = Joined(X.live[u].clock, Y.live[u].clock)
  <2>1. PICK a \in Clocks : a = X.live[u].clock
    BY <1>2, ClockInTyped
  <2>2. PICK b \in Clocks : b = Y.live[u].clock
    BY <1>2, ClockInTyped
  <2>3. PICK c \in Clocks : c = x.live[u].clock
    BY ClockInTyped
  <2>4. c[n] = a[n] \/ c[n] = b[n]
    BY <1>2, <2>1, <2>2, <2>3, JoinedFacts
  <2>5. a[n] <= top /\ b[n] <= top
    BY <1>1, <1>2, <2>1, <2>2 DEF OwnedBy
  <2> QED BY <1>1, <2>3, <2>4, <2>5
<1>3. CASE u \in DOMAIN X.live \ Uuids(Y) /\ x.live[u].clock = X.live[u].clock
  BY <1>3 DEF OwnedBy
<1>4. CASE u \in DOMAIN Y.live \ Uuids(X) /\ x.live[u].clock = Y.live[u].clock
  BY <1>4 DEF OwnedBy
<1>5. ASSUME NEW w, NEW loser, CopiedFrom(u, w, loser, X, Y),
             x.live[u].clock = loser.clock
      PROVE  x.live[u].clock[n] <= top
  <2>1. x.live[u].clock = Base(u) /\ Base(u) \in Clocks
    BY <1>5, CopiedClock
  <2>2. u \in Uuids(v) => ClockIn(v, u)[n] >= Base(u)[n] /\ ClockIn(v, u) \in Clocks
    BY ClockInTyped DEF BasesBelow, Covers
  <2> QED BY <1>1, <2>1, <2>2 DEF Clocks
<1> QED BY <1>1, <1>2, <1>3, <1>4, <1>5 DEF Union

\* The counts stay owned while the vault of their Mac grows.
LEMMA OwnedGrows ==
  ASSUME NEW W, NEW X, CopyTyped(X, W), BasesBelow(X), NEW n \in Macs,
         NEW v, CopyTyped(v, W), NEW y, CopyTyped(y, W), Knows(y, v), BasesBelow(y),
         OwnedBy(X, v, n)
  PROVE  OwnedBy(X, y, n)
<1> SUFFICES ASSUME NEW u \in DOMAIN X.live
             PROVE  X.live[u].clock[n] <=
                      IF u \in Uuids(y) THEN ClockIn(y, u)[n] ELSE Base(u)[n]
  BY DEF OwnedBy
<1>1. PICK a \in Clocks : a = X.live[u].clock
  BY ClockInTyped
<1>2. PICK b \in Clocks : b = Base(u)
  BY DEF BasesBelow, Uuids
<1>3. a[n] <= IF u \in Uuids(v) THEN ClockIn(v, u)[n] ELSE b[n]
  BY <1>1, <1>2 DEF OwnedBy
<1>4. CASE u \in Uuids(v)
  <2>1. /\ u \in Uuids(y) /\ ClockIn(y, u) \in Clocks /\ ClockIn(v, u) \in Clocks
        /\ ClockIn(y, u)[n] >= ClockIn(v, u)[n]
    BY <1>4, ClockInTyped DEF Knows, Covers
  <2> QED BY <1>1, <1>3, <1>4, <2>1 DEF Clocks
<1>5. CASE u \notin Uuids(v) /\ u \in Uuids(y)
  <2>1. ClockIn(y, u) \in Clocks /\ ClockIn(y, u)[n] >= b[n]
    BY <1>2, <1>5, ClockInTyped DEF BasesBelow, Covers
  <2> QED BY <1>1, <1>3, <1>5, <2>1 DEF Clocks
<1>6. CASE u \notin Uuids(v) /\ u \notin Uuids(y)
  BY <1>1, <1>2, <1>3, <1>6
<1> QED BY <1>4, <1>5, <1>6

\* Y has the credentials of X.
Like(X, Y) ==
  /\ DOMAIN X.live = DOMAIN Y.live /\ DOMAIN X.tombs = DOMAIN Y.tombs
  /\ \A u \in DOMAIN X.live : Y.live[u] = X.live[u]
  /\ \A u \in DOMAIN X.tombs : Y.tombs[u] = X.tombs[u]

\* All this is of the credentials alone.
LEMMA LikeFacts ==
  ASSUME NEW X, NEW Y, Like(X, Y)
  PROVE  /\ \A W : CopyTyped(X, W) => CopyTyped(Y, W)
         /\ \A K : Good(X, K) => Good(Y, K)
         /\ \A A : Fits(X, A) => Fits(Y, A)
         /\ BasesBelow(X) => BasesBelow(Y)
         /\ \A v, n : OwnedBy(X, v, n) => OwnedBy(Y, v, n)
         /\ \A Z : Knows(X, Z) => Knows(Y, Z)
         /\ \A P, Q : MergeOf(X, P, Q) => MergeOf(Y, P, Q)
         /\ Uuids(Y) = Uuids(X) /\ \A u \in Uuids(X) : ClockIn(Y, u) = ClockIn(X, u)
<1>1. Uuids(Y) = Uuids(X) /\ \A u \in Uuids(X) : ClockIn(Y, u) = ClockIn(X, u)
  BY DEF Like, Uuids, ClockIn
<1>2. \A W : CopyTyped(X, W) => CopyTyped(Y, W)
  BY DEF Like, CopyTyped, Typed, Apart
<1>3. \A K : Good(X, K) => Good(Y, K)
  <2> TAKE K
  <2>1. ClocksHave(X, K) => ClocksHave(Y, K)
    BY <1>1 DEF ClocksHave
  <2>2. DeletesHave(X, K) => DeletesHave(Y, K)
    BY DEF DeletesHave, Like
  <2>3. CountsFrom(X, K) => CountsFrom(Y, K)
    BY DEF CountsFrom, Like
  <2>4. TombsFrom(X, K) => TombsFrom(Y, K)
    BY DEF TombsFrom, Like
  <2>5. CopiesFrom(X) => CopiesFrom(Y)
    BY <1>1 DEF CopiesFrom
  <2>6. BasesBelow(X) => BasesBelow(Y)
    BY <1>1 DEF BasesBelow
  <2> QED BY <2>1, <2>2, <2>3, <2>4, <2>5, <2>6 DEF Good
<1>4. \A A : Fits(X, A) => Fits(Y, A)
  BY DEF Fits, Like
<1>5. BasesBelow(X) => BasesBelow(Y)
  BY <1>1 DEF BasesBelow
<1>6. \A v, n : OwnedBy(X, v, n) => OwnedBy(Y, v, n)
  BY DEF OwnedBy, Like
<1>7. \A Z : Knows(X, Z) => Knows(Y, Z)
  BY <1>1 DEF Knows
<1>8. \A P, Q : MergeOf(X, P, Q) => MergeOf(Y, P, Q)
  <2>1. \A u, clock : (LiveAt(X, u, clock) => LiveAt(Y, u, clock))
                      /\ (TombAt(X, u, clock) => TombAt(Y, u, clock))
    BY DEF Like, LiveAt, TombAt
  <2>2. \A u, P, Q : GivesCopy(X, u, P, Q) => GivesCopy(Y, u, P, Q)
    BY <2>1 DEF GivesCopy
  <2> TAKE P, Q
  <2> QED BY <1>1, <2>1, <2>2 DEF MergeOf
<1> QED BY <1>1, <1>2, <1>3, <1>4, <1>5, <1>6, <1>7, <1>8

(***************************************************************************)
(* The vaults V of the Macs, what they know (S), and the files F.          *)
(***************************************************************************)

\* The stamped vault of m.
View(V, m) == Stamp(V[m], m)

KnownBy(V, S, m) == S[m].changes \cup Counted(V[m], m)

AllKnown(V, S) == UNION {KnownBy(V, S, m) : m \in Macs}

ShapeOf(V, S, F, W, len) ==
  /\ DOMAIN V = Macs /\ DOMAIN S = Macs
  /\ \A m \in Macs : VaultTyped(V[m], W) /\ Apart(V[m])
  /\ \A m \in Macs : SeenShape(S[m], len)
  /\ \A i \in 1..len : /\ CopyTyped(F[i], W)
                       /\ ChangesTyped(F[i].seen.changes) /\ F[i].seen.files \subseteq 1..len

VaultsGood(V, S) ==
  \A m \in Macs : /\ Good(View(V, m), KnownBy(V, S, m)) /\ BasesBelow(V[m])
                  /\ Fits(View(V, m), AllKnown(V, S))

FilesGood(F, A, len) ==
  \A i \in 1..len : Good(F[i], F[i].seen.changes) /\ Fits(F[i], A)

CountsOwned(V, F, len) ==
  /\ \A m, n \in Macs : m # n => OwnedBy(View(V, m), V[n], n)
  /\ \A i \in 1..len, n \in Macs : OwnedBy(F[i], V[n], n)

\* A change that is known somewhere is known where it was made.
ChangesOwned(S, F, len) ==
  /\ \A m \in Macs : \A e \in S[m].changes : e \in S[e.mac].changes
  /\ \A i \in 1..len : \A e \in F[i].seen.changes : e \in S[e.mac].changes

\* A vault that merged a file, or a file with it, has all of the file.
FilesKnown(V, S, F, len) ==
  /\ \A m \in Macs : \A i \in S[m].files : Knows(View(V, m), F[i])
  /\ \A i \in 1..len : \A j \in F[i].seen.files : Knows(F[i], F[j])

SyncInv(V, S, F, len) ==
  /\ VaultsGood(V, S) /\ FilesGood(F, AllKnown(V, S), len)
  /\ CountsOwned(V, F, len) /\ CountsNew(AllKnown(V, S))
  /\ ChangesOwned(S, F, len) /\ FilesKnown(V, S, F, len)

\* The stamp of a stamped vault.
LEMMA StampAgain ==
  ASSUME NEW W, NEW v, VaultTyped(v, W), Stamped(v), NEW mac \in Macs
  PROVE  Unstamped(v) = {} /\ Counted(v, mac) = {} /\ Like(v, Stamp(v, mac))
<1>1. Unstamped(v) = {}
  BY DEF Unstamped, Stamped
<1>2. Counted(v, mac) = {}
  BY <1>1 DEF Counted
<1>3. PICK s : s = Stamp(v, mac)
  OBVIOUS
<1>4. /\ DOMAIN s.live = DOMAIN v.live /\ DOMAIN s.tombs = DOMAIN v.tombs
      /\ \A u \in DOMAIN v.live :
           /\ s.live[u] = IF u \in Unstamped(v) THEN CountOne(v.live[u], mac)
                                               ELSE v.live[u]
           /\ s.live[u].version = v.live[u].version
           /\ s.live[u].value = v.live[u].value
           /\ s.live[u].ask = v.live[u].ask
      /\ \A u \in DOMAIN v.tombs :
           /\ s.tombs[u] = IF u \in Unstamped(v) THEN CountOne(v.tombs[u], mac)
                                                 ELSE v.tombs[u]
           /\ s.tombs[u].version = v.tombs[u].version
  BY <1>3, StampFacts
<1>5. Like(v, s)
  BY <1>1, <1>4 DEF Like
<1> QED BY <1>1, <1>2, <1>3, <1>5

\* The stamp only adds counts.
LEMMA ViewKnows ==
  ASSUME NEW W, NEW v, VaultTyped(v, W), Apart(v), NEW mac \in Macs,
         NEW s, s = Stamp(v, mac)
  PROVE  /\ CopyTyped(v, W) /\ CopyTyped(s, W) /\ VaultTyped(s, W) /\ Stamped(s)
         /\ Uuids(s) = Uuids(v) /\ Knows(s, v)
         /\ DOMAIN s.live = DOMAIN v.live /\ DOMAIN s.tombs = DOMAIN v.tombs
         /\ \A u \in Uuids(v) :
              ClockIn(s, u) = IF u \in Unstamped(v)
                                THEN [ClockIn(v, u) EXCEPT ![mac] = @ + 1]
                                ELSE ClockIn(v, u)
<1>1. /\ VaultTyped(s, W) /\ Stamped(s)
      /\ DOMAIN s.live = DOMAIN v.live /\ DOMAIN s.tombs = DOMAIN v.tombs
      /\ \A u \in DOMAIN v.live :
           /\ s.live[u] = IF u \in Unstamped(v) THEN CountOne(v.live[u], mac)
                                               ELSE v.live[u]
           /\ s.live[u].version = v.live[u].version
           /\ s.live[u].value = v.live[u].value
           /\ s.live[u].ask = v.live[u].ask
      /\ \A u \in DOMAIN v.tombs :
           /\ s.tombs[u] = IF u \in Unstamped(v) THEN CountOne(v.tombs[u], mac)
                                                 ELSE v.tombs[u]
           /\ s.tombs[u].version = v.tombs[u].version
  BY StampFacts
<1>2. CopyTyped(v, W) /\ CopyTyped(s, W) /\ Uuids(s) = Uuids(v)
  BY <1>1 DEF CopyTyped, VaultTyped, Apart, Uuids
<1>3. \A r \in RecordsOf(W) \cup TombsOf(W) :
        CountOne(r, mac).clock = [r.clock EXCEPT ![mac] = @ + 1]
  BY DEF CountOne, RecordsOf, TombsOf
<1>4. \A u \in Uuids(v) :
        ClockIn(s, u) = IF u \in Unstamped(v)
                          THEN [ClockIn(v, u) EXCEPT ![mac] = @ + 1]
                          ELSE ClockIn(v, u)
  BY <1>1, <1>2, <1>3 DEF ClockIn, Uuids, CopyTyped, Typed
<1>5. \A c \in Clocks : Covers([c EXCEPT ![mac] = @ + 1], c) /\ Covers(c, c)
  BY DEF Covers, Clocks
<1>6. Knows(s, v)
  BY <1>2, <1>4, <1>5, ClockInTyped DEF Knows
<1> QED BY <1>1, <1>2, <1>4, <1>6

\* The changes that are known have their types, and an uncounted one is of its Mac.
LEMMA KnownFacts ==
  ASSUME NEW W, NEW V, NEW S, NEW F, NEW len \in Nat, ShapeOf(V, S, F, W, len)
  PROVE  /\ \A m \in Macs : ChangesTyped(KnownBy(V, S, m))
                            /\ KnownBy(V, S, m) \subseteq AllKnown(V, S)
         /\ ChangesTyped(AllKnown(V, S))
         /\ \A m \in Macs : \A e \in Counted(V[m], m) : e.mac = m
<1>1. \A m \in Macs : ChangesTyped(Counted(V[m], m)) /\ \A e \in Counted(V[m], m) : e.mac = m
  BY CountedTyped DEF ShapeOf
<1>2. \A m \in Macs : ChangesTyped(S[m].changes)
  BY DEF ShapeOf, SeenShape
<1>3. \A m \in Macs : ChangesTyped(KnownBy(V, S, m))
  BY <1>1, <1>2 DEF KnownBy, ChangesTyped
<1>4. ChangesTyped(AllKnown(V, S))
  BY <1>3 DEF AllKnown, ChangesTyped
<1> QED BY <1>1, <1>3, <1>4 DEF AllKnown

\* A stamped vault x that m can keep, and what it knows: it has all of the
\* vault of m, and nothing that is not known.
CanKeep(W, V, S, F, len, m, x, k) ==
  /\ VaultTyped(x, W) /\ Apart(x) /\ Stamped(x)
  /\ Good(x, k.changes) /\ Fits(x, AllKnown(V, S)) /\ Knows(x, View(V, m))
  /\ \A n \in Macs \ {m} : OwnedBy(x, V[n], n)
  /\ KnownBy(V, S, m) \subseteq k.changes /\ k.changes \subseteq AllKnown(V, S)
  /\ \A e \in k.changes : e.mac = m \/ e \in S[e.mac].changes
  /\ k.files \subseteq 1..len /\ \A i \in k.files : Knows(x, F[i])

\* g is f with x at m.
Replaced(g, f, m, x) == g = [f EXCEPT ![m] = x]

\* The vault x is kept.
LEMMA KeepSync ==
  ASSUME NEW W, NEW V, NEW S, NEW F, NEW len \in Nat, ShapeOf(V, S, F, W, len),
         SyncInv(V, S, F, len), NEW m \in Macs,
         NEW x, NEW k, CanKeep(W, V, S, F, len, m, x, k),
         NEW Vn, Replaced(Vn, V, m, x), NEW Sn, Replaced(Sn, S, m, k)
  PROVE  SyncInv(Vn, Sn, F, len) /\ AllKnown(Vn, Sn) = AllKnown(V, S)
<1> PICK A : A = AllKnown(V, S)
  OBVIOUS
<1>1. /\ VaultTyped(x, W) /\ Apart(x) /\ Stamped(x)
      /\ Good(x, k.changes) /\ Fits(x, A) /\ Knows(x, View(V, m))
      /\ \A n \in Macs \ {m} : OwnedBy(x, V[n], n)
      /\ KnownBy(V, S, m) \subseteq k.changes /\ k.changes \subseteq A
      /\ \A e \in k.changes : e.mac = m \/ e \in S[e.mac].changes
      /\ k.files \subseteq 1..len /\ \A i \in k.files : Knows(x, F[i])
  BY DEF CanKeep
<1>2. /\ DOMAIN Vn = Macs /\ Vn[m] = x /\ \A n \in Macs \ {m} : Vn[n] = V[n]
      /\ DOMAIN Sn = Macs /\ Sn[m] = k /\ \A n \in Macs \ {m} : Sn[n] = S[n]
  BY DEF ShapeOf, Replaced
<1>3. PICK s : s = Stamp(x, m)
  OBVIOUS
<1>4. Counted(x, m) = {} /\ Like(x, s)
  BY <1>1, <1>3, StampAgain
<1>5. CopyTyped(x, W)
  BY <1>1 DEF CopyTyped, VaultTyped
<1>6. /\ CopyTyped(s, W) /\ Good(s, k.changes) /\ Fits(s, A)
      /\ \A n \in Macs \ {m} : OwnedBy(s, V[n], n)
      /\ \A Z : Knows(x, Z) => Knows(s, Z)
  BY <1>1, <1>4, <1>5, LikeFacts
<1>7. /\ View(Vn, m) = s /\ \A n \in Macs \ {m} : View(Vn, n) = View(V, n)
      /\ KnownBy(Vn, Sn, m) = k.changes
      /\ \A n \in Macs \ {m} : KnownBy(Vn, Sn, n) = KnownBy(V, S, n)
  BY <1>1, <1>2, <1>3, <1>4 DEF View, KnownBy
<1>8. AllKnown(Vn, Sn) = A
  <2>1. AllKnown(Vn, Sn) \subseteq A
    BY <1>1, <1>7 DEF AllKnown
  <2>2. A \subseteq AllKnown(Vn, Sn)
    BY <1>1, <1>7 DEF AllKnown
  <2> QED BY <1>1, <2>1, <2>2
<1>9. \A n \in Macs : /\ CopyTyped(V[n], W) /\ CopyTyped(View(V, n), W)
                      /\ Knows(View(V, n), V[n]) /\ BasesBelow(View(V, n)) /\ BasesBelow(V[n])
                      /\ Good(View(V, n), KnownBy(V, S, n)) /\ Fits(View(V, n), A)
  BY ViewKnows DEF ShapeOf, SyncInv, VaultsGood, View, Good
<1>10. BasesBelow(x) /\ Knows(x, V[m])
  BY <1>1, <1>5, <1>9, KnowsFacts DEF Good
<1>11. VaultsGood(Vn, Sn)
  <2>1. \A n \in Macs : /\ Good(View(Vn, n), KnownBy(Vn, Sn, n)) /\ BasesBelow(Vn[n])
                        /\ Fits(View(Vn, n), A)
    BY <1>1, <1>2, <1>6, <1>7, <1>9, <1>10
  <2> QED BY <1>1, <1>8, <2>1 DEF VaultsGood
<1>12. FilesGood(F, AllKnown(Vn, Sn), len)
  BY <1>1, <1>8 DEF SyncInv
<1>13. \A X : CopyTyped(X, W) /\ BasesBelow(X) /\ OwnedBy(X, V[m], m) => OwnedBy(X, x, m)
  BY <1>1, <1>5, <1>9, <1>10, OwnedGrows
<1>14. CountsOwned(Vn, F, len)
  <2>1. ASSUME NEW a \in Macs, NEW n \in Macs, a # n
        PROVE  OwnedBy(View(Vn, a), Vn[n], n)
    <3>1. OwnedBy(View(V, a), V[n], n)
      BY <1>1, <2>1 DEF SyncInv, CountsOwned
    <3>2. CASE a = m
      BY <1>1, <1>2, <1>6, <1>7, <2>1, <3>2
    <3>3. CASE a # m /\ n = m
      BY <1>1, <1>2, <1>7, <1>9, <1>13, <3>1, <3>3
    <3>4. CASE a # m /\ n # m
      BY <1>1, <1>2, <1>7, <3>1, <3>4
    <3> QED BY <3>2, <3>3, <3>4
  <2>2. ASSUME NEW i \in 1..len, NEW n \in Macs PROVE OwnedBy(F[i], Vn[n], n)
    <3>1. OwnedBy(F[i], V[n], n) /\ CopyTyped(F[i], W) /\ BasesBelow(F[i])
      BY DEF SyncInv, CountsOwned, ShapeOf, FilesGood, Good
    <3> QED BY <1>1, <1>2, <1>13, <3>1
  <2> QED BY <1>1, <2>1, <2>2 DEF CountsOwned
<1>15. S[m].changes \subseteq k.changes
  BY <1>1 DEF KnownBy
<1>16. ChangesOwned(Sn, F, len)
  <2>1. \A e \in A : e.mac \in Macs
    BY KnownFacts DEF ChangesTyped
  <2>2. \A n \in Macs : S[n].changes \subseteq A
    BY <1>1 DEF AllKnown, KnownBy
  <2>3. \A n \in Macs : S[n].changes \subseteq Sn[n].changes
    BY <1>1, <1>2, <1>15
  <2>4. \A e \in k.changes : e \in Sn[e.mac].changes
    BY <1>1, <1>2, <2>1, <2>3
  <2>5. \A n \in Macs : \A e \in Sn[n].changes : e \in Sn[e.mac].changes
    BY <1>1, <1>2, <2>1, <2>2, <2>3, <2>4 DEF SyncInv, ChangesOwned
  <2>6. \A i \in 1..len : \A e \in F[i].seen.changes : e \in Sn[e.mac].changes
    <3>1. \A i \in 1..len : \A e \in F[i].seen.changes : e.mac \in Macs
      BY DEF ShapeOf, ChangesTyped
    <3> QED BY <1>1, <2>3, <3>1 DEF SyncInv, ChangesOwned
  <2> QED BY <1>1, <2>5, <2>6 DEF ChangesOwned
<1>17. FilesKnown(Vn, Sn, F, len)
  BY <1>1, <1>2, <1>6, <1>7 DEF SyncInv, FilesKnown
<1> QED BY <1>1, <1>8, <1>11, <1>12, <1>14, <1>16, <1>17 DEF SyncInv

\* What is known of a file is known somewhere.
LEMMA FileKnown ==
  ASSUME NEW W, NEW V, NEW S, NEW F, NEW len \in Nat, ShapeOf(V, S, F, W, len),
         SyncInv(V, S, F, len), NEW i \in 1..len
  PROVE  /\ F[i].seen.changes \subseteq AllKnown(V, S)
         /\ \A e \in F[i].seen.changes : e \in S[e.mac].changes
<1>1. \A e \in F[i].seen.changes : e \in S[e.mac].changes /\ e.mac \in Macs
  BY DEF SyncInv, ChangesOwned, ShapeOf, ChangesTyped
<1> QED BY <1>1 DEF AllKnown, KnownBy

\* The merge x of a file gives a vault that m can keep.
LEMMA MergeKeeps ==
  ASSUME ItemsAreNoCopies,
         NEW W, NEW V, NEW S, NEW F, NEW len \in Nat, ShapeOf(V, S, F, W, len),
         SyncInv(V, S, F, len), ~Raced(AllKnown(V, S)),
         NEW m \in Macs, NEW i \in 1..len,
         NEW x, x = Merge(V[m], m, F[i]),
         NEW k, k.changes = KnownBy(V, S, m) \cup F[i].seen.changes,
         k.files = S[m].files \cup F[i].seen.files
  PROVE  /\ CanKeep(W, V, S, F, len, m, x, k)
         /\ Union(x, View(V, m), F[i]) /\ CopiesNew(View(V, m), F[i])
<1> PICK A : A = AllKnown(V, S)
  OBVIOUS
<1> PICK K : K = KnownBy(V, S, m)
  OBVIOUS
<1> PICK Y : Y = F[i]
  OBVIOUS
<1> PICK L : L = Y.seen.changes
  OBVIOUS
<1> PICK X : X = View(V, m)
  OBVIOUS
<1> PICK v : v = V[m]
  OBVIOUS
<1>1. /\ VaultTyped(v, W) /\ Apart(v) /\ CopyTyped(Y, W) /\ ChangesTyped(L)
      /\ Y.seen.files \subseteq 1..len /\ S[m].files \subseteq 1..len
  BY DEF ShapeOf, SeenShape
<1>2. X = Stamp(v, m) /\ x = Merge(v, m, Y)
  BY DEF View
<1>3. CopyTyped(X, W)
  BY <1>1, <1>2, ViewKnows
<1>4. /\ Good(X, K) /\ Fits(X, A) /\ Good(Y, L) /\ Fits(Y, A) /\ CountsNew(A) /\ ~Raced(A)
  BY DEF SyncInv, VaultsGood, FilesGood
<1>5. /\ ChangesTyped(K) /\ ChangesTyped(A) /\ K \subseteq A /\ L \subseteq A
      /\ \A e \in L : e \in S[e.mac].changes
  BY KnownFacts, FileKnown
<1>6. VaultTyped(x, W) /\ Apart(x) /\ Stamped(x) /\ CopyTyped(x, W)
  BY <1>1, <1>2, MergeTyped DEF CopyTyped, VaultTyped
<1>7. CopiesNew(X, Y)
  BY <1>1, <1>3, <1>4, GoodCopiesNew DEF Good
<1>8. MergeOf(x, X, Y)
  BY <1>1, <1>2, <1>7, MergeGives DEF CopyTyped
<1>9. \A u \in DOMAIN X.tombs \cap DOMAIN Y.live : Deletes(X, u, Y.live[u])
  BY <1>1, <1>3, <1>4, <1>5, TombCovers
<1>10. \A u \in DOMAIN Y.tombs \cap DOMAIN X.live : Deletes(Y, u, X.live[u])
  BY <1>1, <1>3, <1>4, <1>5, TombCovers
<1>11. Union(x, X, Y)
  BY <1>1, <1>3, <1>6, <1>8, <1>9, <1>10, MergeUnion
<1>12. Good(x, K \cup L)
  BY <1>1, <1>3, <1>4, <1>5, <1>6, <1>11, UnionGood
<1>13. Fits(x, A)
  BY <1>1, <1>3, <1>4, <1>5, <1>6, <1>11, UnionFits
<1>14. \A n \in Macs \ {m} : OwnedBy(x, V[n], n)
  <2> TAKE n \in Macs \ {m}
  <2>1. OwnedBy(X, V[n], n) /\ OwnedBy(Y, V[n], n)
    BY DEF SyncInv, CountsOwned
  <2>2. CopyTyped(V[n], W) /\ BasesBelow(V[n])
    BY DEF ShapeOf, VaultTyped, CopyTyped, SyncInv, VaultsGood
  <2> QED BY <1>1, <1>3, <1>6, <1>11, <2>1, <2>2, UnionOwned
<1>15. Knows(x, X) /\ Knows(x, Y)
  BY <1>11 DEF Union
<1>16. \A j \in S[m].files \cup Y.seen.files : Knows(x, F[j])
  <2>1. \A j \in S[m].files : Knows(X, F[j])
    BY DEF SyncInv, FilesKnown
  <2>2. \A j \in Y.seen.files : Knows(Y, F[j])
    BY DEF SyncInv, FilesKnown
  <2>3. \A j \in 1..len : CopyTyped(F[j], W)
    BY DEF ShapeOf
  <2> QED BY <1>1, <1>3, <1>6, <1>15, <2>1, <2>2, <2>3, KnowsFacts
<1>17. \A e \in K : e.mac = m \/ e \in S[e.mac].changes
  <2>1. \A e \in Counted(V[m], m) : e.mac = m
    BY KnownFacts
  <2>2. \A e \in S[m].changes : e \in S[e.mac].changes
    BY DEF SyncInv, ChangesOwned
  <2> QED BY <2>1, <2>2 DEF KnownBy
<1>18. k.changes = K \cup L /\ k.files = S[m].files \cup Y.seen.files
  OBVIOUS
<1>19. CanKeep(W, V, S, F, len, m, x, k)
  BY <1>1, <1>5, <1>6, <1>12, <1>13, <1>14, <1>15, <1>16, <1>17, <1>18 DEF CanKeep
<1> QED BY <1>7, <1>11, <1>19

\* The merge of a file.
LEMMA MergeSync ==
  ASSUME ItemsAreNoCopies,
         NEW W, NEW V, NEW S, NEW F, NEW len \in Nat, ShapeOf(V, S, F, W, len),
         SyncInv(V, S, F, len), ~Raced(AllKnown(V, S)),
         NEW m \in Macs, NEW i \in 1..len,
         NEW x, x = Merge(V[m], m, F[i]),
         NEW k, k = [changes |-> KnownBy(V, S, m) \cup F[i].seen.changes,
                     files |-> S[m].files \cup F[i].seen.files],
         NEW Vn, Replaced(Vn, V, m, x), NEW Sn, Replaced(Sn, S, m, k)
  PROVE  SyncInv(Vn, Sn, F, len) /\ AllKnown(Vn, Sn) = AllKnown(V, S)
<1>1. /\ k.changes = KnownBy(V, S, m) \cup F[i].seen.changes
      /\ k.files = S[m].files \cup F[i].seen.files
  OBVIOUS
<1>2. CanKeep(W, V, S, F, len, m, x, k)
  BY <1>1, MergeKeeps
<1> QED BY <1>2, KeepSync

\* So does its stamp x.
LEMMA StampKeeps ==
  ASSUME NEW W, NEW V, NEW S, NEW F, NEW len \in Nat, ShapeOf(V, S, F, W, len),
         SyncInv(V, S, F, len), NEW m \in Macs,
         NEW k, k.changes = KnownBy(V, S, m), k.files = S[m].files,
         NEW x, x = View(V, m)
  PROVE  CanKeep(W, V, S, F, len, m, x, k)
<1>1. x = View(V, m)
  OBVIOUS
<1>2. x = Stamp(V[m], m)
  BY <1>1 DEF View
<1>3. VaultTyped(x, W) /\ Apart(x) /\ Stamped(x) /\ CopyTyped(x, W)
  BY <1>2, ViewKnows DEF ShapeOf, CopyTyped
<1>4. \A e \in KnownBy(V, S, m) : e.mac = m \/ e \in S[e.mac].changes
  <2>1. \A e \in Counted(V[m], m) : e.mac = m
    BY KnownFacts
  <2>2. \A e \in S[m].changes : e \in S[e.mac].changes
    BY DEF SyncInv, ChangesOwned
  <2> QED BY <2>1, <2>2 DEF KnownBy
<1>5. Knows(x, x)
  BY <1>3, KnowsFacts
<1>6. /\ Good(x, KnownBy(V, S, m)) /\ Fits(x, AllKnown(V, S))
      /\ \A n \in Macs \ {m} : OwnedBy(x, V[n], n)
      /\ \A i \in S[m].files : Knows(x, F[i])
  BY <1>1 DEF SyncInv, VaultsGood, CountsOwned, FilesKnown
<1>7. S[m].files \subseteq 1..len /\ KnownBy(V, S, m) \subseteq AllKnown(V, S)
  BY KnownFacts DEF ShapeOf, SeenShape
<1>8. k.changes = KnownBy(V, S, m) /\ k.files = S[m].files
  OBVIOUS
<1>9. CanKeep(W, V, S, F, len, m, x, k)
  BY <1>1, <1>3, <1>4, <1>5, <1>6, <1>7, <1>8 DEF CanKeep
<1> QED BY <1>9

\* The stamp of the vault, before it is written over the file.
LEMMA StampSync ==
  ASSUME NEW W, NEW V, NEW S, NEW F, NEW len \in Nat, ShapeOf(V, S, F, W, len),
         SyncInv(V, S, F, len), NEW m \in Macs,
         NEW k, k = [changes |-> KnownBy(V, S, m), files |-> S[m].files],
         NEW Vn, Replaced(Vn, V, m, Stamp(V[m], m)), NEW Sn, Replaced(Sn, S, m, k)
  PROVE  SyncInv(Vn, Sn, F, len) /\ AllKnown(Vn, Sn) = AllKnown(V, S)
<1>1. PICK x : x = View(V, m)
  OBVIOUS
<1>2. Replaced(Vn, V, m, x)
  BY <1>1 DEF View
<1>3. k.changes = KnownBy(V, S, m) /\ k.files = S[m].files
  OBVIOUS
<1>4. CanKeep(W, V, S, F, len, m, x, k)
  BY <1>1, <1>3, StampKeeps
<1> QED BY <1>2, <1>4, KeepSync

\* G is the files F with f at the end.
Extended(G, F, len, f) == (\A i \in 1..len : G[i] = F[i]) /\ G[len + 1] = f

\* f is the file of the stamped vault of m.
FileOf(f, V, S, m, len) ==
  /\ Stamped(V[m]) /\ Like(V[m], f)
  /\ f.seen.changes = S[m].changes /\ f.seen.files = S[m].files \cup {len + 1}

\* The file of a stamped vault is written.
LEMMA AppendSync ==
  ASSUME NEW W, NEW V, NEW S, NEW F, NEW len \in Nat, ShapeOf(V, S, F, W, len),
         SyncInv(V, S, F, len), NEW m \in Macs,
         NEW f, FileOf(f, V, S, m, len),
         NEW k, k.changes = S[m].changes, k.files = S[m].files \cup {len + 1},
         NEW Sn, Replaced(Sn, S, m, k), NEW Fn, Extended(Fn, F, len, f)
  PROVE  SyncInv(V, Sn, Fn, len + 1) /\ AllKnown(V, Sn) = AllKnown(V, S)
<1>1. PICK v : v = V[m]
  OBVIOUS
<1>2. PICK s : s = View(V, m)
  OBVIOUS
<1>3. PICK A : A = AllKnown(V, S)
  OBVIOUS
<1>4. /\ VaultTyped(v, W) /\ Apart(v) /\ CopyTyped(v, W) /\ Stamped(v) /\ Like(v, f)
      /\ s = Stamp(v, m)
  BY <1>1, <1>2 DEF ShapeOf, CopyTyped, VaultTyped, FileOf, View
<1>5. Counted(v, m) = {} /\ Like(v, s)
  BY <1>4, StampAgain
<1>6. Like(s, f) /\ Like(f, s)
  BY <1>4, <1>5 DEF Like
<1>7. /\ DOMAIN Sn = Macs /\ Sn[m] = k /\ \A n \in Macs \ {m} : Sn[n] = S[n]
      /\ \A n \in Macs : Sn[n].changes = S[n].changes
  BY DEF ShapeOf, Replaced
<1>8. KnownBy(V, S, m) = S[m].changes /\ \A n \in Macs : KnownBy(V, Sn, n) = KnownBy(V, S, n)
  BY <1>1, <1>5, <1>7 DEF KnownBy
<1>9. AllKnown(V, Sn) = A
  BY <1>3, <1>8 DEF AllKnown
<1>10. /\ \A i \in 1..len : Fn[i] = F[i]
       /\ Fn[len + 1] = f /\ \A i \in 1..(len + 1) : i \in 1..len \/ i = len + 1
  BY DEF Extended
<1>11. f.seen.changes = S[m].changes /\ f.seen.files = S[m].files \cup {len + 1}
  BY DEF FileOf
<1>12. Good(s, S[m].changes) /\ Fits(s, A) /\ \A n \in Macs \ {m} : OwnedBy(s, V[n], n)
  BY <1>2, <1>3, <1>8 DEF SyncInv, VaultsGood, CountsOwned
<1>13. CopyTyped(f, W) /\ Good(f, S[m].changes) /\ Fits(f, A)
       /\ \A n \in Macs \ {m} : OwnedBy(f, V[n], n)
  BY <1>4, <1>6, <1>12, LikeFacts
<1>14. OwnedBy(f, V[m], m)
  <2>1. \A u \in DOMAIN v.live : u \in Uuids(v) /\ v.live[u].clock \in Clocks
                                 /\ ClockIn(v, u) = v.live[u].clock
    BY <1>4, ClockInTyped DEF Uuids
  <2>2. OwnedBy(v, v, m)
    BY <2>1 DEF OwnedBy, Clocks
  <2> QED BY <1>1, <1>4, <2>2, LikeFacts
<1>15. VaultsGood(V, Sn)
  BY <1>3, <1>8, <1>9 DEF SyncInv, VaultsGood
<1>16. FilesGood(Fn, AllKnown(V, Sn), len + 1)
  <2>1. \A i \in 1..len : Good(F[i], F[i].seen.changes) /\ Fits(F[i], A)
    BY <1>3 DEF SyncInv, FilesGood
  <2>2. \A i \in 1..(len + 1) : Good(Fn[i], Fn[i].seen.changes) /\ Fits(Fn[i], A)
    BY <1>10, <1>11, <1>13, <2>1
  <2> QED BY <1>9, <2>2 DEF FilesGood
<1>17. CountsOwned(V, Fn, len + 1)
  <2>1. \A n \in Macs : OwnedBy(f, V[n], n)
    BY <1>13, <1>14
  <2>2. \A i \in 1..len, n \in Macs : OwnedBy(F[i], V[n], n)
    BY DEF SyncInv, CountsOwned
  <2>3. \A i \in 1..(len + 1), n \in Macs : OwnedBy(Fn[i], V[n], n)
    BY <1>10, <2>1, <2>2
  <2> QED BY <2>3 DEF SyncInv, CountsOwned
<1>18. ChangesOwned(Sn, Fn, len + 1)
  <2>1. \A n \in Macs : \A e \in S[n].changes : e.mac \in Macs
    BY DEF ShapeOf, SeenShape, ChangesTyped
  <2>2. \A i \in 1..len : \A e \in F[i].seen.changes : e.mac \in Macs
    BY DEF ShapeOf, ChangesTyped
  <2>3. /\ \A n \in Macs : \A e \in S[n].changes : e \in S[e.mac].changes
        /\ \A i \in 1..len : \A e \in F[i].seen.changes : e \in S[e.mac].changes
    BY DEF SyncInv, ChangesOwned
  <2>4. \A n \in Macs : \A e \in S[n].changes : e \in Sn[e.mac].changes
    BY <1>7, <2>1, <2>3
  <2>5. \A i \in 1..len : \A e \in F[i].seen.changes : e \in Sn[e.mac].changes
    BY <1>7, <2>2, <2>3
  <2>6. \A i \in 1..(len + 1) : \A e \in Fn[i].seen.changes : e \in Sn[e.mac].changes
    BY <1>10, <1>11, <2>4, <2>5
  <2>7. \A n \in Macs : \A e \in Sn[n].changes : e \in Sn[e.mac].changes
    BY <1>7, <2>4
  <2> QED BY <2>6, <2>7 DEF ChangesOwned
<1>19. FilesKnown(V, Sn, Fn, len + 1)
  <2>1. /\ \A n \in Macs : S[n].files \subseteq 1..len
        /\ \A i \in 1..len : F[i].seen.files \subseteq 1..len
    BY DEF ShapeOf, SeenShape
  <2>2. Knows(f, f) /\ Knows(s, f)
    BY <1>6, <1>13, KnowsFacts, LikeFacts
  <2>3. \A j \in S[m].files : Knows(s, F[j]) /\ Knows(f, F[j])
    BY <1>2, <1>6, LikeFacts DEF SyncInv, FilesKnown
  <2>4. \A n \in Macs : \A i \in Sn[n].files : Knows(View(V, n), Fn[i])
    <3>1. \A n \in Macs : \A i \in S[n].files : Knows(View(V, n), F[i])
      BY DEF SyncInv, FilesKnown
    <3>2. \A i \in Sn[m].files : Knows(s, Fn[i])
      BY <1>7, <1>10, <2>1, <2>2, <2>3
    <3> QED BY <1>2, <1>7, <1>10, <2>1, <3>1, <3>2
  <2>5. \A i \in 1..len : \A j \in Fn[i].seen.files : Knows(Fn[i], Fn[j])
    BY <1>10, <2>1 DEF SyncInv, FilesKnown
  <2>6. \A j \in f.seen.files : Knows(f, Fn[j])
    BY <1>10, <1>11, <2>1, <2>2, <2>3
  <2>7. \A i \in 1..(len + 1) : \A j \in Fn[i].seen.files : Knows(Fn[i], Fn[j])
    BY <1>10, <2>5, <2>6
  <2> QED BY <2>4, <2>7 DEF FilesKnown
<1> QED BY <1>3, <1>9, <1>15, <1>16, <1>17, <1>18, <1>19 DEF SyncInv

\* The vaults and what they know are what they were.
LEMMA SameSync ==
  ASSUME NEW V, NEW S, NEW F, NEW len, SyncInv(V, S, F, len),
         NEW Vn, \A n \in Macs : Vn[n] = V[n], NEW Sn, \A n \in Macs : Sn[n] = S[n],
         \A n \in Macs : \A e \in S[n].changes : e.mac \in Macs,
         \A i \in 1..len : \A e \in F[i].seen.changes : e.mac \in Macs
  PROVE  SyncInv(Vn, Sn, F, len) /\ AllKnown(Vn, Sn) = AllKnown(V, S)
<1>1. \A n \in Macs : View(Vn, n) = View(V, n) /\ KnownBy(Vn, Sn, n) = KnownBy(V, S, n)
  BY DEF View, KnownBy
<1>2. AllKnown(Vn, Sn) = AllKnown(V, S)
  BY <1>1 DEF AllKnown
<1>3. VaultsGood(Vn, Sn) /\ FilesGood(F, AllKnown(Vn, Sn), len) /\ CountsNew(AllKnown(Vn, Sn))
  BY <1>1, <1>2 DEF SyncInv, VaultsGood
<1>4. CountsOwned(Vn, F, len) /\ FilesKnown(Vn, Sn, F, len)
  BY <1>1 DEF SyncInv, CountsOwned, FilesKnown
<1>5. ChangesOwned(Sn, F, len)
  <2>1. \A n \in Macs : \A e \in S[n].changes : e \in S[e.mac].changes
    BY DEF SyncInv, ChangesOwned
  <2>2. \A i \in 1..len : \A e \in F[i].seen.changes : e \in S[e.mac].changes
    BY DEF SyncInv, ChangesOwned
  <2>3. \A n \in Macs : \A e \in Sn[n].changes : e \in Sn[e.mac].changes
    BY <2>1
  <2>4. \A i \in 1..len : \A e \in F[i].seen.changes : e \in Sn[e.mac].changes
    BY <2>2
  <2> QED BY <2>3, <2>4 DEF ChangesOwned
<1> QED BY <1>2, <1>3, <1>4, <1>5 DEF SyncInv

\* The vaults and what they know are well typed with one more vault.
LEMMA ShapeReplaced ==
  ASSUME NEW W, NEW V, NEW S, NEW F, NEW len \in Nat, ShapeOf(V, S, F, W, len),
         NEW m \in Macs, NEW x, VaultTyped(x, W), Apart(x), NEW k, SeenShape(k, len),
         NEW Vn, Replaced(Vn, V, m, x), NEW Sn, Replaced(Sn, S, m, k)
  PROVE  ShapeOf(Vn, Sn, F, W, len)
<1>1. /\ DOMAIN Vn = Macs /\ Vn[m] = x /\ \A n \in Macs \ {m} : Vn[n] = V[n]
      /\ DOMAIN Sn = Macs /\ Sn[m] = k /\ \A n \in Macs \ {m} : Sn[n] = S[n]
  BY DEF ShapeOf, Replaced
<1> QED BY <1>1 DEF ShapeOf

\* The file that m writes over the one in the folder.
Written(f, V, S, m, len) ==
  /\ f.live = Stamp(V[m], m).live /\ f.tombs = Stamp(V[m], m).tombs
  /\ f.seen = [changes |-> KnownBy(V, S, m), files |-> S[m].files \cup {len + 1}]

\* The vault is stamped and written over the file.
LEMMA WriteSync ==
  ASSUME NEW W, NEW V, NEW S, NEW F, NEW len \in Nat, ShapeOf(V, S, F, W, len),
         SyncInv(V, S, F, len), NEW m \in Macs,
         NEW f, Written(f, V, S, m, len),
         NEW x, x = Stamp(V[m], m), NEW Vn, Replaced(Vn, V, m, x),
         NEW l, l = f.seen, NEW Sn, Replaced(Sn, S, m, l),
         NEW Fn, Extended(Fn, F, len, f)
  PROVE  SyncInv(Vn, Sn, Fn, len + 1) /\ AllKnown(Vn, Sn) = AllKnown(V, S)
<1>1. x = Stamp(V[m], m) /\ l = f.seen
  OBVIOUS
<1>2. PICK k : k = [changes |-> KnownBy(V, S, m), files |-> S[m].files]
  OBVIOUS
<1>3. PICK T : T = [S EXCEPT ![m] = k]
  OBVIOUS
<1>4. Replaced(Vn, V, m, x) /\ Replaced(T, S, m, k)
  BY <1>1, <1>3 DEF Replaced
<1>5. /\ DOMAIN Vn = Macs /\ Vn[m] = x
      /\ DOMAIN T = Macs /\ T[m] = k /\ \A n \in Macs \ {m} : T[n] = S[n]
      /\ DOMAIN Sn = Macs /\ Sn[m] = f.seen /\ \A n \in Macs \ {m} : Sn[n] = S[n]
  BY <1>4 DEF ShapeOf, Replaced
<1>6. SyncInv(Vn, T, F, len) /\ AllKnown(Vn, T) = AllKnown(V, S)
  BY <1>2, <1>4, StampSync
<1>7. VaultTyped(x, W) /\ Apart(x) /\ Stamped(x)
  BY <1>1, ViewKnows DEF ShapeOf, CopyTyped
<1>8. SeenShape(k, len)
  <2>1. ChangesTyped(KnownBy(V, S, m)) /\ S[m].files \subseteq 1..len
    BY KnownFacts DEF ShapeOf, SeenShape
  <2> QED BY <1>2, <2>1 DEF SeenShape
<1>9. ShapeOf(Vn, T, F, W, len)
  BY <1>4, <1>7, <1>8, ShapeReplaced
<1>10. f.seen.changes = T[m].changes /\ f.seen.files = T[m].files \cup {len + 1}
  BY <1>2, <1>5 DEF Written
<1>11. FileOf(f, Vn, T, m, len)
  <2>1. Like(x, f)
    BY <1>1 DEF Like, Written
  <2> QED BY <1>5, <1>7, <1>10, <2>1 DEF FileOf
<1>12. PICK U : U = [T EXCEPT ![m] = f.seen]
  OBVIOUS
<1>14. Replaced(U, T, m, l) /\ l.changes = T[m].changes /\ l.files = T[m].files \cup {len + 1}
  BY <1>1, <1>10, <1>12 DEF Replaced
<1>15. SyncInv(Vn, U, Fn, len + 1) /\ AllKnown(Vn, U) = AllKnown(Vn, T)
  BY <1>6, <1>9, <1>11, <1>14, AppendSync
<1>16. DOMAIN U = Macs /\ \A n \in Macs : Sn[n] = U[n] /\ U[n].changes = T[n].changes
  BY <1>5, <1>10, <1>12
<1>17. \A n \in Macs : \A e \in U[n].changes : e.mac \in Macs
  BY <1>9, <1>16 DEF ShapeOf, SeenShape, ChangesTyped
<1>18. \A i \in 1..(len + 1) : \A e \in Fn[i].seen.changes : e.mac \in Macs
  <2>1. \A i \in 1..(len + 1) : i \in 1..len \/ i = len + 1
    OBVIOUS
  <2>2. \A e \in f.seen.changes : e.mac \in Macs
    BY <1>10, <1>16, <1>17
  <2> QED BY <2>1, <2>2 DEF Extended, ShapeOf, ChangesTyped
<1>19. \A n \in Macs : Vn[n] = Vn[n]
  OBVIOUS
<1> QED BY <1>6, <1>15, <1>16, <1>17, <1>18, <1>19, SameSync

(***************************************************************************)
(* The steps of a sync.                                                    *)
(***************************************************************************)

Everything == AllKnown(vault, seen)

SyncHolds == SyncInv(vault, seen, files, Len(files))

\* What the types say of the vaults and the files of a state.
LEMMA ShapeGives ==
  ASSUME ShapeInv
  PROVE  /\ ShapeOf(vault, seen, files, Timely(time), Len(files)) /\ Len(files) \in Nat
         /\ \A m \in Macs : KnownBy(vault, seen, m) = Known(m)
         /\ DeleteRaced <=> Raced(Everything)
<1>1. Len(files) \in Nat
  BY DEF ShapeInv
<1>2. ShapeOf(vault, seen, files, Timely(time), Len(files))
  BY DEF ShapeInv, ShapeOf, VaultShape, FileShape, CopyTyped
<1>3. \A m \in Macs : KnownBy(vault, seen, m) = Known(m)
  BY DEF KnownBy, Known
<1>4. DeleteRaced <=> Raced(Everything)
  BY <1>3 DEF DeleteRaced, Raced, Everything, AllKnown
<1> QED BY <1>1, <1>2, <1>3, <1>4

\* The vaults after the merge of a sync.
LEMMA MergedSync ==
  ASSUME ItemsAreNoCopies, ShapeInv, SyncHolds, ~DeleteRaced,
         NEW m \in Macs, NEW i \in 0..Len(files),
         NEW v, v = Merged(m, i), NEW known, known = SeenMerged(m, i),
         NEW Vn, Replaced(Vn, vault, m, v), NEW Sn, Replaced(Sn, seen, m, known)
  PROVE  /\ SyncInv(Vn, Sn, files, Len(files)) /\ AllKnown(Vn, Sn) = Everything
         /\ ShapeOf(Vn, Sn, files, Timely(time), Len(files))
<1>1. PICK W : W = Timely(time)
  OBVIOUS
<1>2. PICK len \in Nat : len = Len(files)
  BY ShapeGives
<1>3. /\ ShapeOf(vault, seen, files, W, len) /\ SyncInv(vault, seen, files, len)
      /\ ~Raced(AllKnown(vault, seen)) /\ KnownBy(vault, seen, m) = Known(m)
  BY <1>1, <1>2, ShapeGives DEF SyncHolds, Everything
<1>4. VaultTyped(v, W) /\ Apart(v) /\ SeenShape(known, len)
  BY <1>1, <1>2, MergedShape DEF VaultShape
<1>5. ShapeOf(Vn, Sn, files, W, len)
  BY <1>3, <1>4, ShapeReplaced
<1>6. SyncInv(Vn, Sn, files, len) /\ AllKnown(Vn, Sn) = AllKnown(vault, seen)
  <2>1. CASE MustMerge(m, i)
    <3>1. i \in 1..len
      BY <1>2, <2>1 DEF MustMerge
    <3>2. v = Merge(vault[m], m, files[i])
      BY <2>1 DEF Merged
    <3>3. known = [changes |-> KnownBy(vault, seen, m) \cup files[i].seen.changes,
                   files |-> seen[m].files \cup files[i].seen.files]
      BY <1>3, <2>1 DEF SeenMerged
    <3> QED BY <1>3, <3>1, <3>2, <3>3, MergeSync
  <2>2. CASE ~MustMerge(m, i)
    <3>1. v = vault[m] /\ known = seen[m]
      BY <2>2 DEF Merged, SeenMerged
    <3>2. \A n \in Macs : Vn[n] = vault[n] /\ Sn[n] = seen[n]
      BY <1>3, <3>1 DEF Replaced, ShapeOf
    <3>3. \A n \in Macs : \A e \in seen[n].changes : e.mac \in Macs
      BY <1>3 DEF ShapeOf, SeenShape, ChangesTyped
    <3>4. \A j \in 1..len : \A e \in files[j].seen.changes : e.mac \in Macs
      BY <1>3 DEF ShapeOf, ChangesTyped
    <3> QED BY <1>3, <3>2, <3>3, <3>4, SameSync
  <2> QED BY <2>1, <2>2
<1> QED BY <1>1, <1>2, <1>5, <1>6 DEF Everything

\* What a push writes, after a merge that gives V and S.
LEMMA PushWrites ==
  ASSUME ShapeInv, NEW m \in Macs, NEW v, NEW known, Push(m, v, known),
         NEW V, V = [vault EXCEPT ![m] = v], NEW S, S = [seen EXCEPT ![m] = known]
  PROVE  \E f : /\ Written(f, V, S, m, Len(files))
                /\ Replaced(vault', V, m, Stamp(V[m], m)) /\ Replaced(seen', S, m, f.seen)
                /\ Extended(files', files, Len(files), f) /\ Len(files') = Len(files) + 1
<1>1. PICK len \in Nat : len = Len(files)
  BY ShapeGives
<1>2. PICK f : f = PushedFile(v, m, known, len + 1)
  OBVIOUS
<1>3. PICK x : x = Stamp(v, m)
  OBVIOUS
<1>4. PICK F : F = files
  OBVIOUS
<1>5. PICK Fn : Fn = files'
  OBVIOUS
<1>6. /\ Len(files') = len + 1 /\ \A i \in 1..len : Fn[i] = F[i]
      /\ Fn[len + 1] = f
      /\ vault' = [vault EXCEPT ![m] = x] /\ seen' = [seen EXCEPT ![m] = f.seen]
  BY <1>1, <1>2, <1>3, <1>4, <1>5, PushDoes
<1>7. DOMAIN vault = Macs /\ DOMAIN seen = Macs /\ V[m] = v /\ S[m] = known
  BY DEF ShapeInv
<1>8. f.live = Stamp(V[m], m).live /\ f.tombs = Stamp(V[m], m).tombs
  BY <1>2, <1>7 DEF PushedFile
<1>9. PICK K : K = KnownBy(V, S, m)
  OBVIOUS
<1>10. PICK N : N = S[m].files \cup {len + 1}
  OBVIOUS
<1>11. f.seen = [changes |-> K, files |-> N]
  <2>1. K = known.changes \cup Counted(v, m) /\ N = known.files \cup {len + 1}
    BY <1>7, <1>9, <1>10 DEF KnownBy
  <2> QED BY <1>2, <2>1 DEF PushedFile
<1>12. Written(f, V, S, m, len)
  BY <1>8, <1>9, <1>10, <1>11 DEF Written
<1>13. vault' = [V EXCEPT ![m] = x] /\ seen' = [S EXCEPT ![m] = f.seen]
  BY <1>6
<1>14. /\ Replaced(vault', V, m, Stamp(V[m], m)) /\ Replaced(seen', S, m, f.seen)
       /\ Extended(Fn, F, len, f)
  BY <1>3, <1>6, <1>7, <1>13 DEF Replaced, Extended
<1> QED BY <1>1, <1>4, <1>5, <1>6, <1>12, <1>14

\* The vault v is written over the file.
LEMMA PushSync ==
  ASSUME ShapeInv, NEW m \in Macs, NEW v, NEW known, Push(m, v, known),
         NEW V, V = [vault EXCEPT ![m] = v], NEW S, S = [seen EXCEPT ![m] = known],
         SyncInv(V, S, files, Len(files)),
         ShapeOf(V, S, files, Timely(time), Len(files))
  PROVE  SyncHolds' /\ Everything' = AllKnown(V, S)
<1>1. PICK len \in Nat : len = Len(files)
  BY ShapeGives
<1>2. PICK W : W = Timely(time)
  OBVIOUS
<1>3. PICK F : F = files
  OBVIOUS
<1>4. PICK P : P = V
  OBVIOUS
<1>5. PICK Q : Q = S
  OBVIOUS
<1>6. PICK Vn : Vn = vault'
  OBVIOUS
<1>7. PICK Sn : Sn = seen'
  OBVIOUS
<1>8. PICK Fn : Fn = files'
  OBVIOUS
<1>9. PICK f : /\ Written(f, P, Q, m, len)
               /\ Replaced(Vn, P, m, Stamp(P[m], m)) /\ Replaced(Sn, Q, m, f.seen)
               /\ Extended(Fn, F, len, f) /\ Len(files') = len + 1
  BY <1>1, <1>3, <1>4, <1>5, <1>6, <1>7, <1>8, PushWrites
<1>10. PICK x : x = Stamp(P[m], m)
  OBVIOUS
<1>11. PICK l : l = f.seen
  OBVIOUS
<1>12. /\ SyncInv(P, Q, F, len) /\ ShapeOf(P, Q, F, W, len)
       /\ Replaced(Vn, P, m, x) /\ Replaced(Sn, Q, m, l)
  BY <1>1, <1>2, <1>3, <1>4, <1>5, <1>9, <1>10, <1>11
<1>13. SyncInv(Vn, Sn, Fn, len + 1) /\ AllKnown(Vn, Sn) = AllKnown(P, Q)
  BY <1>9, <1>10, <1>11, <1>12, WriteSync
<1> QED BY <1>4, <1>5, <1>6, <1>7, <1>8, <1>9, <1>13 DEF SyncHolds, Everything

\* A sync changes nothing of what is known.
LEMMA SyncStep ==
  ASSUME ItemsAreNoCopies, ShapeInv, SyncHolds, ~DeleteRaced, NEW m \in Macs,
         \/ ReplaceSyncedFile(m)
         \/ \E i \in 0..Len(files) : SyncPulls(m, i) \/ SyncStops(m, i) \/ SyncPushes(m, i)
  PROVE  SyncHolds'
<1>1. ASSUME NEW i \in 0..Len(files), NEW v, v = Merged(m, i),
             NEW known, known = SeenMerged(m, i), Keep(m, v, known), UNCHANGED files
      PROVE  SyncHolds'
  <2>1. Replaced(vault', vault, m, v) /\ Replaced(seen', seen, m, known)
    BY <1>1 DEF Keep, Replaced
  <2>2. PICK Vn : Vn = vault'
    OBVIOUS
  <2>3. PICK Sn : Sn = seen'
    OBVIOUS
  <2>4. SyncInv(Vn, Sn, files, Len(files))
    BY <1>1, <2>1, <2>2, <2>3, MergedSync
  <2> QED BY <1>1, <2>2, <2>3, <2>4 DEF SyncHolds
<1>2. ASSUME NEW i \in 0..Len(files), SyncPushes(m, i) PROVE SyncHolds'
  <2>1. PICK v : v = Merged(m, i)
    OBVIOUS
  <2>2. PICK known : known = SeenMerged(m, i)
    OBVIOUS
  <2>3. PICK V : V = [vault EXCEPT ![m] = v]
    OBVIOUS
  <2>4. PICK S : S = [seen EXCEPT ![m] = known]
    OBVIOUS
  <2>5. Replaced(V, vault, m, v) /\ Replaced(S, seen, m, known)
    BY <2>3, <2>4 DEF Replaced
  <2>6. /\ SyncInv(V, S, files, Len(files))
        /\ ShapeOf(V, S, files, Timely(time), Len(files))
    BY <2>1, <2>2, <2>5, MergedSync
  <2>7. Push(m, v, known)
    BY <1>2, <2>1, <2>2 DEF SyncPushes
  <2> QED BY <2>3, <2>4, <2>6, <2>7, PushSync
<1>3. CASE ReplaceSyncedFile(m)
  <2>1. PICK V : V = [vault EXCEPT ![m] = vault[m]]
    OBVIOUS
  <2>2. PICK S : S = [seen EXCEPT ![m] = seen[m]]
    OBVIOUS
  <2>3. MustMerge(m, 0) = FALSE
    BY DEF MustMerge
  <2>4. vault[m] = Merged(m, 0) /\ seen[m] = SeenMerged(m, 0)
    BY <2>3 DEF Merged, SeenMerged
  <2>5. Replaced(V, vault, m, vault[m]) /\ Replaced(S, seen, m, seen[m])
    BY <2>1, <2>2 DEF Replaced
  <2>6. 0 \in 0..Len(files)
    BY ShapeGives
  <2>7. PICK v : v = vault[m]
    OBVIOUS
  <2>8. PICK known : known = seen[m]
    OBVIOUS
  <2>9. /\ v = Merged(m, 0) /\ known = SeenMerged(m, 0)
        /\ Replaced(V, vault, m, v) /\ Replaced(S, seen, m, known)
    BY <2>4, <2>5, <2>7, <2>8
  <2>10. /\ SyncInv(V, S, files, Len(files))
         /\ ShapeOf(V, S, files, Timely(time), Len(files))
    BY <2>6, <2>9, MergedSync
  <2>11. Push(m, v, known) /\ V = [vault EXCEPT ![m] = v] /\ S = [seen EXCEPT ![m] = known]
    BY <1>3, <2>1, <2>2, <2>7, <2>8 DEF ReplaceSyncedFile
  <2> QED BY <2>10, <2>11, PushSync
<1>4. ASSUME NEW i \in 0..Len(files), SyncPulls(m, i) \/ SyncStops(m, i) PROVE SyncHolds'
  <2>1. PICK v : v = Merged(m, i)
    OBVIOUS
  <2>2. PICK known : known = SeenMerged(m, i)
    OBVIOUS
  <2>3. Keep(m, v, known) /\ UNCHANGED files
    BY <1>4, <2>1, <2>2 DEF SyncPulls, SyncStops
  <2> QED BY <1>1, <2>1, <2>2, <2>3
<1> QED BY <1>2, <1>3, <1>4

(***************************************************************************)
(* The changes of the owner.                                               *)
(***************************************************************************)

\* x is the vault v after a change of the live credential u, not stamped yet.
Changed(v, x, u, gone) ==
  /\ u \in DOMAIN v.live
  /\ DOMAIN x.live = IF gone THEN DOMAIN v.live \ {u} ELSE DOMAIN v.live
  /\ DOMAIN x.tombs = IF gone THEN DOMAIN v.tombs \cup {u} ELSE DOMAIN v.tombs
  /\ \A k \in DOMAIN x.live : k # u => x.live[k] = v.live[k]
  /\ \A k \in DOMAIN x.tombs : k # u => x.tombs[k] = v.tombs[k]
  /\ ClockIn(x, u) = v.live[u].clock
  /\ Unstamped(x) = Unstamped(v) \cup {u}

\* An edit is a change.
LEMMA EditChanged ==
  ASSUME ShapeInv, NEW m \in Macs, NEW u \in DOMAIN vault[m].live,
         NEW t \in 1..MaxTime, NEW content \in Contents, Edit(m, u, t, content),
         NEW v, v = vault[m], NEW x, x = vault'[m]
  PROVE  Changed(v, x, u, FALSE)
<1>1. VaultTyped(v, Timely(time)) /\ Apart(v)
  BY DEF ShapeInv, VaultShape
<1>2. Edited(v, x, u) /\ x.live[u].version = [at |-> t, by |-> m]
  BY EditDoes
<1>3. [at |-> t, by |-> m] \notin Timely(time)
  BY NowTimely DEF Edit
<1>4. /\ x.tombs = v.tombs /\ x.stamps = v.stamps /\ DOMAIN x.live = DOMAIN v.live
      /\ \A k \in DOMAIN v.live : k # u => x.live[k] = v.live[k]
      /\ x.live[u].clock = v.live[u].clock
  BY <1>2 DEF Edited
<1>5. Uuids(x) = Uuids(v)
  BY <1>4 DEF Uuids
<1>6. \A k \in Uuids(v) : k # u => VersionIn(x, k) = VersionIn(v, k)
  BY <1>4 DEF VersionIn, Uuids
<1>7. VersionIn(x, u) \notin Timely(time) /\ u \in Uuids(v)
  BY <1>2, <1>3, <1>4 DEF VersionIn, Uuids
<1>8. u \in Unstamped(x)
  BY <1>1, <1>4, <1>5, <1>7 DEF Unstamped, VaultTyped
<1>9. \A k : k # u => (k \in Unstamped(x) <=> k \in Unstamped(v))
  BY <1>4, <1>5, <1>6 DEF Unstamped
<1>10. Unstamped(x) = Unstamped(v) \cup {u}
  BY <1>8, <1>9
<1>11. ClockIn(x, u) = v.live[u].clock
  BY <1>4 DEF ClockIn
<1> QED BY <1>4, <1>10, <1>11 DEF Changed

\* A delete is a change.
LEMMA DeleteChanged ==
  ASSUME ShapeInv, NEW m \in Macs, NEW u \in DOMAIN vault[m].live,
         NEW t \in 1..MaxTime, Delete(m, u, t),
         NEW v, v = vault[m], NEW x, x = vault'[m]
  PROVE  Changed(v, x, u, TRUE)
<1>1. VaultTyped(v, Timely(time)) /\ Apart(v)
  BY DEF ShapeInv, VaultShape
<1>2. Deleted(v, x, u) /\ x.tombs[u].version = [at |-> t, by |-> m]
  BY DeleteDoes
<1>3. [at |-> t, by |-> m] \notin Timely(time)
  BY NowTimely DEF Delete
<1>4. /\ x.stamps = v.stamps /\ DOMAIN x.live = DOMAIN v.live \ {u}
      /\ \A k \in DOMAIN v.live : k # u => x.live[k] = v.live[k]
      /\ DOMAIN x.tombs = DOMAIN v.tombs \cup {u}
      /\ \A k \in DOMAIN v.tombs : k # u => x.tombs[k] = v.tombs[k]
      /\ x.tombs[u].clock = v.live[u].clock
  BY <1>2 DEF Deleted
<1>5. Uuids(x) = Uuids(v)
  BY <1>4 DEF Uuids
<1>6. \A k \in Uuids(v) : k # u => VersionIn(x, k) = VersionIn(v, k)
  BY <1>4 DEF VersionIn, Uuids
<1>7. VersionIn(x, u) \notin Timely(time) /\ u \in Uuids(v)
  BY <1>2, <1>3, <1>4 DEF VersionIn, Uuids
<1>8. u \in Unstamped(x)
  BY <1>1, <1>4, <1>5, <1>7 DEF Unstamped, VaultTyped
<1>9. \A k : k # u => (k \in Unstamped(x) <=> k \in Unstamped(v))
  BY <1>4, <1>5, <1>6 DEF Unstamped
<1>10. Unstamped(x) = Unstamped(v) \cup {u}
  BY <1>8, <1>9
<1>11. ClockIn(x, u) = v.live[u].clock
  BY <1>4 DEF ClockIn
<1> QED BY <1>4, <1>10, <1>11 DEF Changed

\* The stamped vaults before (X) and after (Y).
ViewsChanged(X, Y, v, u, gone, m) ==
  /\ u \in DOMAIN X.live /\ Uuids(Y) = Uuids(X)
  /\ DOMAIN Y.live = IF gone THEN DOMAIN X.live \ {u} ELSE DOMAIN X.live
  /\ DOMAIN Y.tombs = IF gone THEN DOMAIN X.tombs \cup {u} ELSE DOMAIN X.tombs
  /\ \A k \in DOMAIN Y.live : k # u => Y.live[k] = X.live[k]
  /\ \A k \in DOMAIN Y.tombs : k # u => Y.tombs[k] = X.tombs[k]
  /\ \A k \in Uuids(X) : k # u => ClockIn(Y, k) = ClockIn(X, k)
  /\ Covers(ClockIn(Y, u), ClockIn(X, u))
  /\ \A n \in Macs : n # m => ClockIn(Y, u)[n] = ClockIn(X, u)[n]
  /\ ClockIn(Y, u)[m] = ClockIn(v, u)[m] + 1
  /\ u \in Unstamped(v) => ClockIn(Y, u) = ClockIn(X, u)

\* The stamp counts the change.
LEMMA ChangedViews ==
  ASSUME NEW W, NEW v, VaultTyped(v, W), Apart(v), NEW x, VaultTyped(x, W), Apart(x),
         NEW u, NEW gone \in BOOLEAN, Changed(v, x, u, gone), NEW m \in Macs,
         NEW X, X = Stamp(v, m), NEW Y, Y = Stamp(x, m)
  PROVE  ViewsChanged(X, Y, v, u, gone, m)
<1>1. /\ DOMAIN X.live = DOMAIN v.live /\ DOMAIN X.tombs = DOMAIN v.tombs
      /\ DOMAIN Y.live = DOMAIN x.live /\ DOMAIN Y.tombs = DOMAIN x.tombs
      /\ \A k \in DOMAIN v.live :
           X.live[k] = IF k \in Unstamped(v) THEN CountOne(v.live[k], m) ELSE v.live[k]
      /\ \A k \in DOMAIN x.live :
           Y.live[k] = IF k \in Unstamped(x) THEN CountOne(x.live[k], m) ELSE x.live[k]
      /\ \A k \in DOMAIN v.tombs :
           X.tombs[k] = IF k \in Unstamped(v) THEN CountOne(v.tombs[k], m) ELSE v.tombs[k]
      /\ \A k \in DOMAIN x.tombs :
           Y.tombs[k] = IF k \in Unstamped(x) THEN CountOne(x.tombs[k], m) ELSE x.tombs[k]
  BY StampFacts
<1>2. /\ u \in DOMAIN v.live
      /\ DOMAIN x.live = IF gone THEN DOMAIN v.live \ {u} ELSE DOMAIN v.live
      /\ DOMAIN x.tombs = IF gone THEN DOMAIN v.tombs \cup {u} ELSE DOMAIN v.tombs
      /\ \A k \in DOMAIN x.live : k # u => x.live[k] = v.live[k]
      /\ \A k \in DOMAIN x.tombs : k # u => x.tombs[k] = v.tombs[k]
      /\ ClockIn(x, u) = v.live[u].clock
      /\ Unstamped(x) = Unstamped(v) \cup {u}
  BY DEF Changed
<1>3. \A k : k # u => (k \in Unstamped(x) <=> k \in Unstamped(v))
  BY <1>2
<1>4. \A k \in DOMAIN Y.live : k # u => Y.live[k] = X.live[k]
  BY <1>1, <1>2, <1>3
<1>5. \A k \in DOMAIN Y.tombs : k # u => Y.tombs[k] = X.tombs[k]
  BY <1>1, <1>2, <1>3
<1>6. Uuids(X) = Uuids(v) /\ Uuids(Y) = Uuids(v) /\ Uuids(x) = Uuids(v)
  BY <1>1, <1>2 DEF Uuids
<1>7. \A k \in Uuids(X) : k # u => ClockIn(Y, k) = ClockIn(X, k)
  BY <1>1, <1>2, <1>4, <1>5 DEF Uuids, ClockIn
<1>8. PICK a : a = ClockIn(v, u)
  OBVIOUS
<1>9. a \in Clocks /\ ClockIn(x, u) = a /\ u \in Uuids(v) /\ u \in Unstamped(x)
  BY <1>2, <1>8, ClockInTyped DEF CopyTyped, VaultTyped, Uuids, ClockIn
<1>10. PICK b : b = [a EXCEPT ![m] = @ + 1]
  OBVIOUS
<1>11. ClockIn(Y, u) = b /\ ClockIn(X, u) = IF u \in Unstamped(v) THEN b ELSE a
  <2>1. ClockIn(Y, u) = [ClockIn(x, u) EXCEPT ![m] = @ + 1]
    BY <1>6, <1>9, ViewKnows
  <2>2. ClockIn(X, u) = IF u \in Unstamped(v) THEN [ClockIn(v, u) EXCEPT ![m] = @ + 1]
                                              ELSE ClockIn(v, u)
    BY <1>9, ViewKnows
  <2> QED BY <1>8, <1>9, <1>10, <2>1, <2>2
<1>12. b \in Clocks /\ Covers(b, a) /\ Covers(b, b)
       /\ b[m] = a[m] + 1 /\ \A n \in Macs : n # m => b[n] = a[n]
  BY <1>9, <1>10 DEF Clocks, Covers
<1> QED BY <1>1, <1>2, <1>4, <1>5, <1>6, <1>7, <1>8, <1>11, <1>12 DEF ViewsChanged

\* D has what C has and the change e1 of u, which may replace a change of u
\* that was not stamped yet.
Adds(D, C, e1, u, gone, clock, m) ==
  /\ e1 \in D /\ D \subseteq C \cup {e1}
  /\ e1.uuid = u /\ e1.mac = m /\ e1.clock = clock /\ e1.gone = gone
  /\ \A e \in C : e \in D \/ (e.uuid = u /\ e.mac = m /\ e.clock = clock /\ ~e.gone)

\* The change e1 is the only one of its credential in D, and tells what the
\* stamped vault Y has.
Tells(e1, D, Y) ==
  /\ \A e \in D : e.uuid = e1.uuid => e = e1
  /\ e1.uuid \in DOMAIN Y.live => /\ e1.value = Y.live[e1.uuid].value
                                  /\ e1.ask = Y.live[e1.uuid].ask

\* The next stamp counts the change, and what it counted before.
LEMMA ChangedCounted ==
  ASSUME NEW W, NEW v, VaultTyped(v, W), Apart(v), NEW x, VaultTyped(x, W), Apart(x),
         NEW u, NEW gone \in BOOLEAN, Changed(v, x, u, gone), NEW m \in Macs,
         NEW X, X = Stamp(v, m), NEW Y, Y = Stamp(x, m)
  PROVE  \E e1 : /\ Adds(Counted(x, m), Counted(v, m), e1, u, gone, ClockIn(Y, u), m)
                 /\ Tells(e1, Counted(x, m), Y)
<1> ViewsChanged(X, Y, v, u, gone, m)
  BY ChangedViews
<1>1. /\ u \in DOMAIN X.live
      /\ DOMAIN Y.live = IF gone THEN DOMAIN X.live \ {u} ELSE DOMAIN X.live
      /\ \A k \in DOMAIN Y.live : k # u => Y.live[k] = X.live[k]
      /\ \A k \in DOMAIN Y.tombs : k # u => Y.tombs[k] = X.tombs[k]
      /\ Uuids(Y) = Uuids(X)
      /\ u \in Unstamped(v) => ClockIn(Y, u) = ClockIn(X, u)
  BY DEF ViewsChanged
<1>2. Unstamped(x) = Unstamped(v) \cup {u}
  BY DEF Changed
<1>3. Uuids(Y) = Uuids(x) /\ Unstamped(x) \subseteq Uuids(x)
  BY ViewKnows DEF Unstamped
<1>4. PICK e1 : e1 = Change(Y, m, u)
  OBVIOUS
<1>5. e1.uuid = u /\ e1.mac = m /\ e1.clock = ClockIn(Y, u) /\ e1.gone = gone
  BY <1>1, <1>4 DEF Change, ClockIn
<1>6. ASSUME NEW k \in Unstamped(x), k # u PROVE Change(Y, m, k) = Change(X, m, k)
  <2>1. k \in DOMAIN Y.live <=> k \in DOMAIN X.live
    BY <1>1, <1>6
  <2>2. CASE k \in DOMAIN Y.live
    BY <1>1, <1>6, <2>1, <2>2 DEF Change
  <2>3. CASE k \notin DOMAIN Y.live
    <3>1. Y.tombs[k] = X.tombs[k]
      BY <1>1, <1>3, <1>6, <2>3 DEF Uuids
    <3> QED BY <2>1, <2>3, <3>1 DEF Change
  <2> QED BY <2>2, <2>3
<1>7. /\ Counted(x, m) = {Change(Y, m, k) : k \in Unstamped(x)}
      /\ Counted(v, m) = {Change(X, m, k) : k \in Unstamped(v)}
  BY DEF Counted
<1>8. ASSUME u \in Unstamped(v), NEW e, e = Change(X, m, u)
      PROVE  e.uuid = u /\ e.mac = m /\ e.clock = ClockIn(Y, u) /\ ~e.gone
  BY <1>1, <1>8 DEF Change, ClockIn
<1>9. \A e \in Counted(x, m) : e \in Counted(v, m) \cup {e1}
  <2> TAKE e \in Counted(x, m)
  <2>1. PICK k \in Unstamped(x) : e = Change(Y, m, k)
    BY <1>7
  <2>2. CASE k = u
    BY <1>4, <2>1, <2>2
  <2>3. CASE k # u
    <3>1. e = Change(X, m, k) /\ k \in Unstamped(v)
      BY <1>2, <1>6, <2>1, <2>3
    <3> QED BY <1>7, <3>1
  <2> QED BY <2>2, <2>3
<1>10. \A e \in Counted(v, m) :
         \/ e \in Counted(x, m)
         \/ e.uuid = u /\ e.mac = m /\ e.clock = ClockIn(Y, u) /\ ~e.gone
  <2> TAKE e \in Counted(v, m)
  <2>1. PICK k \in Unstamped(v) : e = Change(X, m, k)
    BY <1>7
  <2>2. CASE k = u
    BY <1>8, <2>1, <2>2
  <2>3. CASE k # u
    <3>1. e = Change(Y, m, k) /\ k \in Unstamped(x)
      BY <1>2, <1>6, <2>1, <2>3
    <3> QED BY <1>7, <3>1
  <2> QED BY <2>2, <2>3
<1>11. e1 \in Counted(x, m)
  BY <1>2, <1>4, <1>7
<1>12. Adds(Counted(x, m), Counted(v, m), e1, u, gone, ClockIn(Y, u), m)
  BY <1>5, <1>9, <1>10, <1>11 DEF Adds
<1>13. Tells(e1, Counted(x, m), Y)
  <2>1. \A e \in Counted(x, m) : e.uuid = u => e = e1
    <3> SUFFICES ASSUME NEW e \in Counted(x, m), e.uuid = u PROVE e = e1
      OBVIOUS
    <3>1. PICK k \in Unstamped(x) : e = Change(Y, m, k)
      BY <1>7
    <3>2. k = u
      BY <3>1 DEF Change
    <3> QED BY <1>4, <3>1, <3>2
  <2>2. VaultTyped(Y, W)
    BY ViewKnows
  <2>3. ASSUME u \in DOMAIN Y.live
        PROVE  e1.value = Y.live[u].value /\ e1.ask = Y.live[u].ask
    <3>1. Y.live[u].ask \in BOOLEAN
      BY <2>2, <2>3 DEF VaultTyped, Typed, RecordsOf
    <3> QED BY <1>4, <2>3, <3>1 DEF Change
  <2> QED BY <1>5, <2>1, <2>3 DEF Tells
<1> QED BY <1>12, <1>13

\* The stamped vault after a change is good.
LEMMA ChangeGood ==
  ASSUME NEW W, NEW X, CopyTyped(X, W), NEW Y, CopyTyped(Y, W), NEW v, NEW u,
         NEW gone \in BOOLEAN, NEW m \in Macs, ViewsChanged(X, Y, v, u, gone, m),
         NEW K, ChangesTyped(K), Good(X, K),
         NEW L, NEW e1, NEW c, c = ClockIn(Y, u), Adds(L, K, e1, u, gone, c, m)
  PROVE  Good(Y, L) /\ Knows(Y, X)
<1>1. /\ u \in DOMAIN X.live /\ Uuids(Y) = Uuids(X)
      /\ DOMAIN Y.live = IF gone THEN DOMAIN X.live \ {u} ELSE DOMAIN X.live
      /\ DOMAIN Y.tombs = IF gone THEN DOMAIN X.tombs \cup {u} ELSE DOMAIN X.tombs
      /\ \A k \in DOMAIN Y.live : k # u => Y.live[k] = X.live[k]
      /\ \A k \in DOMAIN Y.tombs : k # u => Y.tombs[k] = X.tombs[k]
      /\ \A k \in Uuids(X) : k # u => ClockIn(Y, k) = ClockIn(X, k)
      /\ Covers(c, ClockIn(X, u))
      /\ \A n \in Macs : n # m => c[n] = ClockIn(X, u)[n]
  BY DEF ViewsChanged
<1>2. /\ e1 \in L /\ L \subseteq K \cup {e1}
      /\ e1.uuid = u /\ e1.mac = m /\ e1.clock = c /\ e1.gone = gone
      /\ \A e \in K : e \in L \/ (e.uuid = u /\ e.mac = m /\ e.clock = c /\ ~e.gone)
  BY DEF Adds
<1>3. u \in Uuids(Y) /\ u \in Uuids(X) /\ c \in Clocks /\ Covers(c, c)
      /\ ClockIn(X, u) \in Clocks /\ ClockIn(X, u) = X.live[u].clock
  BY <1>1, ClockInTyped, CoversFacts DEF Uuids
<1>4. \A k \in Uuids(X) : Covers(ClockIn(Y, k), ClockIn(X, k))
  BY <1>1, ClockInTyped, CoversFacts
<1>5. Knows(Y, X)
  BY <1>1, <1>4 DEF Knows
<1>6. ClocksHave(Y, L)
  <2>1. \A e \in K : /\ e.clock \in Clocks /\ e.uuid \in Uuids(X)
                     /\ Covers(ClockIn(X, e.uuid), e.clock)
    BY DEF ChangesTyped, Good, ClocksHave
  <2>2. \A e \in K : e.uuid \in Uuids(Y) /\ Covers(ClockIn(Y, e.uuid), e.clock)
    BY <1>1, <1>4, <2>1, ClockInTyped, CoversFacts
  <2> QED BY <1>2, <1>3, <2>2 DEF ClocksHave
<1>7. DeletesHave(Y, L)
  BY <1>1, <1>2 DEF Good, DeletesHave
<1>8. CountsFrom(Y, L)
  <2> SUFFICES ASSUME NEW k \in DOMAIN Y.live, NEW n \in Macs
               PROVE  \/ Y.live[k].clock[n] = Base(k)[n]
                      \/ \E e \in L : /\ e.uuid = k /\ e.clock[n] = Y.live[k].clock[n]
                                      /\ Covers(Y.live[k].clock, e.clock)
    BY DEF CountsFrom
  <2>1. k \in DOMAIN X.live
    BY <1>1
  <2>2. \/ X.live[k].clock[n] = Base(k)[n]
        \/ \E e \in K : /\ e.uuid = k /\ e.clock[n] = X.live[k].clock[n]
                        /\ Covers(X.live[k].clock, e.clock)
    BY <2>1 DEF Good, CountsFrom
  <2>3. CASE k # u
    <3>1. Y.live[k] = X.live[k]
      BY <1>1, <2>3
    <3>2. \A e \in K : e.uuid = k => e \in L
      BY <1>2, <2>3
    <3> QED BY <2>2, <3>1, <3>2
  <2>4. CASE k = u
    <3>1. Y.live[k].clock = c
      BY <2>4, ClockInTyped
    <3>2. CASE n = m
      BY <1>2, <1>3, <2>4, <3>1, <3>2
    <3>3. CASE n # m
      <4>1. c[n] = X.live[k].clock[n]
        BY <1>1, <1>3, <2>4, <3>3
      <4>2. ASSUME NEW e \in K, e.uuid = k, e.clock[n] = X.live[k].clock[n],
                   Covers(X.live[k].clock, e.clock)
            PROVE  \E f \in L : f.uuid = k /\ f.clock[n] = c[n] /\ Covers(c, f.clock)
        <5>1. CASE e \in L
          <6>1. e.clock \in Clocks
            BY DEF ChangesTyped
          <6>2. Covers(c, e.clock)
            BY <1>1, <1>3, <2>4, <4>2, <6>1, CoversFacts
          <6> QED BY <4>1, <4>2, <5>1, <6>2
        <5>2. CASE e \notin L
          BY <1>2, <1>3, <2>4, <4>2, <5>2
        <5> QED BY <5>1, <5>2
      <4> QED BY <2>2, <3>1, <4>1, <4>2
    <3> QED BY <3>2, <3>3
  <2> QED BY <2>3, <2>4
<1>9. TombsFrom(Y, L)
  <2> SUFFICES ASSUME NEW k \in DOMAIN Y.tombs
               PROVE  \E e \in L : e.gone /\ e.uuid = k /\ Covers(Y.tombs[k].clock, e.clock)
    BY DEF TombsFrom
  <2>1. CASE k # u
    <3>1. Y.tombs[k] = X.tombs[k] /\ k \in DOMAIN X.tombs
      BY <1>1, <2>1
    <3>2. PICK e \in K : e.gone /\ e.uuid = k /\ Covers(X.tombs[k].clock, e.clock)
      BY <3>1 DEF Good, TombsFrom
    <3>3. e \in L
      BY <1>2, <2>1, <3>2
    <3> QED BY <3>1, <3>2, <3>3
  <2>2. CASE k = u
    <3>1. Y.tombs[k].clock = c /\ k \notin DOMAIN Y.live
      BY <2>2, ClockInTyped
    <3>2. gone
      BY <1>1, <2>2, <3>1
    <3> QED BY <1>2, <1>3, <2>2, <3>1, <3>2
  <2> QED BY <2>1, <2>2
<1>10. BasesBelow(Y)
  BY <1>1, <1>4, ClockInTyped, CoversFacts DEF Good, BasesBelow
<1>11. CopiesFrom(Y)
  <2> SUFFICES ASSUME NEW k \in Uuids(Y) \ Items
               PROVE  /\ k.from \in Uuids(Y)
                      /\ Covers(ClockIn(Y, k.from), k.clock)
                      /\ ~Covers(k.clock, ClockIn(Y, k.from))
    BY DEF CopiesFrom
  <2>1. /\ k.from \in Uuids(X)
        /\ Covers(ClockIn(X, k.from), k.clock)
        /\ ~Covers(k.clock, ClockIn(X, k.from))
    BY <1>1 DEF Good, CopiesFrom
  <2>2. k.clock \in Clocks
    BY <1>1 DEF Good, BasesBelow, Base
  <2>3. ClockIn(X, k.from) \in Clocks /\ ClockIn(Y, k.from) \in Clocks
    BY <1>1, <2>1, ClockInTyped
  <2> QED BY <1>1, <1>4, <2>1, <2>2, <2>3, CoversFacts
<1> QED BY <1>5, <1>6, <1>7, <1>8, <1>9, <1>10, <1>11 DEF Good

\* A change that was not known anywhere does not undo a live credential.
LEMMA ChangeFits ==
  ASSUME NEW W, NEW X, CopyTyped(X, W), NEW Y, CopyTyped(Y, W), NEW v, NEW u,
         NEW gone \in BOOLEAN, NEW m \in Macs, ViewsChanged(X, Y, v, u, gone, m),
         NEW A, ChangesTyped(A), Fits(X, A), NEW K, Good(X, K),
         \A e \in A : e.mac = m => e \in K
  PROVE  Fits(Y, A)
<1>1. /\ u \in DOMAIN X.live /\ DOMAIN Y.live \subseteq DOMAIN X.live
      /\ \A k \in DOMAIN Y.live : k # u => Y.live[k] = X.live[k]
      /\ Covers(ClockIn(Y, u), ClockIn(X, u))
      /\ \A n \in Macs : n # m => ClockIn(Y, u)[n] = ClockIn(X, u)[n]
  BY DEF ViewsChanged
<1> SUFFICES ASSUME NEW e \in A, e.uuid \in DOMAIN Y.live
             PROVE  /\ Y.live[e.uuid].clock[e.mac] >= e.clock[e.mac]
                         => Covers(Y.live[e.uuid].clock, e.clock)
                    /\ e.gone => Y.live[e.uuid].clock[e.mac] < e.clock[e.mac]
  BY DEF Fits
<1>2. e.mac \in Macs /\ e.clock \in Clocks
  BY DEF ChangesTyped
<1>3. /\ X.live[e.uuid].clock[e.mac] >= e.clock[e.mac]
           => Covers(X.live[e.uuid].clock, e.clock)
      /\ e.gone => X.live[e.uuid].clock[e.mac] < e.clock[e.mac]
  BY <1>1 DEF Fits
<1>4. CASE e.uuid # u
  BY <1>1, <1>3, <1>4
<1>5. CASE e.uuid = u
  <2>1. PICK a \in Clocks : a = X.live[u].clock /\ a = ClockIn(X, u)
    BY <1>1, ClockInTyped
  <2>2. PICK c \in Clocks : c = Y.live[u].clock /\ c = ClockIn(Y, u)
    BY <1>5, ClockInTyped
  <2>3. Covers(c, a) /\ \A n \in Macs : n # m => c[n] = a[n]
    BY <1>1, <2>1, <2>2
  <2>4. CASE e.mac # m
    <3>1. c[e.mac] = a[e.mac]
      BY <1>2, <2>3, <2>4
    <3>2. Covers(a, e.clock) => Covers(c, e.clock)
      BY <1>2, <2>3, CoversFacts
    <3> QED BY <1>3, <1>5, <2>1, <2>2, <3>1, <3>2
  <2>5. CASE e.mac = m
    <3>1. e \in K
      BY <2>5
    <3>2. Covers(a, e.clock) /\ ~e.gone
      BY <1>1, <1>5, <2>1, <3>1 DEF Good, ClocksHave, DeletesHave, CopyTyped, Apart
    <3>3. Covers(c, e.clock)
      BY <1>2, <2>3, <3>2, CoversFacts
    <3> QED BY <1>5, <2>2, <3>2, <3>3
  <2> QED BY <2>4, <2>5
<1> QED BY <1>4, <1>5

\* A change of m is not in the copies of the others.
LEMMA NewFits ==
  ASSUME NEW W, NEW Z, CopyTyped(Z, W), NEW A, Fits(Z, A),
         NEW v, CopyTyped(v, W), NEW m \in Macs, OwnedBy(Z, v, m),
         NEW e1, e1.mac = m, e1.uuid \in Uuids(v),
         e1.clock[m] = ClockIn(v, e1.uuid)[m] + 1,
         NEW B, B \subseteq A \cup {e1}
  PROVE  Fits(Z, B)
<1>1. ASSUME e1.uuid \in DOMAIN Z.live
      PROVE  /\ Z.live[e1.uuid].clock[m] < e1.clock[m]
             /\ ~(Z.live[e1.uuid].clock[m] >= e1.clock[m])
  <2>1. Z.live[e1.uuid].clock \in Clocks /\ ClockIn(v, e1.uuid) \in Clocks
    BY <1>1, ClockInTyped
  <2>2. Z.live[e1.uuid].clock[m] <= ClockIn(v, e1.uuid)[m]
    BY <1>1 DEF OwnedBy
  <2> QED BY <2>1, <2>2 DEF Clocks
<1>2. ASSUME NEW e \in B, e.uuid \in DOMAIN Z.live
      PROVE  /\ Z.live[e.uuid].clock[e.mac] >= e.clock[e.mac]
                  => Covers(Z.live[e.uuid].clock, e.clock)
             /\ e.gone => Z.live[e.uuid].clock[e.mac] < e.clock[e.mac]
  <2>1. CASE e \in A
    BY <1>2, <2>1 DEF Fits
  <2>2. CASE e = e1
    BY <1>1, <1>2, <2>2
  <2> QED BY <2>1, <2>2
<1> QED BY <1>2 DEF Fits

\* What is known of the changes of m is known to m.
LEMMA OwnKnown ==
  ASSUME NEW W, NEW V, NEW S, NEW F, NEW len \in Nat, ShapeOf(V, S, F, W, len),
         SyncInv(V, S, F, len), NEW m \in Macs
  PROVE  \A e \in AllKnown(V, S) : e.mac = m => e \in KnownBy(V, S, m)
<1>1. ASSUME NEW n \in Macs, NEW e \in KnownBy(V, S, n), e.mac = m
      PROVE  e \in KnownBy(V, S, m)
  <2>1. CASE e \in S[n].changes
    <3>1. e \in S[m].changes
      BY <1>1, <2>1 DEF SyncInv, ChangesOwned
    <3> QED BY <3>1 DEF KnownBy
  <2>2. CASE e \in Counted(V[n], n)
    <3>1. n = m
      BY <1>1, <2>2, KnownFacts
    <3> QED BY <1>1, <3>1
  <2> QED BY <1>1, <2>1, <2>2 DEF KnownBy
<1> QED BY <1>1 DEF AllKnown

\* A change does not move a clock before the stamp.
LEMMA ChangedClocks ==
  ASSUME NEW v, NEW x, NEW u, NEW gone \in BOOLEAN, Changed(v, x, u, gone)
  PROVE  Uuids(x) = Uuids(v) /\ \A k \in Uuids(v) : ClockIn(x, k) = ClockIn(v, k)
<1>1. /\ u \in DOMAIN v.live
      /\ DOMAIN x.live = IF gone THEN DOMAIN v.live \ {u} ELSE DOMAIN v.live
      /\ DOMAIN x.tombs = IF gone THEN DOMAIN v.tombs \cup {u} ELSE DOMAIN v.tombs
      /\ \A k \in DOMAIN x.live : k # u => x.live[k] = v.live[k]
      /\ \A k \in DOMAIN x.tombs : k # u => x.tombs[k] = v.tombs[k]
      /\ ClockIn(x, u) = v.live[u].clock
  BY DEF Changed
<1>2. Uuids(x) = Uuids(v)
  BY <1>1 DEF Uuids
<1>3. \A k : k # u => (k \in DOMAIN x.live <=> k \in DOMAIN v.live)
  BY <1>1
<1> QED BY <1>1, <1>2, <1>3 DEF ClockIn, Uuids

\* The vaults after a change of m.
LEMMA ChangeSync ==
  ASSUME NEW W, NEW V, NEW S, NEW F, NEW len \in Nat, ShapeOf(V, S, F, W, len),
         SyncInv(V, S, F, len), NEW m \in Macs, NEW v, v = V[m],
         NEW x, VaultTyped(x, W), Apart(x),
         NEW u, NEW gone \in BOOLEAN, Changed(v, x, u, gone),
         NEW Vn, \A n \in Macs : Vn[n] = IF n = m THEN x ELSE V[n]
  PROVE  SyncInv(Vn, S, F, len)
<1>1. PICK X : X = Stamp(v, m)
  OBVIOUS
<1>2. PICK Y : Y = Stamp(x, m)
  OBVIOUS
<1>3. PICK c : c = ClockIn(Y, u)
  OBVIOUS
<1>4. PICK A : A = AllKnown(V, S)
  OBVIOUS
<1>5. PICK B : B = AllKnown(Vn, S)
  OBVIOUS
<1>6. PICK K : K = KnownBy(V, S, m)
  OBVIOUS
<1>7. PICK L : L = KnownBy(Vn, S, m)
  OBVIOUS
<1>8. VaultTyped(v, W) /\ Apart(v)
  BY DEF ShapeOf
<1>9. ViewsChanged(X, Y, v, u, gone, m)
  BY <1>1, <1>2, <1>8, ChangedViews
<1>10. PICK e1 : Adds(Counted(x, m), Counted(v, m), e1, u, gone, c, m)
  BY <1>2, <1>3, <1>8, ChangedCounted
<1>11. /\ CopyTyped(v, W) /\ CopyTyped(X, W) /\ CopyTyped(x, W) /\ CopyTyped(Y, W)
       /\ Uuids(X) = Uuids(v) /\ Uuids(Y) = Uuids(x)
  BY <1>1, <1>2, <1>8, ViewKnows
<1>12. /\ View(V, m) = X /\ View(Vn, m) = Y /\ Vn[m] = x
       /\ \A n \in Macs : n # m => /\ View(Vn, n) = View(V, n) /\ Vn[n] = V[n]
                                   /\ KnownBy(Vn, S, n) = KnownBy(V, S, n)
  BY <1>1, <1>2 DEF View, KnownBy
<1>13. K = S[m].changes \cup Counted(v, m) /\ L = S[m].changes \cup Counted(x, m)
  BY <1>6, <1>7, <1>12 DEF KnownBy
<1>14. Adds(L, K, e1, u, gone, c, m)
  BY <1>10, <1>13 DEF Adds
<1>15. /\ ChangesTyped(A) /\ ChangesTyped(K) /\ K \subseteq A
       /\ \A n \in Macs : KnownBy(V, S, n) \subseteq A
  BY <1>4, <1>6, KnownFacts
<1>16. /\ e1 \in L /\ L \subseteq K \cup {e1}
       /\ e1.uuid = u /\ e1.mac = m /\ e1.clock = c /\ e1.gone = gone
  BY <1>14 DEF Adds
<1>17. B \subseteq A \cup {e1}
  <2>1. \A n \in Macs : KnownBy(Vn, S, n) \subseteq A \cup {e1}
    BY <1>6, <1>7, <1>12, <1>15, <1>16
  <2> QED BY <1>5, <2>1 DEF AllKnown
<1>18. Good(X, K) /\ Fits(X, A) /\ BasesBelow(v) /\ CountsNew(A)
  BY <1>4, <1>6, <1>12 DEF SyncInv, VaultsGood
<1>19. Good(Y, L) /\ Knows(Y, X)
  BY <1>3, <1>9, <1>11, <1>14, <1>15, <1>18, ChangeGood
<1>20. u \in DOMAIN v.live /\ u \in Uuids(v) /\ c[m] = ClockIn(v, u)[m] + 1
       /\ ClockIn(v, u) \in Clocks /\ c \in Clocks
  <2>1. u \in DOMAIN v.live
    BY DEF Changed
  <2>2. u \in Uuids(v) /\ u \in Uuids(Y)
    BY <1>9, <1>11, <2>1 DEF Uuids, ViewsChanged
  <2> QED BY <1>3, <1>9, <1>11, <2>1, <2>2, ClockInTyped DEF ViewsChanged
<1>21. \A Z : CopyTyped(Z, W) /\ Fits(Z, A) /\ OwnedBy(Z, v, m) => Fits(Z, B)
  BY <1>11, <1>16, <1>17, <1>20, NewFits
<1>22. \A e \in A : e.mac = m => e \in K
  BY <1>4, <1>6, OwnKnown
<1>23. Fits(Y, A)
  BY <1>9, <1>11, <1>15, <1>18, <1>22, ChangeFits
<1>24. Fits(Y, B)
  <2>1. ASSUME u \in DOMAIN Y.live
        PROVE  ~gone /\ Y.live[u].clock = c /\ Covers(c, c)
    BY <1>3, <1>9, <1>11, <1>20, <2>1, ClockInTyped, CoversFacts DEF ViewsChanged
  <2>2. ASSUME NEW e \in B, e.uuid \in DOMAIN Y.live
        PROVE  /\ Y.live[e.uuid].clock[e.mac] >= e.clock[e.mac]
                    => Covers(Y.live[e.uuid].clock, e.clock)
               /\ e.gone => Y.live[e.uuid].clock[e.mac] < e.clock[e.mac]
    <3>1. CASE e \in A
      BY <1>23, <2>2, <3>1 DEF Fits
    <3>2. CASE e = e1
      BY <1>16, <2>1, <2>2, <3>2
    <3> QED BY <1>17, <3>1, <3>2
  <2> QED BY <2>2 DEF Fits
<1>25. /\ Uuids(x) = Uuids(v)
       /\ \A k \in Uuids(v) : ClockIn(x, k) = ClockIn(v, k)
  BY ChangedClocks
<1>26. BasesBelow(x)
  BY <1>18, <1>25 DEF BasesBelow
<1>27. \A Z : OwnedBy(Z, v, m) => OwnedBy(Z, x, m)
  BY <1>25 DEF OwnedBy
<1>28. VaultsGood(Vn, S)
  <2>1. ASSUME NEW n \in Macs, n # m
        PROVE  /\ Good(View(Vn, n), KnownBy(Vn, S, n)) /\ BasesBelow(Vn[n])
               /\ Fits(View(Vn, n), B)
    <3>1. /\ Good(View(V, n), KnownBy(V, S, n)) /\ BasesBelow(V[n])
          /\ Fits(View(V, n), A)
      BY <1>4 DEF SyncInv, VaultsGood
    <3>2. CopyTyped(View(V, n), W) /\ OwnedBy(View(V, n), v, m)
      BY <2>1, ViewKnows DEF ShapeOf, View, SyncInv, CountsOwned
    <3> QED BY <1>12, <1>21, <2>1, <3>1, <3>2
  <2>2. /\ Good(View(Vn, m), KnownBy(Vn, S, m)) /\ BasesBelow(Vn[m])
        /\ Fits(View(Vn, m), B)
    BY <1>7, <1>12, <1>19, <1>24, <1>26
  <2> QED BY <1>5, <2>1, <2>2 DEF VaultsGood
<1>29. FilesGood(F, B, len)
  <2>1. \A i \in 1..len : /\ Good(F[i], F[i].seen.changes) /\ Fits(F[i], A)
                          /\ OwnedBy(F[i], v, m) /\ CopyTyped(F[i], W)
    BY <1>4 DEF SyncInv, FilesGood, CountsOwned, ShapeOf
  <2> QED BY <1>21, <2>1 DEF FilesGood
<1>30. CountsOwned(Vn, F, len)
  <2>1. ASSUME NEW a \in Macs, NEW n \in Macs, a # n
        PROVE  OwnedBy(View(Vn, a), Vn[n], n)
    <3>1. OwnedBy(View(V, a), V[n], n)
      BY <2>1 DEF SyncInv, CountsOwned
    <3>2. CASE a = m
      <4>1. /\ \A k \in DOMAIN Y.live : k # u => Y.live[k] = X.live[k]
            /\ DOMAIN Y.live \subseteq DOMAIN X.live
            /\ ClockIn(Y, u)[n] = ClockIn(X, u)[n]
        BY <1>9, <2>1, <3>2 DEF ViewsChanged
      <4>2. \A k \in DOMAIN Y.live : Y.live[k].clock[n] = X.live[k].clock[n]
        BY <1>11, <4>1, ClockInTyped
      <4>3. OwnedBy(X, V[n], n)
        BY <1>12, <3>1, <3>2
      <4>4. OwnedBy(Y, V[n], n)
        BY <4>1, <4>2, <4>3 DEF OwnedBy
      <4> QED BY <1>12, <2>1, <3>2, <4>4
    <3>3. CASE a # m /\ n = m
      BY <1>12, <1>27, <3>1, <3>3
    <3>4. CASE a # m /\ n # m
      BY <1>12, <3>1, <3>4
    <3> QED BY <3>2, <3>3, <3>4
  <2>2. ASSUME NEW i \in 1..len, NEW n \in Macs PROVE OwnedBy(F[i], Vn[n], n)
    <3>1. OwnedBy(F[i], V[n], n)
      BY DEF SyncInv, CountsOwned
    <3> QED BY <1>12, <1>27, <3>1
  <2> QED BY <2>1, <2>2 DEF CountsOwned
<1>31. CountsNew(B)
  <2>1. Base(u) \in Clocks /\ ClockIn(v, u)[m] >= Base(u)[m]
    BY <1>18, <1>20 DEF BasesBelow, Covers
  <2>2. c[m] > Base(u)[m]
    BY <1>20, <2>1 DEF Clocks
  <2> QED BY <1>16, <1>17, <1>18, <2>2 DEF CountsNew
<1>32. FilesKnown(Vn, S, F, len)
  <2>1. ASSUME NEW n \in Macs, NEW i \in S[n].files PROVE Knows(View(Vn, n), F[i])
    <3>1. Knows(View(V, n), F[i]) /\ CopyTyped(F[i], W)
      BY DEF SyncInv, FilesKnown, ShapeOf, SeenShape
    <3>2. CASE n = m
      BY <1>11, <1>12, <1>19, <3>1, <3>2, KnowsFacts
    <3>3. CASE n # m
      BY <1>12, <3>1, <3>3
    <3> QED BY <3>2, <3>3
  <2> QED BY <2>1 DEF SyncInv, FilesKnown
<1>33. ChangesOwned(S, F, len)
  BY DEF SyncInv
<1> QED BY <1>5, <1>28, <1>29, <1>30, <1>31, <1>32, <1>33 DEF SyncInv

\* B has a change for each one of A.
Keeps(B, A) ==
  \A e \in A : \E f \in B : f.uuid = e.uuid /\ f.clock = e.clock /\ (e.gone => f.gone)

\* A race stays a race.
LEMMA RaceStays == ASSUME NEW A, NEW B, Keeps(B, A), Raced(A) PROVE Raced(B)
<1>1. PICK e \in A, f \in A : e.gone /\ e.uuid = f.uuid /\ Concurrent(e.clock, f.clock)
  BY DEF Raced
<1>2. PICK g \in B : g.uuid = e.uuid /\ g.clock = e.clock /\ g.gone
  BY <1>1 DEF Keeps
<1>3. PICK h \in B : h.uuid = f.uuid /\ h.clock = f.clock
  BY DEF Keeps
<1> QED BY <1>1, <1>2, <1>3 DEF Raced

\* A change of the owner keeps a race.
LEMMA ChangeRaced ==
  ASSUME ShapeInv, NEW m \in Macs, NEW u, NEW gone \in BOOLEAN,
         NEW x, x = vault'[m], Changed(vault[m], x, u, gone), VaultShape(x, time'),
         \A n \in Macs : n # m => vault'[n] = vault[n], seen' = seen,
         VaultShape(vault[m], time'), DeleteRaced
  PROVE  Raced(AllKnown(vault', seen'))
<1>1. PICK v : v = vault[m]
  OBVIOUS
<1>2. PICK W : W = Timely(time')
  OBVIOUS
<1>3. VaultTyped(v, W) /\ Apart(v) /\ VaultTyped(x, W) /\ Apart(x)
  BY <1>1, <1>2 DEF VaultShape
<1>4. PICK Y : Y = Stamp(x, m)
  OBVIOUS
<1>5. PICK c : c = ClockIn(Y, u)
  OBVIOUS
<1>6. PICK e1 : Adds(Counted(x, m), Counted(v, m), e1, u, gone, c, m)
  BY <1>1, <1>3, <1>4, <1>5, ChangedCounted
<1>7. \A n \in Macs : n # m => KnownBy(vault', seen', n) = KnownBy(vault, seen, n)
  BY DEF KnownBy
<1>8. /\ KnownBy(vault, seen, m) = seen[m].changes \cup Counted(v, m)
      /\ KnownBy(vault', seen', m) = seen[m].changes \cup Counted(x, m)
  BY <1>1 DEF KnownBy
<1>9. Keeps(KnownBy(vault', seen', m), KnownBy(vault, seen, m))
  BY <1>6, <1>8 DEF Keeps, Adds
<1>10. \A n \in Macs : Keeps(KnownBy(vault', seen', n), KnownBy(vault, seen, n))
  BY <1>7, <1>9 DEF Keeps
<1>11. PICK A : A = AllKnown(vault, seen)
  OBVIOUS
<1>12. PICK B : B = AllKnown(vault', seen')
  OBVIOUS
<1>13. \A n \in Macs : KnownBy(vault', seen', n) \subseteq B
  BY <1>12 DEF AllKnown
<1>14. Keeps(B, A)
  <2> SUFFICES ASSUME NEW e \in A
               PROVE  \E f \in B : f.uuid = e.uuid /\ f.clock = e.clock /\ (e.gone => f.gone)
    BY DEF Keeps
  <2>1. PICK n \in Macs : e \in KnownBy(vault, seen, n)
    BY <1>11 DEF AllKnown
  <2>2. PICK f \in KnownBy(vault', seen', n) :
          f.uuid = e.uuid /\ f.clock = e.clock /\ (e.gone => f.gone)
    BY <1>10, <2>1 DEF Keeps
  <2> QED BY <1>13, <2>2
<1>15. Raced(A)
  BY <1>11, ShapeGives DEF Everything
<1> QED BY <1>12, <1>14, <1>15, RaceStays

\* A change keeps a race.
LEMMA ChangeKeepsRace ==
  ASSUME ShapeInv, ShapeInv', NEW m \in Macs, NEW t \in 1..MaxTime, ChangesAt(m, t),
         NEW u, NEW gone \in BOOLEAN, NEW x, x = vault'[m], Changed(vault[m], x, u, gone),
         \A n \in Macs : n # m => vault'[n] = vault[n], DeleteRaced
  PROVE  DeleteRaced'
<1>1. seen' = seen
  BY DEF ChangesAt
<1>2. VaultShape(x, time') /\ VaultShape(vault[m], time')
  BY NowTimely, TypedLater DEF ShapeInv
<1>3. Raced(AllKnown(vault', seen'))
  BY <1>1, <1>2, ChangeRaced
<1>4. \A n \in Macs : KnownBy(vault', seen', n) = Known(n)'
  BY DEF KnownBy, Known
<1> QED BY <1>3, <1>4 DEF DeleteRaced, Raced, AllKnown

\* A change of the owner keeps what the vaults have.
LEMMA ChangeStep ==
  ASSUME ShapeInv, ShapeInv', NEW m \in Macs, NEW t \in 1..MaxTime, ChangesAt(m, t),
         NEW u, NEW gone \in BOOLEAN, NEW x, x = vault'[m], Changed(vault[m], x, u, gone),
         \A n \in Macs : n # m => vault'[n] = vault[n],
         DeleteRaced \/ SyncHolds
  PROVE  (DeleteRaced \/ SyncHolds)'
<1>1. seen' = seen /\ files' = files
  BY DEF ChangesAt
<1>2. PICK W : W = Timely(time')
  OBVIOUS
<1>3. /\ \A v : VaultShape(v, time) => VaultShape(v, time')
      /\ \A f, n : FileShape(f, time, n) => FileShape(f, time', n)
  BY NowTimely, TypedLater
<1>4. VaultShape(x, time') /\ VaultShape(vault[m], time')
  BY <1>3 DEF ShapeInv
<1>5. PICK len \in Nat : len = Len(files)
  BY ShapeGives
<1>6. ShapeOf(vault, seen, files, W, len)
  BY <1>2, <1>3, <1>5 DEF ShapeInv, ShapeOf, VaultShape, FileShape, CopyTyped
<1>7. CASE DeleteRaced
  BY <1>7, ChangeKeepsRace
<1>8. CASE SyncHolds
  <2>1. PICK Vn : Vn = vault'
    OBVIOUS
  <2>2. PICK v : v = vault[m]
    OBVIOUS
  <2>3. \A n \in Macs : Vn[n] = IF n = m THEN x ELSE vault[n]
    BY <2>1
  <2>4. SyncInv(vault, seen, files, len)
    BY <1>5, <1>8 DEF SyncHolds
  <2>5. VaultTyped(x, W) /\ Apart(x) /\ Changed(v, x, u, gone)
    BY <1>2, <1>4, <2>2 DEF VaultShape
  <2>6. SyncInv(Vn, seen, files, len)
    BY <1>6, <2>2, <2>3, <2>4, <2>5, ChangeSync
  <2>7. SyncHolds'
    BY <1>1, <1>5, <2>1, <2>6 DEF SyncHolds
  <2> QED BY <2>7
<1> QED BY <1>7, <1>8

\* A sync forgets no change.
LEMMA SyncRaced ==
  ASSUME ShapeInv, DeleteRaced, NEW m \in Macs,
         \/ ReplaceSyncedFile(m)
         \/ \E i \in 0..Len(files) : SyncPulls(m, i) \/ SyncStops(m, i) \/ SyncPushes(m, i)
  PROVE  DeleteRaced'
<1>1. DOMAIN vault = Macs /\ DOMAIN seen = Macs
  BY DEF ShapeInv
<1>2. ASSUME NEW v, NEW known, Keep(m, v, known), Known(m) \subseteq known.changes
      PROVE  DeleteRaced'
  <2>1. /\ vault' = [vault EXCEPT ![m] = v] /\ seen' = [seen EXCEPT ![m] = known]
    BY <1>2 DEF Keep
  <2>2. /\ seen'[m].changes = known.changes
        /\ \A n \in Macs : n # m => vault'[n] = vault[n] /\ seen'[n] = seen[n]
    BY <1>1, <2>1
  <2>3. \A n \in Macs : n # m => Known(n)' = Known(n)
    BY <2>2 DEF Known
  <2>4. Known(m) \subseteq Known(m)'
    BY <1>2, <2>2 DEF Known
  <2>5. \A n \in Macs : Known(n) \subseteq Known(n)'
    BY <2>3, <2>4
  <2>6. PICK n \in Macs, o \in Macs : \E e \in Known(n), f \in Known(o) :
          e.gone /\ e.uuid = f.uuid /\ Concurrent(e.clock, f.clock)
    BY DEF DeleteRaced
  <2>7. \E e \in Known(n)', f \in Known(o)' :
          e.gone /\ e.uuid = f.uuid /\ Concurrent(e.clock, f.clock)
    BY <2>5, <2>6
  <2> QED BY <2>7 DEF DeleteRaced
<1>3. ASSUME NEW v, NEW known, Push(m, v, known),
             Known(m) \subseteq known.changes \cup Counted(v, m)
      PROVE  DeleteRaced'
  <2>1. PICK K : K = known.changes \cup Counted(v, m)
    OBVIOUS
  <2>2. PICK N : N = known.files \cup {Len(files) + 1}
    OBVIOUS
  <2>3. PICK k : k = [changes |-> K, files |-> N]
    OBVIOUS
  <2>4. PICK x : x = Stamp(v, m)
    OBVIOUS
  <2>5. Keep(m, x, k)
    BY <1>3, <2>1, <2>2, <2>3, <2>4 DEF Push
  <2>6. Known(m) \subseteq k.changes
    BY <1>3, <2>1, <2>3
  <2> QED BY <1>2, <2>5, <2>6
<1>4. CASE ReplaceSyncedFile(m)
  BY <1>3, <1>4 DEF ReplaceSyncedFile, Known
<1>5. ASSUME NEW i \in 0..Len(files), SyncPulls(m, i) \/ SyncStops(m, i) \/ SyncPushes(m, i)
      PROVE  DeleteRaced'
  <2>1. PICK v : v = Merged(m, i)
    OBVIOUS
  <2>2. PICK known : known = SeenMerged(m, i)
    OBVIOUS
  <2>3. ASSUME MustMerge(m, i) PROVE Known(m) \subseteq known.changes
    <3>1. PICK K : K = Known(m) \cup files[i].seen.changes
      OBVIOUS
    <3>2. known.changes = K
      BY <2>2, <2>3, <3>1 DEF SeenMerged
    <3> QED BY <3>1, <3>2
  <2>4. ASSUME ~MustMerge(m, i) PROVE v = vault[m] /\ known = seen[m]
    BY <2>1, <2>2, <2>4 DEF Merged, SeenMerged
  <2>5. CASE SyncPulls(m, i) \/ SyncStops(m, i)
    <3>1. Keep(m, v, known) /\ MustMerge(m, i)
      BY <2>1, <2>2, <2>5 DEF SyncPulls, SyncStops
    <3> QED BY <1>2, <2>3, <3>1
  <2>6. CASE SyncPushes(m, i)
    <3>1. Push(m, v, known)
      BY <2>1, <2>2, <2>6 DEF SyncPushes
    <3>2. Known(m) \subseteq known.changes \cup Counted(v, m)
      BY <2>3, <2>4 DEF Known
    <3> QED BY <1>3, <3>1, <3>2
  <2> QED BY <1>5, <2>5, <2>6
<1> QED BY <1>4, <1>5

\* The copy that every Mac has at the start.
LEMMA StartGood ==
  ASSUME NEW X, DOMAIN X.live = Items, DOMAIN X.tombs = {},
         \A u \in Items : X.live[u] = Fresh,
         NEW K, \A e \in K : /\ e.uuid \in Items /\ e.mac = Creator
                             /\ e.clock = Fresh.clock /\ e.gone = FALSE,
         \A u \in Items : \E e \in K : e.uuid = u
  PROVE  /\ Good(X, K) /\ Fits(X, K) /\ CountsNew(K)
         /\ \A Z, n : n \in Macs /\ DOMAIN Z.live = Items
                      /\ (\A u \in Items : Z.live[u] = Fresh)
                      => OwnedBy(X, Z, n)
         /\ \A Z : DOMAIN Z.live = Items /\ DOMAIN Z.tombs = {}
                   /\ (\A u \in Items : Z.live[u] = Fresh) => Knows(Z, X)
<1>1. PICK c : c = Fresh.clock
  OBVIOUS
<1>2. c \in Clocks /\ Creator \in Macs /\ c[Creator] = 1 /\ Covers(c, c)
      /\ ZeroClock \in Clocks /\ \A n \in Macs : ZeroClock[n] = 0
  <2>1. c = [ZeroClock EXCEPT ![Creator] = 1] /\ Creator \in Macs /\ ZeroClock \in Clocks
    BY <1>1, StartTyped
  <2>2. c \in Clocks /\ c[Creator] = 1 /\ \A n \in Macs : ZeroClock[n] = 0
    BY <2>1 DEF Clocks, ZeroClock
  <2> QED BY <2>1, <2>2, CoversFacts
<1>3. Uuids(X) = Items /\ \A u \in Items : X.live[u].clock = c /\ ClockIn(X, u) = c
                                            /\ Base(u) = ZeroClock
  BY <1>1 DEF Uuids, ClockIn, Base
<1>4. \A e \in K : e.uuid \in Items /\ e.mac = Creator /\ e.clock = c /\ ~e.gone
  BY <1>1
<1>5. Covers(c, ZeroClock)
  BY <1>2 DEF Covers, Clocks
<1>6. ClocksHave(X, K) /\ DeletesHave(X, K) /\ TombsFrom(X, K)
  BY <1>2, <1>3, <1>4 DEF ClocksHave, DeletesHave, TombsFrom
<1>7. CountsFrom(X, K)
  BY <1>2, <1>3, <1>4 DEF CountsFrom
<1>8. CopiesFrom(X) /\ BasesBelow(X)
  BY <1>2, <1>3, <1>5 DEF CopiesFrom, BasesBelow
<1>9. Fits(X, K) /\ CountsNew(K)
  BY <1>2, <1>3, <1>4 DEF Fits, CountsNew
<1>10. ASSUME NEW Z, DOMAIN Z.live = Items, \A u \in Items : Z.live[u] = Fresh,
              NEW u \in Items
       PROVE  u \in Uuids(Z) /\ ClockIn(Z, u) = c
  BY <1>1, <1>10 DEF Uuids, ClockIn
<1>11. ASSUME NEW Z, NEW n \in Macs, DOMAIN Z.live = Items,
              \A u \in Items : Z.live[u] = Fresh
       PROVE  OwnedBy(X, Z, n)
  BY <1>2, <1>3, <1>10, <1>11 DEF OwnedBy, Clocks
<1>12. ASSUME NEW Z, DOMAIN Z.live = Items, DOMAIN Z.tombs = {},
              \A u \in Items : Z.live[u] = Fresh
       PROVE  Knows(Z, X)
  BY <1>2, <1>3, <1>10, <1>12 DEF Knows
<1> QED BY <1>6, <1>7, <1>8, <1>9, <1>11, <1>12 DEF Good

\* The vaults have what they know at the start.
LEMMA SyncInit == ASSUME Init PROVE SyncHolds
<1>1. PICK v : v = vault[Creator]
  OBVIOUS
<1>2. PICK f : f = files[1]
  OBVIOUS
<1>3. PICK K : K = {Change(v, Creator, u) : u \in Items}
  OBVIOUS
<1>4. /\ \A m \in Macs : vault[m] = v
      /\ VaultTyped(v, Timely([m \in Macs |-> 0])) /\ Unstamped(v) = {}
      /\ DOMAIN v.live = Items /\ DOMAIN v.tombs = {}
      /\ \A u \in Items : v.live[u] = Fresh
  <2>1. Creator \in Macs
    BY StartTyped
  <2>2. v = [live |-> [u \in Items |-> Fresh], tombs |-> <<>>,
             stamps |-> [u \in Items |-> Fresh.version]]
        /\ \A m \in Macs : vault[m] = v
    BY <1>1, <2>1 DEF Init
  <2> QED BY <2>2, StartVault DEF VaultShape
<1>5. /\ Len(files) = 1 /\ f.live = v.live /\ DOMAIN f.tombs = {}
      /\ f.seen.files = {1} /\ f.seen.changes = K
  <2>1. DOMAIN <<>> = {}
    OBVIOUS
  <2> QED BY <1>1, <1>2, <1>3, <2>1, StartFile
<1>6. \A m \in Macs : seen[m].changes = K /\ seen[m].files = {1}
  <2>1. \A m \in Macs : seen[m] = f.seen
    BY <1>2 DEF Init
  <2> QED BY <1>5, <2>1
<1>7. /\ \A e \in K : /\ e.uuid \in Items /\ e.mac = Creator
                      /\ e.clock = Fresh.clock /\ e.gone = FALSE
      /\ \A u \in Items : \E e \in K : e.uuid = u
  <2>1. \A u \in Items : /\ Change(v, Creator, u).uuid = u
                         /\ Change(v, Creator, u).mac = Creator
                         /\ Change(v, Creator, u).clock = Fresh.clock
                         /\ Change(v, Creator, u).gone = FALSE
    BY <1>4 DEF Change
  <2> QED BY <1>3, <2>1
<1>8. ASSUME NEW m \in Macs
      PROVE  /\ KnownBy(vault, seen, m) = K
             /\ DOMAIN View(vault, m).live = Items /\ DOMAIN View(vault, m).tombs = {}
             /\ \A u \in Items : View(vault, m).live[u] = Fresh
  <2>1. PICK s : s = Stamp(v, m)
    OBVIOUS
  <2>2. /\ DOMAIN s.live = Items /\ DOMAIN s.tombs = {}
        /\ \A u \in Items : s.live[u] = Fresh
    BY <1>4, <2>1, StampFacts
  <2>3. Counted(v, m) = {}
    BY <1>4 DEF Counted
  <2> QED BY <1>4, <1>6, <2>1, <2>2, <2>3 DEF KnownBy, View
<1>9. AllKnown(vault, seen) = K
  <2>1. Macs # {}
    BY MergeAssumption
  <2> QED BY <1>8, <2>1 DEF AllKnown
<1>10. \A m \in Macs : /\ Good(View(vault, m), K) /\ Fits(View(vault, m), K)
                       /\ \A n \in Macs : OwnedBy(View(vault, m), vault[n], n)
                       /\ Knows(View(vault, m), f)
  <2> TAKE m \in Macs
  <2>1. PICK X : X = View(vault, m)
    OBVIOUS
  <2>2. DOMAIN X.live = Items /\ DOMAIN X.tombs = {} /\ \A u \in Items : X.live[u] = Fresh
    BY <1>8, <2>1
  <2>3. DOMAIN f.live = Items /\ DOMAIN f.tombs = {} /\ \A u \in Items : f.live[u] = Fresh
    BY <1>4, <1>5
  <2>4. Good(X, K) /\ Fits(X, K) /\ \A n \in Macs : OwnedBy(X, v, n)
    BY <1>4, <1>7, <2>2, StartGood
  <2>5. Knows(X, f)
    BY <1>7, <2>2, <2>3, StartGood
  <2> QED BY <1>4, <2>1, <2>4, <2>5
<1>11. /\ Good(v, K) /\ CountsNew(K)
       /\ Good(f, K) /\ Fits(f, K) /\ \A n \in Macs : OwnedBy(f, v, n)
       /\ Knows(f, f)
  <2>1. DOMAIN f.live = Items /\ DOMAIN f.tombs = {} /\ \A u \in Items : f.live[u] = Fresh
    BY <1>4, <1>5
  <2>2. Good(v, K) /\ CountsNew(K)
    BY <1>4, <1>7, StartGood
  <2>3. Good(f, K) /\ Fits(f, K) /\ Knows(f, f) /\ \A n \in Macs : OwnedBy(f, v, n)
    BY <1>4, <1>7, <2>1, StartGood
  <2> QED BY <2>2, <2>3
<1>12. VaultsGood(vault, seen)
  BY <1>4, <1>8, <1>9, <1>10, <1>11 DEF VaultsGood, Good
<1>13. PICK F : F = files
  OBVIOUS
<1>14. \A i \in 1..1 : F[i] = f
  BY <1>2, <1>13
<1>15. FilesGood(F, K, 1)
  BY <1>5, <1>11, <1>14 DEF FilesGood
<1>16. CountsOwned(vault, F, 1)
  BY <1>4, <1>10, <1>11, <1>14 DEF CountsOwned
<1>17. ChangesOwned(seen, F, 1)
  BY <1>5, <1>6, <1>7, <1>14, StartTyped DEF ChangesOwned
<1>18. FilesKnown(vault, seen, F, 1)
  BY <1>5, <1>6, <1>10, <1>11, <1>14 DEF FilesKnown
<1> QED BY <1>5, <1>9, <1>11, <1>12, <1>13, <1>15, <1>16, <1>17, <1>18 DEF SyncHolds, SyncInv

\* Every step keeps a race, or leaves the vaults what they know.
LEMMA SyncNext ==
  ASSUME ItemsAreNoCopies, ShapeInv, ShapeInv', [Next]_vars, DeleteRaced \/ SyncHolds
  PROVE  (DeleteRaced \/ SyncHolds)'
<1>1. ASSUME NEW m \in Macs,
             \/ ReplaceSyncedFile(m)
             \/ \E i \in 0..Len(files) : SyncPulls(m, i) \/ SyncStops(m, i) \/ SyncPushes(m, i)
      PROVE  (DeleteRaced \/ SyncHolds)'
  <2>1. CASE DeleteRaced
    BY <1>1, <2>1, SyncRaced
  <2>2. CASE ~DeleteRaced
    BY <1>1, <2>2, SyncStep
  <2> QED BY <2>1, <2>2
<1>2. ASSUME NEW m \in Macs, NEW t \in 1..MaxTime, NEW u \in DOMAIN vault[m].live,
             Delete(m, u, t)
      PROVE  (DeleteRaced \/ SyncHolds)'
  <2>1. PICK x : x = vault'[m]
    OBVIOUS
  <2>2. PICK v : v = vault[m]
    OBVIOUS
  <2>3. /\ Changed(v, x, u, TRUE) /\ \A n \in Macs : n # m => vault'[n] = vault[n]
        /\ ChangesAt(m, t)
    BY <1>2, <2>1, <2>2, DeleteChanged, DeleteDoes DEF Delete
  <2> QED BY <2>1, <2>2, <2>3, ChangeStep
<1>3. ASSUME NEW m \in Macs, NEW t \in 1..MaxTime, NEW u \in DOMAIN vault[m].live,
             NEW content \in Contents, Edit(m, u, t, content)
      PROVE  (DeleteRaced \/ SyncHolds)'
  <2>1. PICK x : x = vault'[m]
    OBVIOUS
  <2>2. PICK v : v = vault[m]
    OBVIOUS
  <2>3. /\ Changed(v, x, u, FALSE) /\ \A n \in Macs : n # m => vault'[n] = vault[n]
        /\ ChangesAt(m, t)
    BY <1>3, <2>1, <2>2, EditChanged, EditDoes DEF Edit
  <2> QED BY <2>1, <2>2, <2>3, ChangeStep
<1>4. CASE UNCHANGED vars
  BY <1>4 DEF vars, SyncHolds, DeleteRaced, Known
<1> QED BY <1>1, <1>2, <1>3, <1>4 DEF Next

\* Unless a delete raced with another change, the clocks of every vault and
\* file are those of the changes that it merged.
THEOREM SyncInvHolds ==
  ASSUME ItemsAreNoCopies PROVE Spec => [](DeleteRaced \/ SyncHolds)
<1>1. Init => DeleteRaced \/ SyncHolds
  BY SyncInit
<1>2. ShapeInv /\ ShapeInv' /\ (DeleteRaced \/ SyncHolds) /\ [Next]_vars
        => (DeleteRaced \/ SyncHolds)'
  BY SyncNext
<1> QED BY <1>1, <1>2, ShapeHolds, PTL DEF Spec

\* A Mac that knows of a delete does not show the credential again, whichever
\* old file its folder shows later (merge.rs, deleted_here and deleted_there).
THEOREM DeletesStay ==
  ASSUME ItemsAreNoCopies PROVE Spec => []DeletedStaysDeleted
<1>1. ShapeInv /\ (DeleteRaced \/ SyncHolds) => DeletedStaysDeleted
  <2> SUFFICES ASSUME ShapeInv, SyncHolds, NEW m \in Macs, NEW e \in seen[m].changes, e.gone
               PROVE  e.uuid \notin DOMAIN vault[m].live
    BY DEF DeletedStaysDeleted
  <2>1. PICK v : v = vault[m]
    OBVIOUS
  <2>2. VaultTyped(v, Timely(time)) /\ Apart(v)
    BY <2>1 DEF ShapeInv, VaultShape
  <2>3. PICK X : X = View(vault, m)
    OBVIOUS
  <2>4. DOMAIN X.tombs = DOMAIN v.tombs
    BY <2>1, <2>2, <2>3, ViewKnows DEF View
  <2>5. e \in KnownBy(vault, seen, m)
    BY DEF KnownBy
  <2>6. e.uuid \in DOMAIN X.tombs
    BY <2>3, <2>5 DEF SyncHolds, SyncInv, VaultsGood, Good, DeletesHave
  <2> QED BY <2>1, <2>2, <2>4, <2>6 DEF Apart
<1> QED BY <1>1, ShapeHolds, SyncInvHolds, PTL

\* The merge of Y into X finds nothing new.
Inert(X, Y) ==
  /\ \A u \in DOMAIN Y.live \ DOMAIN X.live : Deletes(X, u, Y.live[u])
  /\ \A u \in DOMAIN X.live \ DOMAIN Y.live : ~Deletes(Y, u, X.live[u])
  /\ \A u \in DOMAIN X.live \cap DOMAIN Y.live : Covers(X.live[u].clock, Y.live[u].clock)

\* A merge that finds nothing new leaves the credentials as they are.
LEMMA MergeInert ==
  ASSUME NEW W, NEW v, VaultTyped(v, W), Apart(v), NEW Y, CopyTyped(Y, W),
         NEW m \in Macs, NEW X, X = Stamp(v, m), Inert(X, Y)
  PROVE  Merge(v, m, Y).live = X.live
<1>1. CopyTyped(X, W) /\ VaultTyped(X, W)
  BY ViewKnows
<1>2. PICK S : S = DOMAIN X.live \cup DOMAIN Y.live
  OBVIOUS
<1>3. IsFiniteSet(S)
  BY <1>1, <1>2, FS_Union DEF CopyTyped, Typed
<1>4. PICK f : MergesTo(f, S, X, Y) /\ Merge(v, m, Y) = MergeTombs(f[S], X, Y)
  BY <1>2, <1>3, MergeUnfolds
<1>5. ASSUME NEW u \in S PROVE MergeRecord(X, u, X, Y) = X
  <2>1. CASE u \notin DOMAIN X.live
    <3>1. Deletes(X, u, Y.live[u])
      BY <1>2, <2>1 DEF Inert
    <3> QED BY <2>1, <3>1 DEF MergeRecord
  <2>2. CASE u \in DOMAIN X.live /\ u \notin DOMAIN Y.live
    <3>1. ~Deletes(Y, u, X.live[u])
      BY <2>2 DEF Inert
    <3> QED BY <2>2, <3>1 DEF MergeRecord
  <2>3. CASE u \in DOMAIN X.live /\ u \in DOMAIN Y.live
    <3>1. Covers(X.live[u].clock, Y.live[u].clock)
      BY <2>3 DEF Inert
    <3>2. ~Concurrent(X.live[u].clock, Y.live[u].clock)
      BY <3>1 DEF Concurrent
    <3> QED BY <2>3, <3>1, <3>2 DEF MergeRecord
  <2> QED BY <2>1, <2>2, <2>3
<1>6. PICK bad : bad = {s \in SUBSET S : f[s] # X}
  OBVIOUS
<1>7. {} \notin bad
  BY <1>4, <1>6 DEF MergesTo
<1>8. ASSUME NEW s \in bad, s # {} PROVE s \ {NextOf(s)} \in bad
  <2>1. NextOf(s) \in s /\ s \in SUBSET S /\ f[s] # X
    BY <1>6, <1>8 DEF NextOf
  <2>2. f[s] = MergeRecord(f[s \ {NextOf(s)}], NextOf(s), X, Y)
    BY <1>4, <1>8, <2>1 DEF MergesTo
  <2>3. f[s \ {NextOf(s)}] # X
    BY <1>5, <2>1, <2>2
  <2> QED BY <1>6, <2>1, <2>3
<1>9. bad = {}
  BY <1>3, <1>6, <1>7, <1>8, SubsetInduction
<1>10. f[S] = X
  BY <1>6, <1>9
<1>11. MergeTombs(X, X, Y).live = X.live
  <2>1. PICK taken : taken = DOMAIN Y.tombs \ DOMAIN X.live
    OBVIOUS
  <2>2. PICK a : a = MergeTombs(X, X, Y).tombs
    OBVIOUS
  <2>3. X = [live |-> X.live, tombs |-> X.tombs, stamps |-> X.stamps]
    BY <1>1 DEF VaultTyped, IsCopy
  <2> QED BY <2>3 DEF MergeTombs
<1> QED BY <1>4, <1>10, <1>11

\* A vault that has all of a file finds nothing new in it.
LEMMA KnownInert ==
  ASSUME NEW W, NEW X, CopyTyped(X, W), NEW Y, CopyTyped(Y, W), Knows(X, Y),
         NEW A, ChangesTyped(A), Fits(X, A), NEW L \in SUBSET A, TombsFrom(Y, L)
  PROVE  Inert(X, Y)
<1>1. \A u \in Uuids(Y) : u \in Uuids(X) /\ Covers(ClockIn(X, u), ClockIn(Y, u))
  BY DEF Knows
<1>2. ASSUME NEW u \in DOMAIN Y.live \ DOMAIN X.live PROVE Deletes(X, u, Y.live[u])
  <2>1. u \in Uuids(Y) /\ u \in DOMAIN X.tombs
    BY <1>1, <1>2 DEF Uuids
  <2> QED BY <1>1, <1>2, <2>1, ClockInTyped DEF Deletes
<1>3. ASSUME NEW u \in DOMAIN X.live \ DOMAIN Y.live PROVE ~Deletes(Y, u, X.live[u])
  <2> SUFFICES ASSUME u \in DOMAIN Y.tombs PROVE FALSE
    BY DEF Deletes
  <2>1. PICK a \in Clocks : a = X.live[u].clock /\ a = ClockIn(X, u)
    BY <1>3, ClockInTyped
  <2>2. PICK b \in Clocks : b = Y.tombs[u].clock /\ b = ClockIn(Y, u)
    BY ClockInTyped
  <2>3. Covers(a, b)
    BY <1>1, <2>1, <2>2 DEF Uuids
  <2>4. PICK e \in L : e.gone /\ e.uuid = u /\ Covers(b, e.clock)
    BY <2>2 DEF TombsFrom
  <2>5. e \in A /\ e.mac \in Macs /\ e.clock \in Clocks
    BY DEF ChangesTyped
  <2>6. a[e.mac] < e.clock[e.mac]
    BY <1>3, <2>1, <2>4, <2>5 DEF Fits
  <2>7. Covers(a, e.clock)
    BY <2>3, <2>4, <2>5, CoversFacts
  <2>8. a[e.mac] >= e.clock[e.mac] /\ a[e.mac] \in Nat /\ e.clock[e.mac] \in Nat
    BY <2>5, <2>7 DEF Covers, Clocks
  <2> QED BY <2>6, <2>8
<1>4. ASSUME NEW u \in DOMAIN X.live \cap DOMAIN Y.live
      PROVE  Covers(X.live[u].clock, Y.live[u].clock)
  BY <1>1, ClockInTyped DEF Uuids
<1> QED BY <1>2, <1>3, <1>4 DEF Inert

\* A file that a vault has merged, itself or through another file, changes
\* nothing when the folder shows it again, and makes no conflict copy
\* (merge.rs; docs/operations/sync.md, section 6).
THEOREM OldFilesInert ==
  ASSUME ItemsAreNoCopies PROVE Spec => []OldFileInert
<1>1. ShapeInv /\ (DeleteRaced \/ SyncHolds) => OldFileInert
  <2> SUFFICES ASSUME ShapeInv, SyncHolds, NEW m \in Macs, NEW i \in seen[m].files
               PROVE  Merge(vault[m], m, files[i]).live = Stamp(vault[m], m).live
    BY DEF OldFileInert, OldFilesAreOld
  <2>1. PICK v : v = vault[m]
    OBVIOUS
  <2>2. PICK X : X = Stamp(v, m)
    OBVIOUS
  <2>3. PICK Y : Y = files[i]
    OBVIOUS
  <2>4. PICK W : W = Timely(time)
    OBVIOUS
  <2>5. PICK A : A = AllKnown(vault, seen)
    OBVIOUS
  <2>6. PICK len \in Nat : len = Len(files)
    BY ShapeGives
  <2>7. /\ ShapeOf(vault, seen, files, W, len) /\ SyncInv(vault, seen, files, len)
        /\ i \in 1..len
    BY <2>4, <2>6, ShapeGives DEF SyncHolds, ShapeInv, SeenShape
  <2>8. VaultTyped(v, W) /\ Apart(v) /\ CopyTyped(Y, W) /\ CopyTyped(X, W)
    BY <2>1, <2>2, <2>3, <2>7, ViewKnows DEF ShapeOf
  <2>9. X = View(vault, m)
    BY <2>1, <2>2 DEF View
  <2>10. Knows(X, Y) /\ Fits(X, A)
    BY <2>3, <2>5, <2>7, <2>9 DEF SyncInv, FilesKnown, VaultsGood
  <2>11. ChangesTyped(A) /\ Y.seen.changes \subseteq A
    BY <2>3, <2>5, <2>7, KnownFacts, FileKnown
  <2>12. TombsFrom(Y, Y.seen.changes)
    BY <2>3, <2>7 DEF SyncInv, FilesGood, Good
  <2>13. Inert(X, Y)
    BY <2>8, <2>10, <2>11, <2>12, KnownInert
  <2>14. Merge(v, m, Y).live = X.live
    BY <2>2, <2>8, <2>13, MergeInert
  <2> QED BY <2>1, <2>2, <2>3, <2>14
<1> QED BY <1>1, ShapeHolds, SyncInvHolds, PTL

(***************************************************************************)
(* The records that a merge gives.                                         *)
(***************************************************************************)

\* The version that lost is in the credential c.
LostIn(v, c, loser) == c \in DOMAIN v.live /\ AsLost(v.live[c], loser)

\* The merge of a credential that is live in both copies.
Settled(v, u, X, Y) ==
  LET ours == X.live[u]
      theirs == Y.live[u]
      r == v.live[u]
  IN  IF Concurrent(ours.clock, theirs.clock)
        THEN /\ r.ask = (ours.ask \/ theirs.ask)
             /\ Twins(r, ours) \/ Twins(r, theirs)
             /\ Wins(r.version, ours.version, theirs.version)
             /\ \A loser \in {ours, theirs} :
                  r.value = loser.value \/ LostIn(v, CopyOf(u, loser), loser)
        ELSE IF Covers(ours.clock, theirs.clock) THEN r = ours ELSE Alike(r, theirs)

\* Where the record of a live credential comes from.
GivesRecord(v, u, X, Y) ==
  u \in DOMAIN v.live =>
    /\ u \in DOMAIN X.live \cap DOMAIN Y.live => Settled(v, u, X, Y)
    /\ u \in DOMAIN X.live \ DOMAIN Y.live => v.live[u] = X.live[u]
    /\ u \in DOMAIN Y.live \ DOMAIN X.live => Alike(v.live[u], Y.live[u])
    /\ u \notin DOMAIN X.live \cup DOMAIN Y.live =>
         \E w, loser : CopiedFrom(u, w, loser, X, Y) /\ AsLost(v.live[u], loser)

\* In the middle of the merge, after the credentials done.
RecordsMidway(v, done, X, Y) ==
  \A u \in done \cup (DOMAIN v.live \ (DOMAIN X.live \cup DOMAIN Y.live)) :
    GivesRecord(v, u, X, Y)

\* x differs from v in the credential u only.
DiffersIn(v, x, u) ==
  /\ \A k \in DOMAIN v.live : k # u => k \in DOMAIN x.live /\ x.live[k] = v.live[k]
  /\ \A k \in DOMAIN x.live : k # u => k \in DOMAIN v.live

\* The merge of one credential leaves what the others gave.
LEMMA RecordsStay ==
  ASSUME NEW X, NEW Y, CopiesNew(X, Y), NEW v, NEW done,
         done \subseteq DOMAIN X.live \cup DOMAIN Y.live, RecordsMidway(v, done, X, Y),
         NEW u, u \notin done,
         u \in DOMAIN X.live \cup DOMAIN Y.live \/ u \notin DOMAIN v.live,
         NEW x, DiffersIn(v, x, u), GivesRecord(x, u, X, Y)
  PROVE  RecordsMidway(x, done, X, Y) /\ RecordsMidway(x, done \cup {u}, X, Y)
<1> SUFFICES ASSUME NEW k \in done \cup {u} \cup
                          (DOMAIN x.live \ (DOMAIN X.live \cup DOMAIN Y.live)),
                    k # u, k \in DOMAIN x.live
             PROVE  GivesRecord(x, k, X, Y)
  BY DEF RecordsMidway, GivesRecord
<1>1. k \in DOMAIN v.live /\ x.live[k] = v.live[k]
  BY DEF DiffersIn
<1>2. GivesRecord(v, k, X, Y)
  BY <1>1 DEF RecordsMidway
<1>3. ASSUME k \in DOMAIN X.live \cap DOMAIN Y.live,
             Concurrent(X.live[k].clock, Y.live[k].clock),
             NEW loser \in {X.live[k], Y.live[k]}, LostIn(v, CopyOf(k, loser), loser)
      PROVE  LostIn(x, CopyOf(k, loser), loser)
  <2>1. PICK c : c = CopyOf(k, loser)
    OBVIOUS
  <2>2. CopiedFrom(c, k, loser, X, Y)
    BY <1>3, <2>1 DEF CopiedFrom
  <2>3. c \notin DOMAIN X.live \cup DOMAIN Y.live /\ c \in DOMAIN v.live
    BY <1>3, <2>1, <2>2 DEF CopiesNew, Uuids, LostIn
  <2>4. c \in DOMAIN x.live /\ x.live[c] = v.live[c]
    BY <2>3 DEF DiffersIn
  <2> QED BY <1>3, <2>1, <2>4 DEF LostIn
<1>4. k \in DOMAIN X.live \cap DOMAIN Y.live => Settled(x, k, X, Y)
  BY <1>1, <1>2, <1>3 DEF GivesRecord, Settled
<1> QED BY <1>1, <1>2, <1>4 DEF GivesRecord

\* One record is set.
LEMMA SetsDiffers ==
  ASSUME NEW v, NEW x, NEW u, NEW r, Sets(v, x, u, r)
  PROVE  DiffersIn(v, x, u) /\ u \in DOMAIN x.live /\ x.live[u] = r
BY DEF Sets, DiffersIn

\* One record goes.
LEMMA DropsDiffers ==
  ASSUME NEW v, NEW x, NEW u, Drops(v, x, u)
  PROVE  DiffersIn(v, x, u) /\ u \notin DOMAIN x.live
BY DEF Drops, DiffersIn

\* The version that lost is there, whether it was before or not.
LEMMA KeptCopyRecords ==
  ASSUME NEW W, NEW X, NEW Y, CopiesNew(X, Y), NEW v, NEW done,
         done \subseteq DOMAIN X.live \cup DOMAIN Y.live, RecordsMidway(v, done, X, Y),
         NEW u \in DOMAIN X.live \cap DOMAIN Y.live,
         Concurrent(X.live[u].clock, Y.live[u].clock),
         X.live[u].clock \in Clocks, Y.live[u].clock \in Clocks,
         NEW loser \in {X.live[u], Y.live[u]},
         NEW y, KeptCopy(W, v, y, u, loser)
  PROVE  RecordsMidway(y, done, X, Y) /\ LostIn(y, CopyOf(u, loser), loser)
<1>1. PICK c : c = CopyOf(u, loser)
  OBVIOUS
<1>2. CopiedFrom(c, u, loser, X, Y)
  BY <1>1 DEF CopiedFrom
<1>3. c \notin DOMAIN X.live \cup DOMAIN Y.live
  BY <1>2 DEF CopiesNew, Uuids
<1>4. CASE c \in DOMAIN v.live /\ y = v
  <2>1. PICK w, other : CopiedFrom(c, w, other, X, Y) /\ AsLost(v.live[c], other)
    BY <1>3, <1>4 DEF RecordsMidway, GivesRecord
  <2>2. w = u /\ other.clock = loser.clock
    BY <1>1, <2>1 DEF CopiedFrom, CopyOf
  <2>3. X.live[u].clock # Y.live[u].clock
    BY CoversFacts DEF Concurrent
  <2>4. other = loser
    BY <2>1, <2>2, <2>3 DEF CopiedFrom
  <2> QED BY <1>1, <1>4, <2>1, <2>4 DEF LostIn
<1>5. ASSUME c \notin DOMAIN v.live, NEW r, AsLost(r, loser), Sets(v, y, c, r)
      PROVE  RecordsMidway(y, done, X, Y) /\ LostIn(y, c, loser)
  <2>1. DiffersIn(v, y, c) /\ c \in DOMAIN y.live /\ y.live[c] = r
    BY <1>5, SetsDiffers
  <2>2. GivesRecord(y, c, X, Y)
    BY <1>2, <1>3, <1>5, <2>1 DEF GivesRecord
  <2>3. c \notin done
    BY <1>3
  <2>4. RecordsMidway(y, done, X, Y)
    BY <1>5, <2>1, <2>2, <2>3, RecordsStay
  <2> QED BY <1>5, <2>1, <2>4 DEF LostIn
<1> QED BY <1>1, <1>4, <1>5 DEF KeptCopy

\* The merge of one credential.
LEMMA MergeRecordRecords ==
  ASSUME NEW W, NEW X, NEW Y, Typed(X, W), Typed(Y, W), Apart(X), Apart(Y),
         CopiesNew(X, Y), NEW S, S = DOMAIN X.live \cup DOMAIN Y.live,
         NEW s \in SUBSET S, NEW u \in s,
         NEW v, Halfway(W, v, S \ (s \ {u}), X), Midway(v, s \ {u}, X, Y),
         RecordsMidway(v, s \ {u}, X, Y)
  PROVE  RecordsMidway(MergeRecord(v, u, X, Y), s, X, Y)
<1>1. PICK x : x = MergeRecord(v, u, X, Y)
  OBVIOUS
<1> SUFFICES RecordsMidway(x, s, X, Y)
  BY <1>1
<1>2. PICK done : done = s \ {u}
  OBVIOUS
<1>3. PICK ours : ours = X.live[u]
  OBVIOUS
<1>4. PICK theirs : theirs = Y.live[u]
  OBVIOUS
<1>5. /\ u \notin done /\ s = done \cup {u} /\ u \in S
      /\ done \subseteq DOMAIN X.live \cup DOMAIN Y.live
      /\ RecordsMidway(v, done, X, Y) /\ Midway(v, done, X, Y) /\ IsCopy(v)
      /\ u \in DOMAIN X.live => AsAtStart(v, u, X)
  BY <1>2 DEF Halfway, VaultTyped
<1>6. Does(W, v, x, u, X, Y)
  BY <1>1, <1>5, MergeRecordDoes DEF Typed
<1>7. /\ u \in DOMAIN X.live => ours \in RecordsOf(W) /\ ours.clock \in Clocks
      /\ u \in DOMAIN Y.live => theirs \in RecordsOf(W) /\ theirs.clock \in Clocks
  BY <1>3, <1>4 DEF Typed, RecordsOf
<1>8. DiffersIn(v, x, u) /\ GivesRecord(x, u, X, Y) => RecordsMidway(x, s, X, Y)
  BY <1>5, RecordsStay
<1>9. DiffersIn(v, v, u)
  BY DEF DiffersIn
<1>10. CASE u \notin DOMAIN X.live
  <2>1. u \in DOMAIN Y.live
    BY <1>5, <1>10
  <2>2. CASE u \in DOMAIN v.live \/ Deletes(X, u, theirs)
    <3>1. x = v
      BY <1>4, <1>6, <1>10, <2>2 DEF Does
    <3>2. u \notin DOMAIN v.live
      BY <1>5, <1>10, <2>1 DEF Midway
    <3> QED BY <1>8, <1>9, <3>1, <3>2 DEF GivesRecord
  <2>3. CASE ~(u \in DOMAIN v.live \/ Deletes(X, u, theirs))
    <3>1. PICK r \in RecordsOf(W) : Alike(r, theirs) /\ Sets(v, x, u, r)
      BY <1>4, <1>6, <1>10, <2>3 DEF Does, Takes
    <3>2. GivesRecord(x, u, X, Y)
      BY <1>4, <1>10, <2>1, <3>1, SetsDiffers DEF GivesRecord
    <3> QED BY <1>8, <3>1, <3>2, SetsDiffers
  <2> QED BY <2>2, <2>3
<1>11. CASE u \in DOMAIN X.live /\ u \notin DOMAIN Y.live
  <2>1. CASE Deletes(Y, u, ours)
    <3>1. Drops(v, x, u)
      BY <1>3, <1>6, <1>11, <2>1 DEF Does
    <3> QED BY <1>8, <3>1, DropsDiffers DEF GivesRecord
  <2>2. CASE ~Deletes(Y, u, ours)
    <3>1. x = v
      BY <1>3, <1>6, <1>11, <2>2 DEF Does
    <3>2. GivesRecord(v, u, X, Y)
      BY <1>5, <1>11 DEF GivesRecord, AsAtStart
    <3> QED BY <1>8, <1>9, <3>1, <3>2
  <2> QED BY <2>1, <2>2
<1>12. CASE u \in DOMAIN X.live \cap DOMAIN Y.live
  <2>1. CASE Concurrent(ours.clock, theirs.clock)
    <3>1. Settles(W, v, x, u, ours, theirs)
      BY <1>3, <1>4, <1>6, <1>12, <2>1 DEF Does
    <3>2. PICK r \in RecordsOf(W) :
            /\ r.ask = (ours.ask \/ theirs.ask)
            /\ Twins(r, ours) \/ Twins(r, theirs)
            /\ Wins(r.version, ours.version, theirs.version)
            /\ \/ ours.value = theirs.value /\ r.value = ours.value /\ Sets(v, x, u, r)
               \/ /\ r.value = theirs.value
                  /\ \E y : KeptCopy(W, v, y, u, ours) /\ Sets(y, x, u, r)
               \/ /\ r.value = ours.value
                  /\ \E y : KeptCopy(W, v, y, u, theirs) /\ Sets(y, x, u, r)
      BY <3>1 DEF Settles
    <3>3. CASE ours.value = theirs.value /\ r.value = ours.value /\ Sets(v, x, u, r)
      <4>1. DiffersIn(v, x, u) /\ x.live[u] = r
        BY <3>3, SetsDiffers
      <4>2. Settled(x, u, X, Y)
        BY <1>3, <1>4, <2>1, <3>2, <3>3, <4>1 DEF Settled
      <4>3. GivesRecord(x, u, X, Y)
        BY <1>12, <4>2 DEF GivesRecord
      <4> QED BY <1>8, <4>1, <4>3
    <3>4. ASSUME NEW loser \in {ours, theirs}, NEW other \in {ours, theirs},
                 {loser, other} = {ours, theirs}, r.value = other.value,
                 NEW y, KeptCopy(W, v, y, u, loser), Sets(y, x, u, r)
          PROVE  RecordsMidway(x, s, X, Y)
      <4>1. PICK c : c = CopyOf(u, loser)
        OBVIOUS
      <4>10. /\ Concurrent(X.live[u].clock, Y.live[u].clock)
             /\ X.live[u].clock \in Clocks /\ Y.live[u].clock \in Clocks
             /\ loser \in {X.live[u], Y.live[u]} /\ KeptCopy(W, v, y, u, loser)
        BY <1>3, <1>4, <1>7, <1>12, <2>1, <3>4
      <4>11. RecordsMidway(y, done, X, Y) /\ LostIn(y, CopyOf(u, loser), loser)
        BY <1>5, <1>12, <4>10, KeptCopyRecords
      <4>2. RecordsMidway(y, done, X, Y) /\ LostIn(y, c, loser)
        BY <4>1, <4>11
      <4>3. DiffersIn(y, x, u) /\ x.live[u] = r
        BY <3>4, SetsDiffers
      <4>4. CopiedFrom(c, u, loser, X, Y)
        BY <1>3, <1>4, <1>12, <2>1, <4>1 DEF CopiedFrom
      <4>5. c # u
        BY <1>12, <4>4 DEF CopiesNew, Uuids
      <4>6. LostIn(x, c, loser)
        BY <4>2, <4>3, <4>5 DEF LostIn, DiffersIn
      <4>7. \A l \in {ours, theirs} : r.value = l.value \/ LostIn(x, CopyOf(u, l), l)
        BY <3>4, <4>1, <4>6
      <4>8. Settled(x, u, X, Y)
        BY <1>3, <1>4, <2>1, <3>2, <4>3, <4>7 DEF Settled
      <4>9. GivesRecord(x, u, X, Y)
        BY <1>12, <4>8 DEF GivesRecord
      <4> QED BY <1>5, <4>2, <4>3, <4>9, RecordsStay
    <3> QED BY <3>2, <3>3, <3>4
  <2>2. CASE ~Concurrent(ours.clock, theirs.clock) /\ Covers(ours.clock, theirs.clock)
    <3>1. x = v
      BY <1>3, <1>4, <1>6, <1>12, <2>2 DEF Does
    <3>2. v.live[u] = ours
      BY <1>3, <1>5, <1>12 DEF AsAtStart
    <3>3. GivesRecord(v, u, X, Y)
      BY <1>3, <1>4, <1>12, <2>2, <3>2 DEF GivesRecord, Settled
    <3> QED BY <1>8, <1>9, <3>1, <3>3
  <2>3. CASE ~Concurrent(ours.clock, theirs.clock) /\ ~Covers(ours.clock, theirs.clock)
    <3>1. PICK r \in RecordsOf(W) : Alike(r, theirs) /\ Sets(v, x, u, r)
      BY <1>3, <1>4, <1>6, <1>12, <2>3 DEF Does, Takes
    <3>2. DiffersIn(v, x, u) /\ x.live[u] = r
      BY <3>1, SetsDiffers
    <3>3. GivesRecord(x, u, X, Y)
      BY <1>3, <1>4, <1>12, <2>3, <3>1, <3>2 DEF GivesRecord, Settled
    <3> QED BY <1>8, <3>2, <3>3
  <2> QED BY <2>1, <2>2, <2>3
<1> QED BY <1>10, <1>11, <1>12

\* What the merge of the copies X and Y gives: each credential, and the ones
\* that come of both.
RecordsMerged(x, X, Y) == \A u \in DOMAIN x.live : GivesRecord(x, u, X, Y)

\* Where every record of the merge comes from.
LEMMA MergeRecords ==
  ASSUME NEW W, NEW v, VaultTyped(v, W), Apart(v), NEW mac \in Macs,
         NEW Y, Typed(Y, W), Apart(Y),
         NEW X, X = Stamp(v, mac), CopiesNew(X, Y),
         NEW x, x = Merge(v, mac, Y)
  PROVE  RecordsMerged(x, X, Y)
<1>1. VaultTyped(X, W) /\ Stamped(X) /\ Apart(X)
  BY StampFacts DEF Apart
<1>2. PICK S : S = DOMAIN X.live \cup DOMAIN Y.live
  OBVIOUS
<1>3. IsFiniteSet(S)
  BY <1>1, <1>2, FS_Union DEF VaultTyped, Typed
<1>4. PICK f : MergesTo(f, S, X, Y) /\ x = MergeTombs(f[S], X, Y)
  BY <1>2, <1>3, MergeUnfolds
<1>5. \A s \in SUBSET S : Halfway(W, f[s], S \ s, X) /\ Midway(f[s], s, X, Y)
  BY <1>1, <1>2, <1>4, MergesMidway
<1> DEFINE bad == {s \in SUBSET S : ~RecordsMidway(f[s], s, X, Y)}
<1>6. {} \notin bad
  <2>1. f[{}] = X
    BY <1>4 DEF MergesTo
  <2> QED BY <2>1 DEF RecordsMidway
<1>7. ASSUME NEW s \in SUBSET S, s # {},
             RecordsMidway(f[s \ {NextOf(s)}], s \ {NextOf(s)}, X, Y)
      PROVE  RecordsMidway(f[s], s, X, Y)
  <2>1. PICK u \in s : u = NextOf(s)
    BY <1>7 DEF NextOf
  <2>2. PICK rest : rest = s \ {u}
    OBVIOUS
  <2>3. rest \in SUBSET S
    BY <2>2
  <2>4. f[s] = MergeRecord(f[rest], u, X, Y)
    BY <1>4, <1>7, <2>1, <2>2 DEF MergesTo
  <2>5. /\ Halfway(W, f[rest], S \ rest, X) /\ Midway(f[rest], rest, X, Y)
        /\ RecordsMidway(f[rest], rest, X, Y)
    BY <1>5, <1>7, <2>1, <2>2, <2>3
  <2> QED BY <1>1, <1>2, <2>2, <2>4, <2>5, MergeRecordRecords DEF VaultTyped
<1>8. \A s \in bad : s # {} => s \ {NextOf(s)} \in bad
  BY <1>7
<1>9. bad \subseteq SUBSET S
  OBVIOUS
<1> HIDE DEF bad
<1>10. bad = {}
  BY <1>3, <1>6, <1>8, <1>9, SubsetInduction
<1>11. RecordsMidway(f[S], S, X, Y)
  BY <1>10 DEF bad
<1>12. IsCopy(f[S])
  BY <1>5 DEF Halfway, VaultTyped
<1>13. x.live = f[S].live
  BY <1>4, <1>12, MergeTombsFacts
<1>14. RecordsMidway(x, S, X, Y)
  BY <1>11, <1>13 DEF RecordsMidway, GivesRecord, Settled, LostIn
<1> QED BY <1>2, <1>14 DEF RecordsMidway, RecordsMerged

(***************************************************************************)
(* What a stamped copy X has of the contents of the changes K.             *)
(***************************************************************************)

\* Of two changes of a credential, one with the count of the other saw it, and
\* no two have one clock.
Causal(A) ==
  \A e, f \in A : e.uuid = f.uuid =>
    /\ f.clock[e.mac] >= e.clock[e.mac] => Covers(f.clock, e.clock)
    /\ e.clock = f.clock => e = f

\* A conflict copy that nobody changed has the version that lost.
CopyVersions(X) ==
  \A c \in DOMAIN X.live \ Items :
    X.live[c].clock = c.clock => X.live[c].version = c.version

\* A change of a conflict copy of u.
Touched(u, K) == \E e \in K : e.uuid \notin Items /\ e.uuid.from = u

HoldsIn(X, u, value) ==
  \E c \in DOMAIN X.live :
    /\ c = u \/ (c \notin Items /\ c.from = u)
    /\ X.live[c].value = value

\* The value of a last change is there, in the credential or in a copy of it.
Kept(X, K) ==
  \A e \in K :
    \/ e.gone \/ Superseded(e, K) \/ Touched(e.uuid, K)
    \/ HoldsIn(X, e.uuid, e.value)

\* A last change that turned "Always ask" on.
Asked(X, K) ==
  \A e \in K :
    e.ask /\ ~Superseded(e, K) /\ e.uuid \in DOMAIN X.live => X.live[e.uuid].ask

HasContent(X, K) == CopyVersions(X) /\ Kept(X, K) /\ Asked(X, K)

\* A copy that has the count of a change has the change, or a later one.
LEMMA CountsAreKnown ==
  ASSUME NEW W, NEW Y, CopyTyped(Y, W), NEW A, ChangesTyped(A), Causal(A), CountsNew(A),
         NEW L \in SUBSET A, Good(Y, L), NEW e \in A, e.uuid \in DOMAIN Y.live,
         Y.live[e.uuid].clock[e.mac] >= e.clock[e.mac], ~Superseded(e, L)
  PROVE  e \in L
<1>1. PICK u : u = e.uuid
  OBVIOUS
<1>2. PICK n \in Macs : n = e.mac
  BY DEF ChangesTyped
<1>3. PICK b \in Clocks : b = Y.live[u].clock
  BY <1>1, ClockInTyped
<1>4. e.clock \in Clocks /\ b[n] >= e.clock[n]
  BY <1>1, <1>2, <1>3 DEF ChangesTyped
<1>5. Base(u)[n] < e.clock[n] /\ Base(u) \in Clocks
  BY <1>1, <1>2 DEF CountsNew, Good, BasesBelow, Uuids
<1>6. b[n] # Base(u)[n]
  BY <1>4, <1>5 DEF Clocks
<1>7. PICK f \in L : f.uuid = u /\ f.clock[n] = b[n] /\ Covers(b, f.clock)
  BY <1>1, <1>3, <1>6 DEF Good, CountsFrom
<1>8. f \in A /\ Covers(f.clock, e.clock)
  BY <1>1, <1>2, <1>4, <1>7 DEF Causal
<1>9. f.clock = e.clock
  BY <1>1, <1>7, <1>8 DEF Superseded
<1> QED BY <1>1, <1>7, <1>8, <1>9 DEF Causal

\* Without a race, a delete saw what is not deleted elsewhere.
LEMMA DeletesSupersede ==
  ASSUME NEW W, NEW X, CopyTyped(X, W), NEW A, ChangesTyped(A), ~Raced(A), Fits(X, A),
         NEW K \in SUBSET A, Good(X, K), NEW e \in K, e.uuid \in DOMAIN X.live,
         NEW Y, NEW L \in SUBSET A, TombsFrom(Y, L), e.uuid \in DOMAIN Y.tombs
  PROVE  Superseded(e, L)
<1>1. PICK d \in L : d.gone /\ d.uuid = e.uuid
  BY DEF TombsFrom
<1>2. /\ d \in A /\ e \in A /\ d.clock \in Clocks /\ e.clock \in Clocks /\ d.mac \in Macs
  BY DEF ChangesTyped
<1>3. PICK a \in Clocks : a = X.live[e.uuid].clock /\ a = ClockIn(X, e.uuid)
  BY ClockInTyped
<1>4. Covers(a, e.clock) /\ a[d.mac] < d.clock[d.mac]
  BY <1>1, <1>2, <1>3 DEF Good, ClocksHave, Fits
<1>5. e.clock[d.mac] < d.clock[d.mac]
  BY <1>2, <1>4 DEF Covers, Clocks
<1>6. ~Covers(e.clock, d.clock) /\ e.clock # d.clock
  BY <1>2, <1>5 DEF Covers, Clocks
<1>7. Covers(d.clock, e.clock)
  BY <1>1, <1>2, <1>6 DEF Raced, Concurrent
<1> QED BY <1>1, <1>6, <1>7 DEF Superseded

\* What the merge of X with another copy Y makes of the credentials of X.
Mine(x, X, Y) ==
  \A u \in DOMAIN X.live \cap DOMAIN x.live :
    LET mine == X.live[u]
        theirs == Y.live[u]
        r == x.live[u]
    IN  \/ Alike(r, mine)
        \/ /\ u \in DOMAIN Y.live /\ Concurrent(mine.clock, theirs.clock)
           /\ r.ask = (mine.ask \/ theirs.ask)
           /\ r.value = mine.value \/ LostIn(x, CopyOf(u, mine), mine)
        \/ /\ u \in DOMAIN Y.live
           /\ Alike(r, theirs) /\ Covers(theirs.clock, mine.clock)

\* What the merge leaves of the records of X.
LEMMA MergedMine ==
  ASSUME NEW W, NEW X, CopyTyped(X, W), NEW Y, CopyTyped(Y, W), NEW x, RecordsMerged(x, X, Y)
  PROVE  Mine(x, X, Y) /\ Mine(x, Y, X)
<1>1. ASSUME NEW u \in DOMAIN X.live \cap DOMAIN Y.live, u \in DOMAIN x.live
      PROVE  Settled(x, u, X, Y)
  BY <1>1 DEF RecordsMerged, GivesRecord
<1>2. \A u \in DOMAIN X.live \ DOMAIN Y.live :
        u \in DOMAIN x.live => Alike(x.live[u], X.live[u])
  BY DEF RecordsMerged, GivesRecord, Alike
<1>3. \A u \in DOMAIN Y.live \ DOMAIN X.live :
        u \in DOMAIN x.live => Alike(x.live[u], Y.live[u])
  BY DEF RecordsMerged, GivesRecord
<1>4. \A u \in DOMAIN X.live : X.live[u].ask \in BOOLEAN
  BY DEF CopyTyped, Typed, RecordsOf
<1>5. \A u \in DOMAIN Y.live : Y.live[u].ask \in BOOLEAN
  BY DEF CopyTyped, Typed, RecordsOf
<1>6. Mine(x, X, Y)
  <2> SUFFICES ASSUME NEW u \in DOMAIN X.live \cap DOMAIN Y.live, u \in DOMAIN x.live
               PROVE  \/ Alike(x.live[u], X.live[u])
                      \/ /\ Concurrent(X.live[u].clock, Y.live[u].clock)
                         /\ x.live[u].ask = (X.live[u].ask \/ Y.live[u].ask)
                         /\ \/ x.live[u].value = X.live[u].value
                            \/ LostIn(x, CopyOf(u, X.live[u]), X.live[u])
                      \/ /\ Alike(x.live[u], Y.live[u])
                         /\ Covers(Y.live[u].clock, X.live[u].clock)
    BY <1>2 DEF Mine
  <2>1. Settled(x, u, X, Y)
    BY <1>1
  <2> QED BY <2>1 DEF Settled, Concurrent, Alike
<1>7. Mine(x, Y, X)
  <2> SUFFICES ASSUME NEW u \in DOMAIN X.live \cap DOMAIN Y.live, u \in DOMAIN x.live
               PROVE  \/ Alike(x.live[u], Y.live[u])
                      \/ /\ Concurrent(Y.live[u].clock, X.live[u].clock)
                         /\ x.live[u].ask = (Y.live[u].ask \/ X.live[u].ask)
                         /\ \/ x.live[u].value = Y.live[u].value
                            \/ LostIn(x, CopyOf(u, Y.live[u]), Y.live[u])
                      \/ /\ Alike(x.live[u], X.live[u])
                         /\ Covers(X.live[u].clock, Y.live[u].clock)
    BY <1>3 DEF Mine
  <2>1. Settled(x, u, X, Y)
    BY <1>1
  <2>2. (Y.live[u].ask \/ X.live[u].ask) = (X.live[u].ask \/ Y.live[u].ask)
    BY <1>4, <1>5
  <2> QED BY <2>1, <2>2 DEF Settled, Concurrent, Alike
<1> QED BY <1>6, <1>7

\* The version of two copies tells their values.
SameValues(X, Y) ==
  \A u \in DOMAIN X.live \cap DOMAIN Y.live :
    X.live[u].version = Y.live[u].version => X.live[u].value = Y.live[u].value

\* All that the merge of X and Y, which know K and L, starts from.
Mergeable(W, X, K, Y, L, A) ==
  /\ CopyTyped(X, W) /\ CopyTyped(Y, W)
  /\ ChangesTyped(A) /\ ~Raced(A) /\ Causal(A) /\ CountsNew(A)
  /\ K \subseteq A /\ L \subseteq A
  /\ Good(X, K) /\ Good(Y, L) /\ Fits(X, A) /\ Fits(Y, A)
  /\ HasContent(X, K) /\ HasContent(Y, L) /\ SameValues(X, Y)

\* What comes out of the merge x.
MergedInto(W, x, X, Y) == CopyTyped(x, W) /\ Union(x, X, Y) /\ Mine(x, X, Y)

\* What is live stays so, when the other copy has no tombstone of it.
LEMMA StaysLive ==
  ASSUME NEW W, NEW X, CopyTyped(X, W), NEW x, CopyTyped(x, W), NEW Y, Union(x, X, Y),
         NEW u \in DOMAIN X.live, u \notin DOMAIN Y.tombs
  PROVE  u \in DOMAIN x.live
<1>1. u \in Uuids(x) /\ u \notin DOMAIN X.tombs
  BY DEF Union, Knows, Uuids, CopyTyped, Apart
<1>2. u \notin DOMAIN x.tombs
  BY <1>1 DEF Union
<1> QED BY <1>1, <1>2 DEF Uuids

\* A conflict copy that nobody changed starts from its version.
LEMMA UntouchedCopy ==
  ASSUME NEW W, NEW X, CopyTyped(X, W), NEW K, Good(X, K), CopyVersions(X),
         NEW c \in DOMAIN X.live, c \notin Items, ~\E e \in K : e.uuid = c
  PROVE  X.live[c].clock = c.clock /\ X.live[c].version = c.version
<1>1. X.live[c].clock \in Clocks /\ c.clock \in Clocks
  <2>1. c.clock \in Clocks
    BY DEF Good, BasesBelow, Base, Uuids
  <2> QED BY <2>1, ClockInTyped
<1>2. \A n \in Macs : X.live[c].clock[n] = c.clock[n]
  BY DEF Good, CountsFrom, Base
<1>3. X.live[c].clock = c.clock
  BY <1>1, <1>2 DEF Clocks
<1> QED BY <1>3 DEF CopyVersions

\* A conflict copy that nobody changed stays, with its value.
LEMMA CopyStays ==
  ASSUME NEW W, NEW X, NEW K, NEW Y, NEW L, NEW A, Mergeable(W, X, K, Y, L, A),
         NEW x, MergedInto(W, x, X, Y), NEW u, ~Touched(u, K \cup L),
         NEW c \in DOMAIN X.live, c \notin Items, c.from = u
  PROVE  c \in DOMAIN x.live /\ x.live[c].value = X.live[c].value
<1>1. \A e \in K \cup L : e.uuid # c
  BY DEF Touched
<1>2. c \notin DOMAIN Y.tombs
  BY <1>1 DEF Mergeable, Good, TombsFrom
<1>3. c \in DOMAIN x.live
  BY <1>2, StaysLive DEF Mergeable, MergedInto
<1>4. CASE c \in DOMAIN Y.live
  <2>1. X.live[c].clock = c.clock /\ X.live[c].version = c.version
    BY <1>1, UntouchedCopy DEF Mergeable, HasContent
  <2>2. Y.live[c].clock = c.clock /\ Y.live[c].version = c.version
    BY <1>1, <1>4, UntouchedCopy DEF Mergeable, HasContent
  <2>3. X.live[c].value = Y.live[c].value
    BY <1>4, <2>1, <2>2 DEF Mergeable, SameValues
  <2>4. c.clock \in Clocks
    BY <2>1, ClockInTyped DEF Mergeable
  <2>5. ~Concurrent(X.live[c].clock, Y.live[c].clock)
    BY <2>1, <2>2, <2>4, CoversFacts DEF Concurrent
  <2>6. Alike(x.live[c], X.live[c]) \/ Alike(x.live[c], Y.live[c])
    BY <1>3, <2>5 DEF MergedInto, Mine
  <2> QED BY <1>3, <2>3, <2>6 DEF Alike
<1>5. CASE c \notin DOMAIN Y.live
  <2>1. Alike(x.live[c], X.live[c])
    BY <1>3, <1>5 DEF MergedInto, Mine
  <2> QED BY <1>3, <2>1 DEF Alike
<1> QED BY <1>4, <1>5

\* Where the merge takes the other version of u, the other copy knows the last
\* changes of u too.
LEMMA TakenKnows ==
  ASSUME NEW W, NEW X, NEW K, NEW Y, NEW L, NEW A, Mergeable(W, X, K, Y, L, A),
         NEW e \in K, ~Superseded(e, K \cup L), NEW u, u = e.uuid,
         u \in DOMAIN X.live \cap DOMAIN Y.live, Covers(Y.live[u].clock, X.live[u].clock)
  PROVE  e \in L
<1>1. PICK a \in Clocks : a = X.live[u].clock /\ a = ClockIn(X, u)
  BY ClockInTyped DEF Mergeable
<1>2. PICK b \in Clocks : b = Y.live[u].clock
  BY ClockInTyped DEF Mergeable
<1>3. e \in A /\ e.clock \in Clocks /\ e.mac \in Macs
  BY DEF Mergeable, ChangesTyped
<1>4. Covers(a, e.clock)
  BY <1>1 DEF Mergeable, Good, ClocksHave
<1>5. Covers(b, e.clock)
  BY <1>1, <1>2, <1>3, <1>4, CoversFacts
<1>6. b[e.mac] >= e.clock[e.mac]
  BY <1>3, <1>5 DEF Covers
<1>7. ~Superseded(e, L)
  BY DEF Superseded
<1>8. L \in SUBSET A
  BY DEF Mergeable
<1>9. /\ CopyTyped(Y, W) /\ ChangesTyped(A) /\ Causal(A) /\ CountsNew(A) /\ Good(Y, L)
      /\ e.uuid \in DOMAIN Y.live /\ Y.live[e.uuid].clock[e.mac] >= e.clock[e.mac]
  BY <1>2, <1>6 DEF Mergeable
<1> QED BY <1>3, <1>7, <1>8, <1>9, CountsAreKnown

\* A last change of u finds no tombstone of u in the other copy.
LEMMA LastStays ==
  ASSUME NEW W, NEW X, NEW K, NEW Y, NEW L, NEW A, Mergeable(W, X, K, Y, L, A),
         NEW x, MergedInto(W, x, X, Y),
         NEW e \in K, ~Superseded(e, K \cup L), e.uuid \in DOMAIN X.live
  PROVE  e.uuid \in DOMAIN x.live
<1>1. ~Superseded(e, L)
  BY DEF Superseded
<1>2. K \in SUBSET A /\ L \in SUBSET A
  BY DEF Mergeable
<1>3. TombsFrom(Y, L) /\ CopyTyped(X, W) /\ ChangesTyped(A) /\ ~Raced(A) /\ Fits(X, A)
      /\ Good(X, K)
  BY DEF Mergeable, Good
<1>4. e.uuid \notin DOMAIN Y.tombs
  BY <1>1, <1>2, <1>3, DeletesSupersede
<1> QED BY <1>4, StaysLive DEF Mergeable, MergedInto

\* The merge holds what X held in a conflict copy.
LEMMA HeldInCopy ==
  ASSUME NEW W, NEW X, NEW K, NEW Y, NEW L, NEW A, Mergeable(W, X, K, Y, L, A),
         NEW x, MergedInto(W, x, X, Y), NEW u, ~Touched(u, K \cup L),
         NEW c \in DOMAIN X.live, c \notin Items, c.from = u
  PROVE  HoldsIn(x, u, X.live[c].value)
<1>1. c \in DOMAIN x.live /\ x.live[c].value = X.live[c].value
  BY CopyStays
<1> QED BY <1>1 DEF HoldsIn

\* The merge holds the value of a last change of X.
LEMMA HeldOfMine ==
  ASSUME ItemsAreNoCopies,
         NEW W, NEW X, NEW K, NEW Y, NEW L, NEW A, Mergeable(W, X, K, Y, L, A),
         Mergeable(W, Y, L, X, K, A),
         NEW x, MergedInto(W, x, X, Y), MergedInto(W, x, Y, X),
         NEW e \in K, ~e.gone, ~Superseded(e, K \cup L), ~Touched(e.uuid, K \cup L)
  PROVE  HoldsIn(x, e.uuid, e.value)
<1>1. PICK u : u = e.uuid
  OBVIOUS
<1>2. HoldsIn(X, u, e.value)
  <2>1. ~Superseded(e, K) /\ ~Touched(u, K)
    BY <1>1 DEF Superseded, Touched
  <2> QED BY <1>1, <2>1 DEF Mergeable, HasContent, Kept
<1>3. PICK c \in DOMAIN X.live : (c = u \/ (c \notin Items /\ c.from = u))
                                 /\ X.live[c].value = e.value
  BY <1>2 DEF HoldsIn
<1>4. ~Touched(u, K \cup L) /\ ~Touched(u, L \cup K)
  BY <1>1 DEF Touched
<1>5. CASE c \notin Items /\ c.from = u
  BY <1>1, <1>3, <1>4, <1>5, HeldInCopy
<1>6. CASE c = u
  <2>1. u \in DOMAIN x.live /\ u \in DOMAIN X.live
    BY <1>1, <1>3, <1>6, LastStays
  <2>2. PICK r : r = x.live[u]
    OBVIOUS
  <2>3. r.value = e.value => HoldsIn(x, u, e.value)
    BY <2>1, <2>2 DEF HoldsIn
  <2>4. PICK mine : mine = X.live[u] /\ mine.value = e.value
    BY <1>3, <1>6
  <2>5. PICK theirs : theirs = Y.live[u]
    OBVIOUS
  <2>6. CASE LostIn(x, CopyOf(u, mine), mine)
    <3>1. PICK k : k = CopyOf(u, mine)
      OBVIOUS
    <3>2. k \notin Items /\ k.from = u
      BY <3>1, CopyOfFacts
    <3>3. k \in DOMAIN x.live /\ x.live[k].value = e.value
      BY <2>4, <2>6, <3>1 DEF LostIn, AsLost
    <3> QED BY <1>1, <3>2, <3>3 DEF HoldsIn
  <2>7. CASE u \in DOMAIN Y.live /\ Alike(r, theirs) /\ Covers(theirs.clock, mine.clock)
    <3>1. e \in L
      BY <1>1, <2>1, <2>4, <2>5, <2>7, TakenKnows
    <3>2. HoldsIn(Y, u, e.value)
      <4>1. ~Superseded(e, L) /\ ~Touched(u, L)
        BY <1>1 DEF Superseded, Touched
      <4> QED BY <1>1, <3>1, <4>1 DEF Mergeable, HasContent, Kept
    <3>3. PICK d \in DOMAIN Y.live : (d = u \/ (d \notin Items /\ d.from = u))
                                     /\ Y.live[d].value = e.value
      BY <3>2 DEF HoldsIn
    <3>4. CASE d = u
      BY <1>1, <2>3, <2>5, <2>7, <3>3, <3>4 DEF Alike
    <3>5. CASE d \notin Items /\ d.from = u
      BY <1>1, <1>4, <3>3, <3>5, HeldInCopy
    <3> QED BY <3>3, <3>4, <3>5
  <2>8. \/ Alike(r, mine) \/ r.value = mine.value \/ LostIn(x, CopyOf(u, mine), mine)
        \/ u \in DOMAIN Y.live /\ Alike(r, theirs) /\ Covers(theirs.clock, mine.clock)
    BY <2>1, <2>2, <2>4, <2>5 DEF MergedInto, Mine
  <2> QED BY <1>1, <2>3, <2>4, <2>6, <2>7, <2>8 DEF Alike
<1> QED BY <1>3, <1>5, <1>6

\* "Always ask" stays on for a last change of X that turned it on.
LEMMA AskedOfMine ==
  ASSUME NEW W, NEW X, NEW K, NEW Y, NEW L, NEW A, Mergeable(W, X, K, Y, L, A),
         NEW x, MergedInto(W, x, X, Y),
         NEW e \in K, e.ask, ~Superseded(e, K \cup L), e.uuid \in DOMAIN x.live
  PROVE  x.live[e.uuid].ask
<1>1. PICK u : u = e.uuid
  OBVIOUS
<1>2. u \in DOMAIN X.live
  <2>1. u \in Uuids(X)
    BY <1>1 DEF Mergeable, Good, ClocksHave
  <2>2. u \notin DOMAIN X.tombs
    BY <1>1 DEF MergedInto, CopyTyped, Apart, Union
  <2> QED BY <2>1, <2>2 DEF Uuids
<1>3. ~Superseded(e, K) /\ ~Superseded(e, L)
  BY DEF Superseded
<1>4. X.live[u].ask
  BY <1>1, <1>2, <1>3 DEF Mergeable, HasContent, Asked
<1>5. ASSUME u \in DOMAIN Y.live, Covers(Y.live[u].clock, X.live[u].clock)
      PROVE  Y.live[u].ask
  <2>1. e \in L
    BY <1>1, <1>2, <1>5, TakenKnows
  <2> QED BY <1>1, <1>3, <1>5, <2>1 DEF Mergeable, HasContent, Asked
<1>6. PICK r : r = x.live[u]
  OBVIOUS
<1>7. PICK mine : mine = X.live[u]
  OBVIOUS
<1>8. PICK theirs : theirs = Y.live[u]
  OBVIOUS
<1>9. \/ Alike(r, mine) \/ r.ask = (mine.ask \/ theirs.ask)
      \/ u \in DOMAIN Y.live /\ Alike(r, theirs) /\ Covers(theirs.clock, mine.clock)
  BY <1>1, <1>2, <1>6, <1>7, <1>8 DEF MergedInto, Mine
<1>10. CASE Alike(r, mine)
  BY <1>1, <1>4, <1>6, <1>7, <1>10 DEF Alike
<1>11. CASE r.ask = (mine.ask \/ theirs.ask)
  BY <1>1, <1>4, <1>6, <1>7, <1>11
<1>12. CASE u \in DOMAIN Y.live /\ Alike(r, theirs) /\ Covers(theirs.clock, mine.clock)
  <2>1. r.ask = theirs.ask /\ theirs.ask
    BY <1>5, <1>7, <1>8, <1>12 DEF Alike
  <2> QED BY <1>1, <1>6, <2>1
<1> QED BY <1>9, <1>10, <1>11, <1>12

\* X and Y are merged in either order alike.
LEMMA MergeableSame ==
  ASSUME NEW W, NEW X, NEW K, NEW Y, NEW L, NEW A, Mergeable(W, X, K, Y, L, A)
  PROVE  Mergeable(W, Y, L, X, K, A)
BY DEF Mergeable, SameValues

\* It is the same which of the two copies was merged into the other.
LEMMA UnionSame ==
  ASSUME NEW W, NEW X, CopyTyped(X, W), NEW Y, CopyTyped(Y, W), NEW x, Union(x, X, Y)
  PROVE  Union(x, Y, X)
<1>1. \A a, b \in Clocks : Joined(a, b) = Joined(b, a)
  BY DEF Joined, Clocks
<1>2. \A u \in DOMAIN X.live \cap DOMAIN Y.live :
        Joined(X.live[u].clock, Y.live[u].clock) = Joined(Y.live[u].clock, X.live[u].clock)
  BY <1>1, ClockInTyped
<1>3. \A u, w, loser : CopiedFrom(u, w, loser, X, Y) => CopiedFrom(u, w, loser, Y, X)
  BY DEF CopiedFrom, Concurrent
<1>4. ASSUME NEW u \in DOMAIN x.live
      PROVE  \/ /\ u \in DOMAIN Y.live \cap DOMAIN X.live
                /\ x.live[u].clock = Joined(Y.live[u].clock, X.live[u].clock)
             \/ u \in DOMAIN Y.live \ Uuids(X) /\ x.live[u].clock = Y.live[u].clock
             \/ u \in DOMAIN X.live \ Uuids(Y) /\ x.live[u].clock = X.live[u].clock
             \/ /\ u \notin Uuids(Y) \cup Uuids(X)
                /\ \E w, loser : CopiedFrom(u, w, loser, Y, X) /\ x.live[u].clock = loser.clock
  BY <1>2, <1>3 DEF Union
<1>5. DOMAIN Y.tombs \cup DOMAIN X.tombs = DOMAIN x.tombs
  BY DEF Union
<1> QED BY <1>4, <1>5 DEF Union

\* A conflict copy that nobody changed keeps its version.
LEMMA UnionCopyVersions ==
  ASSUME NEW W, NEW X, NEW K, NEW Y, NEW L, NEW A, Mergeable(W, X, K, Y, L, A),
         NEW x, MergedInto(W, x, X, Y), RecordsMerged(x, X, Y)
  PROVE  CopyVersions(x)
<1> SUFFICES ASSUME NEW c \in DOMAIN x.live, c \notin Items, x.live[c].clock = c.clock
             PROVE  x.live[c].version = c.version
  BY DEF CopyVersions
<1>1. GivesRecord(x, c, X, Y)
  BY DEF RecordsMerged
<1>2. CopyTyped(X, W) /\ CopyTyped(Y, W) /\ CopyVersions(X) /\ CopyVersions(Y)
  BY DEF Mergeable, HasContent
<1>3. CASE c \in DOMAIN X.live \cap DOMAIN Y.live
  <2>1. PICK a \in Clocks : a = X.live[c].clock /\ a = ClockIn(X, c)
    BY <1>2, <1>3, ClockInTyped
  <2>2. PICK b \in Clocks : b = Y.live[c].clock /\ b = ClockIn(Y, c)
    BY <1>2, <1>3, ClockInTyped
  <2>3. c.clock = Joined(a, b)
    BY <1>3, <2>1, <2>2 DEF MergedInto, Union, Uuids
  <2>4. c.clock \in Clocks /\ Covers(a, c.clock) /\ Covers(b, c.clock)
    BY <1>3, <2>1, <2>2 DEF Mergeable, Good, BasesBelow, Uuids, Base
  <2>5. Covers(c.clock, a) /\ Covers(c.clock, b)
    BY <2>3, JoinedFacts
  <2>6. \A n \in Macs : a[n] = c.clock[n]
    BY <2>4, <2>5 DEF Covers, Clocks
  <2>7. a = c.clock
    BY <2>4, <2>6 DEF Clocks
  <2>8. Covers(a, b)
    BY <2>5, <2>7
  <2>9. Settled(x, c, X, Y)
    BY <1>1, <1>3 DEF GivesRecord
  <2>10. x.live[c] = X.live[c]
    BY <2>1, <2>2, <2>8, <2>9 DEF Settled, Concurrent
  <2> QED BY <1>2, <1>3, <2>10 DEF CopyVersions
<1>4. CASE c \in DOMAIN X.live \ DOMAIN Y.live
  BY <1>1, <1>2, <1>4 DEF GivesRecord, CopyVersions
<1>5. CASE c \in DOMAIN Y.live \ DOMAIN X.live
  <2>1. Alike(x.live[c], Y.live[c])
    BY <1>1, <1>5 DEF GivesRecord
  <2>2. Y.live[c].clock = c.clock /\ x.live[c].version = Y.live[c].version
    BY <2>1 DEF Alike
  <2> QED BY <1>2, <1>5, <2>2 DEF CopyVersions
<1>6. CASE c \notin DOMAIN X.live \cup DOMAIN Y.live
  <2>1. PICK w, loser : CopiedFrom(c, w, loser, X, Y) /\ AsLost(x.live[c], loser)
    BY <1>1, <1>6 DEF GivesRecord
  <2> QED BY <2>1 DEF CopiedFrom, CopyOf, AsLost
<1> QED BY <1>3, <1>4, <1>5, <1>6

\* What comes of two copies has the contents of both.
LEMMA UnionContent ==
  ASSUME ItemsAreNoCopies,
         NEW W, NEW X, NEW K, NEW Y, NEW L, NEW A, Mergeable(W, X, K, Y, L, A),
         NEW x, CopyTyped(x, W), Union(x, X, Y), RecordsMerged(x, X, Y)
  PROVE  HasContent(x, K \cup L)
<1>1. CopyTyped(X, W) /\ CopyTyped(Y, W) /\ Mergeable(W, Y, L, X, K, A)
  BY MergeableSame DEF Mergeable
<1>2. MergedInto(W, x, X, Y) /\ MergedInto(W, x, Y, X)
  BY <1>1, MergedMine, UnionSame DEF MergedInto
<1>3. \A e : /\ Superseded(e, K \cup L) <=> Superseded(e, L \cup K)
             /\ Touched(e.uuid, K \cup L) <=> Touched(e.uuid, L \cup K)
  BY DEF Superseded, Touched
<1>4. CopyVersions(x)
  BY <1>2, UnionCopyVersions
<1>5. ASSUME NEW e \in K \cup L, ~e.gone,
             ~Superseded(e, K \cup L), ~Touched(e.uuid, K \cup L)
      PROVE  HoldsIn(x, e.uuid, e.value)
  <2>1. CASE e \in K
    BY <1>1, <1>2, <1>5, <2>1, HeldOfMine
  <2>2. CASE e \in L
    <3>1. ~Superseded(e, L \cup K) /\ ~Touched(e.uuid, L \cup K)
      BY <1>3, <1>5
    <3> QED BY <1>1, <1>2, <1>5, <2>2, <3>1, HeldOfMine
  <2> QED BY <2>1, <2>2
<1>6. ASSUME NEW e \in K \cup L, e.ask, ~Superseded(e, K \cup L), e.uuid \in DOMAIN x.live
      PROVE  x.live[e.uuid].ask
  <2>1. CASE e \in K
    BY <1>1, <1>2, <1>6, <2>1, AskedOfMine
  <2>2. CASE e \in L
    <3>1. ~Superseded(e, L \cup K)
      BY <1>3, <1>6
    <3> QED BY <1>1, <1>2, <1>6, <2>2, <3>1, AskedOfMine
  <2> QED BY <2>1, <2>2
<1> QED BY <1>4, <1>5, <1>6 DEF HasContent, Kept, Asked

\* Each live credential of x has the version and the value of one in X or Y.
TwinsIn(x, C) ==
  \A u \in DOMAIN x.live : \E Z \in C : \E w \in DOMAIN Z.live : Twins(x.live[u], Z.live[w])

\* The merge makes no value of its own.
LEMMA MergedTwins ==
  ASSUME NEW X, NEW Y, NEW x, RecordsMerged(x, X, Y)
  PROVE  TwinsIn(x, {X, Y})
<1> SUFFICES ASSUME NEW u \in DOMAIN x.live
             PROVE  \/ \E w \in DOMAIN X.live : Twins(x.live[u], X.live[w])
                    \/ \E w \in DOMAIN Y.live : Twins(x.live[u], Y.live[w])
  BY DEF TwinsIn
<1>1. GivesRecord(x, u, X, Y)
  BY DEF RecordsMerged
<1>2. CASE u \in DOMAIN X.live \cap DOMAIN Y.live
  <2>1. Settled(x, u, X, Y)
    BY <1>1, <1>2 DEF GivesRecord
  <2> QED BY <1>2, <2>1 DEF Settled, Twins, Alike
<1>3. CASE u \in DOMAIN X.live \ DOMAIN Y.live
  BY <1>1, <1>3 DEF GivesRecord, Twins
<1>4. CASE u \in DOMAIN Y.live \ DOMAIN X.live
  BY <1>1, <1>4 DEF GivesRecord, Twins, Alike
<1>5. CASE u \notin DOMAIN X.live \cup DOMAIN Y.live
  <2>1. PICK w, loser : CopiedFrom(u, w, loser, X, Y) /\ AsLost(x.live[u], loser)
    BY <1>1, <1>5 DEF GivesRecord
  <2> QED BY <2>1 DEF CopiedFrom, AsLost, Twins
<1> QED BY <1>2, <1>3, <1>4, <1>5

(***************************************************************************)
(* The contents of the vaults and the files.                               *)
(***************************************************************************)

\* The vaults and the files.
Copies(V, F, len) == {V[n] : n \in Macs} \cup {F[i] : i \in 1..len}

\* The version of a live credential tells its value, wherever it is.
Agree(C) ==
  \A X, Y \in C : \A u \in DOMAIN X.live, w \in DOMAIN Y.live :
    X.live[u].version = Y.live[w].version => X.live[u].value = Y.live[w].value

\* What n has counted of u in its vault v.
OwnCount(v, u, n) == IF u \in Uuids(v) THEN ClockIn(v, u)[n] ELSE Base(u)[n]

\* No change saw a count of n that n did not give, and that it is not to give
\* at its next stamp.
CountsGiven(V, S) ==
  \A n \in Macs : \A f \in AllKnown(V, S) :
    f \in Counted(V[n], n) \/ f.clock[n] <= OwnCount(V[n], f.uuid, n)

\* Each change that was counted is in the clock of its credential, also
\* before the next stamp.
StampedHave(V, S) == \A n \in Macs : ClocksHave(V[n], S[n].changes)

\* The vaults and the files have the contents of what they know.
AllHaveContent(V, S, F, len) ==
  /\ \A n \in Macs : HasContent(View(V, n), KnownBy(V, S, n))
  /\ \A i \in 1..len : HasContent(F[i], F[i].seen.changes)

ContentInv(V, S, F, len) ==
  /\ StampedHave(V, S) /\ CountsGiven(V, S) /\ Causal(AllKnown(V, S))
  /\ Agree(Copies(V, F, len)) /\ AllHaveContent(V, S, F, len)

\* Two copies with the same credentials have the same contents.
LEMMA LikeContent ==
  ASSUME NEW X, NEW Y, Like(X, Y), NEW K, HasContent(X, K)
  PROVE  HasContent(Y, K)
<1>1. DOMAIN Y.live = DOMAIN X.live /\ \A u \in DOMAIN X.live : Y.live[u] = X.live[u]
  BY DEF Like
<1>2. CopyVersions(Y)
  BY <1>1 DEF HasContent, CopyVersions
<1>3. \A u, value : HoldsIn(X, u, value) => HoldsIn(Y, u, value)
  BY <1>1 DEF HoldsIn
<1>4. Kept(Y, K)
  BY <1>3 DEF HasContent, Kept
<1>5. Asked(Y, K)
  BY <1>1 DEF HasContent, Asked
<1> QED BY <1>2, <1>4, <1>5 DEF HasContent

\* The copies agree when one comes of them.
LEMMA AgreeMore ==
  ASSUME NEW C, Agree(C), NEW D, \A x \in D : x \in C \/ TwinsIn(x, C)
  PROVE  Agree(D)
<1>1. \A x \in D : TwinsIn(x, C)
  BY DEF TwinsIn, Twins
<1> SUFFICES ASSUME NEW x \in D, NEW y \in D, NEW u \in DOMAIN x.live, NEW w \in DOMAIN y.live,
                    x.live[u].version = y.live[w].version
             PROVE  x.live[u].value = y.live[w].value
  BY DEF Agree
<1>2. PICK X \in C : \E k \in DOMAIN X.live : Twins(x.live[u], X.live[k])
  BY <1>1 DEF TwinsIn
<1>3. PICK k \in DOMAIN X.live : Twins(x.live[u], X.live[k])
  BY <1>2
<1>4. PICK Y \in C : \E l \in DOMAIN Y.live : Twins(y.live[w], Y.live[l])
  BY <1>1 DEF TwinsIn
<1>5. PICK l \in DOMAIN Y.live : Twins(y.live[w], Y.live[l])
  BY <1>4
<1>6. X.live[k].version = Y.live[l].version
  BY <1>3, <1>5 DEF Twins
<1>7. X.live[k].value = Y.live[l].value
  BY <1>6 DEF Agree
<1> QED BY <1>3, <1>5, <1>7 DEF Twins

\* The vault of m becomes x, which it can keep.
LEMMA KeepContent ==
  ASSUME NEW W, NEW V, NEW S, NEW F, NEW len \in Nat, ShapeOf(V, S, F, W, len),
         SyncInv(V, S, F, len), ContentInv(V, S, F, len), NEW m \in Macs,
         NEW x, NEW k, CanKeep(W, V, S, F, len, m, x, k),
         HasContent(x, k.changes), TwinsIn(x, Copies(V, F, len)),
         NEW Vn, Replaced(Vn, V, m, x), NEW Sn, Replaced(Sn, S, m, k)
  PROVE  ContentInv(Vn, Sn, F, len)
<1>1. PICK A : A = AllKnown(V, S)
  OBVIOUS
<1>2. AllKnown(Vn, Sn) = A
  BY <1>1, KeepSync
<1>3. /\ Vn[m] = x /\ Sn[m] = k
      /\ \A n \in Macs : n # m => Vn[n] = V[n] /\ Sn[n] = S[n]
  BY DEF Replaced, ShapeOf
<1>4. /\ VaultTyped(x, W) /\ Apart(x) /\ Stamped(x) /\ CopyTyped(x, W)
      /\ Good(x, k.changes) /\ Knows(x, View(V, m)) /\ KnownBy(V, S, m) \subseteq k.changes
  BY DEF CanKeep, VaultTyped, CopyTyped
<1>5. Counted(x, m) = {} /\ Like(x, View(Vn, m))
  BY <1>3, <1>4, StampAgain DEF View
<1>6. KnownBy(Vn, Sn, m) = k.changes
  BY <1>3, <1>5 DEF KnownBy
<1>7. StampedHave(Vn, Sn)
  BY <1>3, <1>4 DEF StampedHave, ContentInv, Good
<1>8. \A f \in A : f.clock[m] <= OwnCount(x, f.uuid, m)
  <2> TAKE f \in A
  <2>1. PICK u : u = f.uuid
    OBVIOUS
  <2>2. f.clock \in Clocks
    BY <1>1, KnownFacts DEF ChangesTyped
  <2>3. CASE f \in Counted(V[m], m)
    <3>1. f \in k.changes
      BY <1>4, <2>3 DEF KnownBy
    <3>2. u \in Uuids(x) /\ Covers(ClockIn(x, u), f.clock)
      BY <1>4, <2>1, <3>1 DEF Good, ClocksHave
    <3>3. ClockIn(x, u) \in Clocks
      BY <1>4, <3>2, ClockInTyped
    <3> QED BY <2>1, <2>2, <3>2, <3>3 DEF OwnCount, Covers, Clocks
  <2>4. CASE f.clock[m] <= OwnCount(V[m], u, m)
    <3>1. PICK X : X = View(V, m)
      OBVIOUS
    <3>2. PICK v : v = V[m]
      OBVIOUS
    <3>3. CopyTyped(v, W) /\ CopyTyped(X, W) /\ Knows(X, v)
      BY <3>1, <3>2, ViewKnows DEF View, ShapeOf
    <3>4. Knows(x, v)
      BY <1>4, <3>1, <3>3, KnowsFacts
    <3>5. CASE u \in Uuids(v)
      <4>1. u \in Uuids(x) /\ Covers(ClockIn(x, u), ClockIn(v, u))
        BY <3>4, <3>5 DEF Knows
      <4>2. ClockIn(x, u) \in Clocks /\ ClockIn(v, u) \in Clocks
        BY <1>4, <3>3, <3>5, <4>1, ClockInTyped
      <4>3. ClockIn(x, u)[m] >= ClockIn(v, u)[m]
        BY <4>1 DEF Covers
      <4>4. f.clock[m] <= ClockIn(v, u)[m]
        BY <2>4, <3>2, <3>5 DEF OwnCount
      <4> QED BY <2>1, <2>2, <4>1, <4>2, <4>3, <4>4 DEF OwnCount, Clocks
    <3>6. CASE u \notin Uuids(v) /\ u \in Uuids(x)
      <4>1. Base(u) \in Clocks /\ Covers(ClockIn(x, u), Base(u)) /\ ClockIn(x, u) \in Clocks
        BY <1>4, <3>6, ClockInTyped DEF Good, BasesBelow
      <4>2. f.clock[m] <= Base(u)[m]
        BY <2>4, <3>2, <3>6 DEF OwnCount
      <4> QED BY <2>1, <2>2, <3>6, <4>1, <4>2 DEF OwnCount, Covers, Clocks
    <3>7. CASE u \notin Uuids(v) /\ u \notin Uuids(x)
      BY <2>1, <2>4, <3>2, <3>7 DEF OwnCount
    <3> QED BY <3>5, <3>6, <3>7
  <2>5. f \in Counted(V[m], m) \/ f.clock[m] <= OwnCount(V[m], u, m)
    BY <1>1, <2>1 DEF ContentInv, CountsGiven
  <2> QED BY <2>3, <2>4, <2>5
<1>9. CountsGiven(Vn, Sn)
  BY <1>1, <1>2, <1>3, <1>8 DEF CountsGiven, ContentInv
<1>10. Causal(AllKnown(Vn, Sn))
  BY <1>1, <1>2 DEF ContentInv
<1>11. Agree(Copies(Vn, F, len))
  <2>1. \A y \in Copies(Vn, F, len) : y \in Copies(V, F, len) \/ TwinsIn(y, Copies(V, F, len))
    BY <1>3 DEF Copies
  <2> QED BY <2>1, AgreeMore DEF ContentInv
<1>12. AllHaveContent(Vn, Sn, F, len)
  <2>1. HasContent(View(Vn, m), KnownBy(Vn, Sn, m))
    BY <1>5, <1>6, LikeContent
  <2>2. ASSUME NEW n \in Macs, n # m
        PROVE  HasContent(View(Vn, n), KnownBy(Vn, Sn, n))
    <3>1. View(Vn, n) = View(V, n) /\ KnownBy(Vn, Sn, n) = KnownBy(V, S, n)
      BY <1>3, <2>2 DEF View, KnownBy
    <3> QED BY <3>1 DEF ContentInv, AllHaveContent
  <2> QED BY <2>1, <2>2 DEF ContentInv, AllHaveContent
<1> QED BY <1>7, <1>9, <1>10, <1>11, <1>12 DEF ContentInv

\* A value that comes of a copy comes of what that copy came of.
LEMMA TwinsThrough ==
  ASSUME NEW x, NEW C, TwinsIn(x, C), NEW D, \A Z \in C : TwinsIn(Z, D)
  PROVE  TwinsIn(x, D)
<1> SUFFICES ASSUME NEW u \in DOMAIN x.live
             PROVE  \E Z \in D : \E w \in DOMAIN Z.live : Twins(x.live[u], Z.live[w])
  BY DEF TwinsIn
<1>1. PICK Z \in C : \E w \in DOMAIN Z.live : Twins(x.live[u], Z.live[w])
  BY DEF TwinsIn
<1>2. PICK w \in DOMAIN Z.live : Twins(x.live[u], Z.live[w])
  BY <1>1
<1>3. PICK Y \in D : \E k \in DOMAIN Y.live : Twins(Z.live[w], Y.live[k])
  BY DEF TwinsIn
<1> QED BY <1>2, <1>3 DEF Twins

\* The stamp of a vault keeps versions and values.
LEMMA ViewTwins ==
  ASSUME NEW W, NEW V, NEW S, NEW F, NEW len \in Nat, ShapeOf(V, S, F, W, len),
         NEW m \in Macs
  PROVE  TwinsIn(View(V, m), {V[m]})
<1>1. PICK v : v = V[m]
  OBVIOUS
<1>2. PICK X : X = Stamp(v, m)
  OBVIOUS
<1>3. DOMAIN X.live = DOMAIN v.live
      /\ \A u \in DOMAIN v.live : X.live[u].version = v.live[u].version
                                  /\ X.live[u].value = v.live[u].value
  BY <1>1, <1>2, StampFacts DEF ShapeOf
<1>4. TwinsIn(X, {v})
  BY <1>3 DEF TwinsIn, Twins
<1> QED BY <1>1, <1>2, <1>4 DEF View

\* The merge of a file.
LEMMA MergeContent ==
  ASSUME ItemsAreNoCopies,
         NEW W, NEW V, NEW S, NEW F, NEW len \in Nat, ShapeOf(V, S, F, W, len),
         SyncInv(V, S, F, len), ContentInv(V, S, F, len), ~Raced(AllKnown(V, S)),
         NEW m \in Macs, NEW i \in 1..len,
         NEW x, x = Merge(V[m], m, F[i]),
         NEW k, k = [changes |-> KnownBy(V, S, m) \cup F[i].seen.changes,
                     files |-> S[m].files \cup F[i].seen.files],
         NEW Vn, Replaced(Vn, V, m, x), NEW Sn, Replaced(Sn, S, m, k)
  PROVE  ContentInv(Vn, Sn, F, len)
<1> PICK A : A = AllKnown(V, S)
  OBVIOUS
<1> PICK K : K = KnownBy(V, S, m)
  OBVIOUS
<1> PICK Y : Y = F[i]
  OBVIOUS
<1> PICK L : L = Y.seen.changes
  OBVIOUS
<1> PICK X : X = View(V, m)
  OBVIOUS
<1> PICK v : v = V[m]
  OBVIOUS
<1>1. k.changes = KnownBy(V, S, m) \cup F[i].seen.changes
      /\ k.files = S[m].files \cup F[i].seen.files
  OBVIOUS
<1>2. CanKeep(W, V, S, F, len, m, x, k) /\ Union(x, X, Y) /\ CopiesNew(X, Y)
  BY <1>1, MergeKeeps
<1>3. VaultTyped(v, W) /\ Apart(v) /\ CopyTyped(Y, W) /\ ChangesTyped(L)
  BY DEF ShapeOf
<1>4. X = Stamp(v, m) /\ x = Merge(v, m, Y)
  BY DEF View
<1>5. CopyTyped(X, W)
  BY <1>3, <1>4, ViewKnows
<1>6. RecordsMerged(x, X, Y)
  BY <1>2, <1>3, <1>4, MergeRecords DEF CopyTyped
<1>7. CopyTyped(x, W)
  BY <1>2 DEF CanKeep, VaultTyped, CopyTyped
<1>8. /\ Good(X, K) /\ Fits(X, A) /\ Good(Y, L) /\ Fits(Y, A) /\ CountsNew(A) /\ ~Raced(A)
  BY DEF SyncInv, VaultsGood, FilesGood
<1>9. ChangesTyped(A) /\ K \subseteq A /\ L \subseteq A
  BY KnownFacts, FileKnown
<1>10. HasContent(X, K) /\ HasContent(Y, L) /\ Causal(A)
  BY DEF ContentInv, AllHaveContent
<1>11. TwinsIn(X, {v})
  BY ViewTwins
<1>12. PICK C : C = Copies(V, F, len)
  OBVIOUS
<1>13. Agree(C) /\ v \in C /\ Y \in C
  BY <1>12 DEF ContentInv, Copies
<1>14. \A Z \in {v, Y} : TwinsIn(Z, C)
  BY <1>13 DEF TwinsIn, Twins
<1>15. TwinsIn(X, C) /\ TwinsIn(Y, C)
  <2>1. \A Z \in {v} : TwinsIn(Z, C)
    BY <1>14
  <2> QED BY <1>11, <1>14, <2>1, TwinsThrough
<1>16. SameValues(X, Y)
  <2>1. \A Z \in {X, Y} : Z \in C \/ TwinsIn(Z, C)
    BY <1>15
  <2>2. Agree({X, Y})
    BY <1>13, <2>1, AgreeMore
  <2> QED BY <2>2 DEF Agree, SameValues
<1>17. Mergeable(W, X, K, Y, L, A)
  BY <1>3, <1>5, <1>8, <1>9, <1>10, <1>16 DEF Mergeable
<1>18. HasContent(x, K \cup L)
  BY <1>2, <1>6, <1>7, <1>17, UnionContent
<1>19. TwinsIn(x, C)
  <2>1. TwinsIn(x, {X, Y})
    BY <1>6, MergedTwins
  <2>2. \A Z \in {X, Y} : TwinsIn(Z, C)
    BY <1>15
  <2> QED BY <2>1, <2>2, TwinsThrough
<1>20. HasContent(x, k.changes)
  BY <1>1, <1>18
<1>21. TwinsIn(x, Copies(V, F, len))
  BY <1>12, <1>19
<1> QED BY <1>2, <1>20, <1>21, KeepContent

\* The stamp of the vault.
LEMMA StampContent ==
  ASSUME NEW W, NEW V, NEW S, NEW F, NEW len \in Nat, ShapeOf(V, S, F, W, len),
         SyncInv(V, S, F, len), ContentInv(V, S, F, len), NEW m \in Macs,
         NEW k, k = [changes |-> KnownBy(V, S, m), files |-> S[m].files],
         NEW x, x = View(V, m),
         NEW Vn, Replaced(Vn, V, m, x), NEW Sn, Replaced(Sn, S, m, k)
  PROVE  ContentInv(Vn, Sn, F, len)
<1>1. k.changes = KnownBy(V, S, m) /\ k.files = S[m].files
  OBVIOUS
<1>2. CanKeep(W, V, S, F, len, m, x, k)
  BY <1>1, StampKeeps
<1>3. HasContent(x, k.changes)
  BY <1>1 DEF ContentInv, AllHaveContent
<1>4. TwinsIn(x, {V[m]})
  BY ViewTwins
<1>5. \A Z \in {V[m]} : TwinsIn(Z, Copies(V, F, len))
  <2>1. V[m] \in Copies(V, F, len)
    BY DEF Copies
  <2> QED BY <2>1 DEF TwinsIn, Twins
<1>6. TwinsIn(x, Copies(V, F, len))
  BY <1>4, <1>5, TwinsThrough
<1> QED BY <1>2, <1>3, <1>6, KeepContent

\* The changes that are known are the same, and so are the files but for a new
\* file f of the vault of m.
LEMMA AppendContent ==
  ASSUME NEW W, NEW V, NEW S, NEW F, NEW len \in Nat, ShapeOf(V, S, F, W, len),
         ContentInv(V, S, F, len), NEW m \in Macs,
         NEW f, FileOf(f, V, S, m, len),
         NEW Sn, \A n \in Macs : Sn[n].changes = S[n].changes,
         NEW Fn, Extended(Fn, F, len, f)
  PROVE  ContentInv(V, Sn, Fn, len + 1)
<1>1. \A n \in Macs : KnownBy(V, Sn, n) = KnownBy(V, S, n)
  BY DEF KnownBy
<1>2. AllKnown(V, Sn) = AllKnown(V, S)
  BY <1>1 DEF AllKnown
<1>3. StampedHave(V, Sn) /\ CountsGiven(V, Sn) /\ Causal(AllKnown(V, Sn))
  BY <1>2 DEF ContentInv, StampedHave, CountsGiven
<1>4. /\ \A i \in 1..len : Fn[i] = F[i]
      /\ Fn[len + 1] = f /\ \A i \in 1..(len + 1) : i \in 1..len \/ i = len + 1
  BY DEF Extended
<1>5. Like(V[m], f) /\ f.seen.changes = S[m].changes /\ Stamped(V[m])
  BY DEF FileOf
<1>6. Agree(Copies(V, Fn, len + 1))
  <2>1. PICK C : C = Copies(V, F, len)
    OBVIOUS
  <2>2. V[m] \in C /\ \A n \in Macs : V[n] \in C
    BY <2>1 DEF Copies
  <2>3. TwinsIn(f, C)
    BY <1>5, <2>2 DEF TwinsIn, Twins, Like
  <2>4. \A y \in Copies(V, Fn, len + 1) : y \in C \/ y = f
    BY <1>4, <2>1 DEF Copies
  <2> QED BY <2>1, <2>3, <2>4, AgreeMore DEF ContentInv
<1>7. HasContent(f, S[m].changes)
  <2>1. PICK v : v = V[m]
    OBVIOUS
  <2>2. Counted(v, m) = {} /\ Like(v, View(V, m))
    BY <1>5, <2>1, StampAgain DEF ShapeOf, View
  <2>3. HasContent(View(V, m), S[m].changes)
    BY <2>1, <2>2 DEF ContentInv, AllHaveContent, KnownBy
  <2>4. Like(View(V, m), f)
    BY <1>5, <2>1, <2>2 DEF Like
  <2> QED BY <2>3, <2>4, LikeContent
<1>8. AllHaveContent(V, Sn, Fn, len + 1)
  <2>1. \A i \in 1..(len + 1) : HasContent(Fn[i], Fn[i].seen.changes)
    BY <1>4, <1>5, <1>7 DEF ContentInv, AllHaveContent
  <2> QED BY <1>1, <2>1 DEF ContentInv, AllHaveContent
<1> QED BY <1>3, <1>6, <1>8 DEF ContentInv

\* The vaults and what they know are what they were.
LEMMA SameContent ==
  ASSUME NEW V, NEW S, NEW F, NEW len, ContentInv(V, S, F, len),
         NEW Vn, \A n \in Macs : Vn[n] = V[n], NEW Sn, \A n \in Macs : Sn[n] = S[n]
  PROVE  ContentInv(Vn, Sn, F, len)
<1>1. \A n \in Macs : View(Vn, n) = View(V, n) /\ KnownBy(Vn, Sn, n) = KnownBy(V, S, n)
  BY DEF View, KnownBy
<1>2. AllKnown(Vn, Sn) = AllKnown(V, S)
  BY <1>1 DEF AllKnown
<1>3. Copies(Vn, F, len) = Copies(V, F, len)
  BY DEF Copies
<1>4. StampedHave(Vn, Sn) /\ AllHaveContent(Vn, Sn, F, len)
  BY <1>1 DEF ContentInv, StampedHave, AllHaveContent
<1>5. CountsGiven(Vn, Sn)
  BY <1>2 DEF ContentInv, CountsGiven
<1> QED BY <1>2, <1>3, <1>4, <1>5 DEF ContentInv

\* The vault of m is written over the file.
LEMMA WriteContent ==
  ASSUME NEW W, NEW V, NEW S, NEW F, NEW len \in Nat, ShapeOf(V, S, F, W, len),
         SyncInv(V, S, F, len), ContentInv(V, S, F, len), NEW m \in Macs,
         NEW f, Written(f, V, S, m, len),
         NEW x, x = Stamp(V[m], m), NEW Vn, Replaced(Vn, V, m, x),
         NEW l, l = f.seen, NEW Sn, Replaced(Sn, S, m, l),
         NEW Fn, Extended(Fn, F, len, f)
  PROVE  ContentInv(Vn, Sn, Fn, len + 1)
<1>1. x = View(V, m)
  BY DEF View
<1>2. PICK k : k = [changes |-> KnownBy(V, S, m), files |-> S[m].files]
  OBVIOUS
<1>3. PICK T : T = [S EXCEPT ![m] = k]
  OBVIOUS
<1>4. Replaced(Vn, V, m, x) /\ Replaced(T, S, m, k)
  BY <1>3 DEF Replaced
<1>5. /\ DOMAIN Vn = Macs /\ Vn[m] = x
      /\ DOMAIN T = Macs /\ T[m] = k /\ \A n \in Macs \ {m} : T[n] = S[n]
      /\ DOMAIN Sn = Macs /\ Sn[m] = l /\ \A n \in Macs \ {m} : Sn[n] = S[n]
  BY <1>4 DEF ShapeOf, Replaced
<1>6. ContentInv(Vn, T, F, len)
  BY <1>1, <1>2, <1>4, StampContent
<1>7. VaultTyped(x, W) /\ Apart(x) /\ Stamped(x)
  BY ViewKnows DEF ShapeOf, CopyTyped
<1>8. SeenShape(k, len)
  <2>1. ChangesTyped(KnownBy(V, S, m)) /\ S[m].files \subseteq 1..len
    BY KnownFacts DEF ShapeOf, SeenShape
  <2> QED BY <1>2, <2>1 DEF SeenShape
<1>9. ShapeOf(Vn, T, F, W, len)
  BY <1>4, <1>7, <1>8, ShapeReplaced
<1>10. /\ f.seen.changes = T[m].changes /\ f.seen.files = T[m].files \cup {len + 1}
       /\ l.changes = T[m].changes
  BY <1>2, <1>5 DEF Written
<1>11. FileOf(f, Vn, T, m, len)
  <2>1. Like(x, f)
    BY DEF Like, Written
  <2> QED BY <1>5, <1>7, <1>10, <2>1 DEF FileOf
<1>12. \A n \in Macs : Sn[n].changes = T[n].changes
  BY <1>5, <1>10
<1> QED BY <1>6, <1>9, <1>11, <1>12, AppendContent

\* The change e1 supersedes the changes of its credential that are known to L.
Newest(e1, L, m) ==
  \A e \in L : e.uuid = e1.uuid /\ e # e1 => e.clock[m] < e1.clock[m]

\* The stamped vault after a change has the contents of what it knows.
LEMMA ChangeHasContent ==
  ASSUME NEW W, NEW X, CopyTyped(X, W), NEW Y, CopyTyped(Y, W), NEW v, NEW u,
         NEW gone \in BOOLEAN, NEW m \in Macs, ViewsChanged(X, Y, v, u, gone, m),
         NEW K, ChangesTyped(K), Good(X, K), HasContent(X, K),
         NEW L, NEW e1, NEW c, c = ClockIn(Y, u), Adds(L, K, e1, u, gone, c, m),
         NEW D, Tells(e1, D, Y), Newest(e1, L, m), c[m] > Base(u)[m]
  PROVE  HasContent(Y, L)
<1>1. /\ u \in DOMAIN X.live /\ Uuids(Y) = Uuids(X)
      /\ DOMAIN Y.live = IF gone THEN DOMAIN X.live \ {u} ELSE DOMAIN X.live
      /\ \A k \in DOMAIN Y.live : k # u => Y.live[k] = X.live[k]
      /\ Covers(c, ClockIn(X, u))
  BY DEF ViewsChanged
<1>2. /\ e1 \in L /\ L \subseteq K \cup {e1}
      /\ e1.uuid = u /\ e1.mac = m /\ e1.clock = c /\ e1.gone = gone
      /\ \A e \in K : e \in L \/ (e.uuid = u /\ e.mac = m /\ e.clock = c /\ ~e.gone)
  BY DEF Adds
<1>3. u \in DOMAIN Y.live => e1.value = Y.live[u].value /\ e1.ask = Y.live[u].ask
  BY <1>2 DEF Tells
<1>4. c \in Clocks /\ ClockIn(X, u) \in Clocks /\ u \in Uuids(X)
  BY <1>1, ClockInTyped DEF Uuids
<1>5. ASSUME NEW e \in L, e.uuid = u, e # e1 PROVE Superseded(e, L)
  <2>1. e \in K
    BY <1>2, <1>5
  <2>2. e.clock \in Clocks /\ Covers(ClockIn(X, u), e.clock)
    BY <1>5, <2>1 DEF ChangesTyped, Good, ClocksHave
  <2>3. Covers(c, e.clock)
    BY <1>1, <1>4, <2>2, CoversFacts
  <2>4. e.clock[m] < c[m]
    BY <1>2, <1>5 DEF Newest
  <2>5. c # e.clock
    BY <1>4, <2>4 DEF Clocks
  <2> QED BY <1>2, <1>5, <2>3, <2>5 DEF Superseded
<1>6. \A e \in L : e.uuid # u => e \in K
  BY <1>2
<1>7. \A e \in K : e.uuid # u => e \in L
  BY <1>2
<1>8. ASSUME NEW e \in L, e.uuid # u, ~Superseded(e, L) PROVE ~Superseded(e, K)
  BY <1>7, <1>8 DEF Superseded
<1>9. CopyVersions(Y)
  <2> SUFFICES ASSUME NEW k \in DOMAIN Y.live, k \notin Items, Y.live[k].clock = k.clock
               PROVE  Y.live[k].version = k.version
    BY DEF CopyVersions
  <2>1. CASE k # u
    BY <1>1, <2>1 DEF HasContent, CopyVersions
  <2>2. CASE k = u
    <3>1. c = Base(u)
      BY <2>2, ClockInTyped DEF Base
    <3> QED BY <1>4, <3>1 DEF Clocks
  <2> QED BY <2>1, <2>2
<1>10. Kept(Y, L)
  <2> SUFFICES ASSUME NEW e \in L, ~e.gone, ~Superseded(e, L), ~Touched(e.uuid, L)
               PROVE  HoldsIn(Y, e.uuid, e.value)
    BY DEF Kept
  <2>1. CASE e = e1
    <3>1. u \in DOMAIN Y.live
      BY <1>1, <1>2, <2>1
    <3> QED BY <1>2, <1>3, <2>1, <3>1 DEF HoldsIn
  <2>2. CASE e # e1 /\ e.uuid = u
    BY <1>5, <2>2
  <2>3. CASE e.uuid # u
    <3>1. e \in K /\ ~Superseded(e, K)
      BY <1>6, <1>8, <2>3
    <3>2. ~Touched(e.uuid, K)
      BY <1>2 DEF Touched
    <3>3. PICK k \in DOMAIN X.live : /\ k = e.uuid \/ (k \notin Items /\ k.from = e.uuid)
                                     /\ X.live[k].value = e.value
      BY <3>1, <3>2 DEF HasContent, Kept, HoldsIn
    <3>4. k # u
      BY <1>2, <2>3, <3>3 DEF Touched
    <3>5. k \in DOMAIN Y.live /\ Y.live[k].value = e.value
      BY <1>1, <3>3, <3>4
    <3> QED BY <3>3, <3>5 DEF HoldsIn
  <2> QED BY <2>1, <2>2, <2>3
<1>11. Asked(Y, L)
  <2> SUFFICES ASSUME NEW e \in L, e.ask, ~Superseded(e, L), e.uuid \in DOMAIN Y.live
               PROVE  Y.live[e.uuid].ask
    BY DEF Asked
  <2>1. CASE e = e1
    BY <1>2, <1>3, <2>1
  <2>2. CASE e # e1 /\ e.uuid = u
    BY <1>5, <2>2
  <2>3. CASE e.uuid # u
    <3>1. e \in K /\ ~Superseded(e, K)
      BY <1>6, <1>8, <2>3
    <3>2. e.uuid \in DOMAIN X.live
      BY <1>1
    <3>3. X.live[e.uuid].ask
      BY <3>1, <3>2 DEF HasContent, Asked
    <3> QED BY <1>1, <2>3, <3>3
  <2> QED BY <2>1, <2>2, <2>3
<1> QED BY <1>9, <1>10, <1>11 DEF HasContent

\* The change e1 of u is all that a change of m adds to the changes that are
\* known, and no other has its count.
OneMore(e1, V, Vn, S, u, m) ==
  /\ e1 \in AllKnown(Vn, S) /\ e1.uuid = u /\ e1.mac = m
  /\ u \in Uuids(V[m]) /\ ClockIn(V[m], u) \in Clocks
  /\ e1.clock \in Clocks /\ e1.clock[m] = ClockIn(V[m], u)[m] + 1
  /\ e1.clock = ClockIn(View(Vn, m), u)
  /\ \A f \in AllKnown(Vn, S) :
       f # e1 => /\ f \in AllKnown(V, S)
                 /\ f.uuid = u => f.clock[m] <= ClockIn(V[m], u)[m]
  /\ \A f \in AllKnown(V, S) \ AllKnown(Vn, S) :
       f.uuid = u /\ f.mac = m /\ f.clock = e1.clock

\* A change of m gives one more count.
LEMMA ChangeCounts ==
  ASSUME NEW W, NEW V, NEW S, NEW F, NEW len \in Nat, ShapeOf(V, S, F, W, len),
         SyncInv(V, S, F, len), StampedHave(V, S), CountsGiven(V, S),
         NEW m \in Macs, NEW v, v = V[m],
         NEW x, VaultTyped(x, W), Apart(x),
         NEW u, NEW gone \in BOOLEAN, Changed(v, x, u, gone),
         NEW Vn, \A n \in Macs : Vn[n] = IF n = m THEN x ELSE V[n],
         NEW Y, Y = Stamp(x, m), NEW c, c = ClockIn(Y, u),
         NEW e1, Adds(Counted(x, m), Counted(v, m), e1, u, gone, c, m),
         Tells(e1, Counted(x, m), Y)
  PROVE  OneMore(e1, V, Vn, S, u, m)
<1>1. PICK X : X = Stamp(v, m)
  OBVIOUS
<1>2. PICK A : A = AllKnown(V, S)
  OBVIOUS
<1>3. PICK B : B = AllKnown(Vn, S)
  OBVIOUS
<1>4. PICK K : K = KnownBy(V, S, m)
  OBVIOUS
<1>5. PICK L : L = KnownBy(Vn, S, m)
  OBVIOUS
<1>6. VaultTyped(v, W) /\ Apart(v)
  BY DEF ShapeOf
<1>7. ViewsChanged(X, Y, v, u, gone, m)
  BY <1>1, <1>6, ChangedViews
<1>8. /\ CopyTyped(v, W) /\ CopyTyped(X, W) /\ CopyTyped(x, W) /\ CopyTyped(Y, W)
      /\ Uuids(X) = Uuids(v) /\ Uuids(Y) = Uuids(x)
  BY <1>1, <1>6, ViewKnows
<1>9. /\ View(V, m) = X /\ View(Vn, m) = Y /\ Vn[m] = x
      /\ \A n \in Macs : n # m => /\ View(Vn, n) = View(V, n) /\ Vn[n] = V[n]
                                  /\ KnownBy(Vn, S, n) = KnownBy(V, S, n)
  BY <1>1 DEF View, KnownBy
<1>10. K = S[m].changes \cup Counted(v, m) /\ L = S[m].changes \cup Counted(x, m)
  BY <1>4, <1>5, <1>9 DEF KnownBy
<1>11. Adds(L, K, e1, u, gone, c, m)
  BY <1>10 DEF Adds
<1>12. /\ ChangesTyped(A) /\ ChangesTyped(K) /\ K \subseteq A
       /\ \A n \in Macs : KnownBy(V, S, n) \subseteq A
  BY <1>2, <1>4, KnownFacts
<1>13. /\ e1 \in L /\ L \subseteq K \cup {e1} /\ e1 \in Counted(x, m)
       /\ e1.uuid = u /\ e1.mac = m /\ e1.clock = c /\ e1.gone = gone
       /\ \A e \in Counted(v, m) : e.uuid # u => e \in Counted(x, m)
  BY <1>11 DEF Adds
<1>14. ClocksHave(v, S[m].changes)
  BY DEF StampedHave
<1>15. /\ u \in DOMAIN v.live /\ u \in Uuids(v) /\ c[m] = ClockIn(v, u)[m] + 1
       /\ ClockIn(v, u) \in Clocks /\ c \in Clocks
       /\ u \in DOMAIN X.live /\ ClockIn(X, u) = X.live[u].clock
       /\ ClockIn(X, u) \in Clocks /\ Covers(c, ClockIn(X, u))
       /\ \A n \in Macs : n # m => c[n] = ClockIn(X, u)[n]
  <2>1. u \in DOMAIN v.live
    BY DEF Changed
  <2>2. u \in Uuids(v) /\ u \in Uuids(Y) /\ u \in DOMAIN X.live
    BY <1>7, <1>8, <2>1 DEF Uuids, ViewsChanged
  <2> QED BY <1>7, <1>8, <2>1, <2>2, ClockInTyped DEF ViewsChanged
<1>16. ASSUME NEW f \in B, f # e1
       PROVE  /\ f \in A
              /\ f.uuid = u => f.clock[m] <= ClockIn(v, u)[m]
  <2>1. PICK n \in Macs : f \in KnownBy(Vn, S, n)
    BY <1>3 DEF AllKnown
  <2>2. f \in A
    BY <1>4, <1>5, <1>9, <1>12, <1>13, <1>16, <2>1
  <2>3. ASSUME f.uuid = u, f \in Counted(v, m) PROVE FALSE
    <3>1. f.mac = m /\ f \in K
      BY <1>10, <2>3, KnownFacts
    <3>2. CASE f \in S[n].changes
      <4>1. f \in S[m].changes
        BY <3>1, <3>2 DEF SyncInv, ChangesOwned
      <4>2. f.clock \in Clocks /\ Covers(ClockIn(v, u), f.clock)
        BY <1>12, <1>14, <2>3, <3>1, <4>1 DEF ClocksHave, ChangesTyped
      <4>3. f.clock = ClockIn(X, u) /\ u \in Unstamped(v)
        <5>1. u \in Unstamped(v) /\ f.clock = CountOne(v.live[u], m).clock
          BY <1>6, <1>15, <2>3, CountedTyped
        <5>2. X.live[u] = CountOne(v.live[u], m)
          BY <1>1, <1>6, <1>15, <5>1, StampFacts
        <5> QED BY <1>15, <5>1, <5>2
      <4>4. c = ClockIn(X, u)
        BY <1>7, <4>3 DEF ViewsChanged
      <4>5. f.clock[m] = ClockIn(v, u)[m] + 1
        BY <1>15, <4>3, <4>4
      <4>6. ClockIn(v, u)[m] >= f.clock[m]
        BY <4>2 DEF Covers
      <4> QED BY <1>15, <4>5, <4>6 DEF Clocks
    <3>3. CASE f \in Counted(Vn[n], n)
      <4>1. n = m
        <5>1. VaultTyped(Vn[n], W)
          BY <1>9 DEF ShapeOf
        <5> QED BY <3>1, <3>3, <5>1, CountedTyped
      <4>2. f \in Counted(x, m)
        BY <1>9, <3>3, <4>1
      <4> QED BY <1>13, <1>16, <2>3, <4>2 DEF Tells
    <3> QED BY <2>1, <3>2, <3>3 DEF KnownBy
  <2>4. f \in Counted(v, m) \/ f.clock[m] <= OwnCount(v, f.uuid, m)
    BY <1>2, <2>2 DEF CountsGiven
  <2>5. ASSUME f.uuid = u PROVE f.clock[m] <= ClockIn(v, u)[m]
    BY <1>15, <2>3, <2>4, <2>5 DEF OwnCount
  <2> QED BY <2>2, <2>5
<1>17. ASSUME NEW f \in A, f \notin B
       PROVE  f.uuid = u /\ f.mac = m /\ f.clock = c
  <2>1. f \in K /\ f \notin L
    BY <1>2, <1>3, <1>4, <1>5, <1>9, <1>17 DEF AllKnown
  <2> QED BY <1>11, <2>1 DEF Adds
<1>18. e1 \in B
  BY <1>3, <1>5, <1>13 DEF AllKnown
<1> QED BY <1>2, <1>3, <1>9, <1>13, <1>15, <1>16, <1>17, <1>18 DEF OneMore

\* The contents after a change of m.  An edit has a new version.
LEMMA ChangeContent ==
  ASSUME NEW W, NEW V, NEW S, NEW F, NEW len \in Nat, ShapeOf(V, S, F, W, len),
         NEW Z, ShapeOf(V, S, F, Z, len),
         SyncInv(V, S, F, len), ContentInv(V, S, F, len), NEW m \in Macs, NEW v, v = V[m],
         NEW x, VaultTyped(x, W), Apart(x),
         NEW u, NEW gone \in BOOLEAN, Changed(v, x, u, gone),
         u \in DOMAIN x.live => x.live[u].version \notin Z,
         NEW Vn, \A n \in Macs : Vn[n] = IF n = m THEN x ELSE V[n]
  PROVE  ContentInv(Vn, S, F, len)
<1>1. PICK X : X = Stamp(v, m)
  OBVIOUS
<1>2. PICK Y : Y = Stamp(x, m)
  OBVIOUS
<1>3. PICK c : c = ClockIn(Y, u)
  OBVIOUS
<1>4. PICK A : A = AllKnown(V, S)
  OBVIOUS
<1>5. PICK B : B = AllKnown(Vn, S)
  OBVIOUS
<1>6. PICK K : K = KnownBy(V, S, m)
  OBVIOUS
<1>7. PICK L : L = KnownBy(Vn, S, m)
  OBVIOUS
<1>8. VaultTyped(v, W) /\ Apart(v)
  BY DEF ShapeOf
<1>9. ViewsChanged(X, Y, v, u, gone, m)
  BY <1>1, <1>2, <1>8, ChangedViews
<1>10. PICK e1 : /\ Adds(Counted(x, m), Counted(v, m), e1, u, gone, c, m)
                 /\ Tells(e1, Counted(x, m), Y)
  BY <1>2, <1>3, <1>8, ChangedCounted
<1>11. /\ CopyTyped(v, W) /\ CopyTyped(X, W) /\ CopyTyped(x, W) /\ CopyTyped(Y, W)
       /\ Uuids(X) = Uuids(v) /\ Uuids(Y) = Uuids(x)
  BY <1>1, <1>2, <1>8, ViewKnows
<1>12. /\ View(V, m) = X /\ View(Vn, m) = Y /\ Vn[m] = x
       /\ \A n \in Macs : n # m => /\ View(Vn, n) = View(V, n) /\ Vn[n] = V[n]
                                   /\ KnownBy(Vn, S, n) = KnownBy(V, S, n)
  BY <1>1, <1>2 DEF View, KnownBy
<1>13. K = S[m].changes \cup Counted(v, m) /\ L = S[m].changes \cup Counted(x, m)
  BY <1>6, <1>7, <1>12 DEF KnownBy
<1>14. Adds(L, K, e1, u, gone, c, m)
  BY <1>10, <1>13 DEF Adds
<1>15. /\ ChangesTyped(A) /\ ChangesTyped(K) /\ K \subseteq A
       /\ \A n \in Macs : KnownBy(V, S, n) \subseteq A
  BY <1>4, <1>6, KnownFacts
<1>16. /\ e1 \in L /\ L \subseteq K \cup {e1} /\ e1 \in Counted(x, m)
       /\ e1.uuid = u /\ e1.mac = m /\ e1.clock = c /\ e1.gone = gone
       /\ \A e \in Counted(v, m) : e.uuid # u => e \in Counted(x, m)
  BY <1>10, <1>14 DEF Adds
<1>17. /\ Good(X, K) /\ Fits(X, A) /\ BasesBelow(v) /\ HasContent(X, K)
       /\ ClocksHave(v, S[m].changes)
  BY <1>4, <1>6, <1>12 DEF SyncInv, VaultsGood, ContentInv, AllHaveContent, StampedHave
<1>18. /\ u \in DOMAIN v.live /\ u \in Uuids(v) /\ c[m] = ClockIn(v, u)[m] + 1
       /\ ClockIn(v, u) \in Clocks /\ c \in Clocks
       /\ u \in DOMAIN X.live /\ ClockIn(X, u) = X.live[u].clock
       /\ ClockIn(X, u) \in Clocks /\ Covers(c, ClockIn(X, u))
       /\ \A n \in Macs : n # m => c[n] = ClockIn(X, u)[n]
  <2>1. u \in DOMAIN v.live
    BY DEF Changed
  <2>2. u \in Uuids(v) /\ u \in Uuids(Y) /\ u \in DOMAIN X.live
    BY <1>9, <1>11, <2>1 DEF Uuids, ViewsChanged
  <2> QED BY <1>3, <1>9, <1>11, <2>1, <2>2, ClockInTyped DEF ViewsChanged
<1>19. /\ Uuids(x) = Uuids(v)
       /\ \A k \in Uuids(v) : ClockIn(x, k) = ClockIn(v, k)
  BY ChangedClocks
<1>20. \A e \in A : e.mac = m => e \in K
  BY <1>4, <1>6, OwnKnown
<1>21. ASSUME NEW f \in B, f # e1
       PROVE  /\ f \in A
              /\ f.uuid = u => f.clock[m] <= ClockIn(v, u)[m]
  <2>1. OneMore(e1, V, Vn, S, u, m)
    BY <1>2, <1>3, <1>10, ChangeCounts DEF ContentInv
  <2> QED BY <1>4, <1>5, <1>21, <2>1 DEF OneMore
<1>22. ASSUME NEW f \in B, f # e1, f.uuid = u
       PROVE  /\ f.clock \in Clocks /\ f.mac \in Macs /\ f.clock # c
              /\ f.clock[m] < c[m] /\ ~(f.clock[m] >= c[m])
  <2>1. f \in A /\ f.clock[m] <= ClockIn(v, u)[m]
    BY <1>21, <1>22
  <2>2. f.clock \in Clocks /\ f.mac \in Macs
    BY <1>15, <2>1 DEF ChangesTyped
  <2> QED BY <1>18, <2>1, <2>2 DEF Clocks
<1>23. StampedHave(Vn, S)
  <2>1. ClocksHave(x, S[m].changes)
    BY <1>17, <1>19 DEF ClocksHave
  <2> QED BY <1>12, <2>1 DEF ContentInv, StampedHave
<1>24. CountsGiven(Vn, S)
  <2>1. ASSUME NEW f \in B
        PROVE  f \in Counted(x, m) \/ f.clock[m] <= OwnCount(x, f.uuid, m)
    <3>1. CASE f = e1
      BY <1>16, <3>1
    <3>2. CASE f # e1 /\ f.uuid = u
      BY <1>18, <1>19, <1>21, <3>2 DEF OwnCount
    <3>3. CASE f # e1 /\ f.uuid # u
      <4>1. f \in Counted(v, m) \/ f.clock[m] <= OwnCount(v, f.uuid, m)
        BY <1>4, <1>21, <3>3 DEF ContentInv, CountsGiven
      <4>2. OwnCount(x, f.uuid, m) = OwnCount(v, f.uuid, m)
        BY <1>19 DEF OwnCount
      <4> QED BY <1>16, <3>3, <4>1, <4>2
    <3> QED BY <3>1, <3>2, <3>3
  <2>2. ASSUME NEW f \in B, NEW n \in Macs, n # m
        PROVE  f \in Counted(V[n], n) \/ f.clock[n] <= OwnCount(V[n], f.uuid, n)
    <3>1. CASE f = e1
      <4>1. OwnedBy(X, V[n], n)
        BY <1>12, <2>2 DEF SyncInv, CountsOwned
      <4>2. X.live[u].clock[n] <= OwnCount(V[n], u, n)
        BY <1>18, <4>1 DEF OwnedBy, OwnCount
      <4> QED BY <1>16, <1>18, <2>2, <3>1, <4>2
    <3>2. CASE f # e1
      BY <1>4, <1>21, <3>2 DEF ContentInv, CountsGiven
    <3> QED BY <3>1, <3>2
  <2>3. ASSUME NEW n \in Macs, NEW f \in B
        PROVE  f \in Counted(Vn[n], n) \/ f.clock[n] <= OwnCount(Vn[n], f.uuid, n)
    <3>1. CASE n = m
      BY <1>12, <2>1, <3>1
    <3>2. CASE n # m
      BY <1>12, <2>2, <3>2
    <3> QED BY <3>1, <3>2
  <2> QED BY <1>5, <2>3 DEF CountsGiven
<1>25. Causal(B)
  <2> SUFFICES ASSUME NEW e \in B, NEW f \in B, e.uuid = f.uuid
               PROVE  /\ f.clock[e.mac] >= e.clock[e.mac] => Covers(f.clock, e.clock)
                      /\ e.clock = f.clock => e = f
    BY DEF Causal
  <2>1. CASE e # e1 /\ f # e1
    <3>1. e \in A /\ f \in A
      BY <1>21, <2>1
    <3> QED BY <1>4, <3>1 DEF ContentInv, Causal
  <2>2. CASE e = e1 /\ f # e1
    BY <1>16, <1>22, <2>2
  <2>3. CASE e # e1 /\ f = e1
    <3>1. e.uuid = u /\ e \in A /\ e.clock # c /\ e.clock \in Clocks /\ e.mac \in Macs
      BY <1>16, <1>21, <1>22, <2>3
    <3>2. ASSUME c[e.mac] >= e.clock[e.mac] PROVE Covers(ClockIn(X, u), e.clock)
      <4>1. CASE e.mac = m
        <5>1. e \in K
          BY <1>20, <3>1, <4>1
        <5> QED BY <1>17, <3>1, <5>1 DEF Good, ClocksHave
      <4>2. CASE e.mac # m
        <5>1. X.live[e.uuid].clock[e.mac] >= e.clock[e.mac]
          BY <1>18, <3>1, <3>2, <4>2
        <5> QED BY <1>17, <1>18, <3>1, <5>1 DEF Fits
      <4> QED BY <4>1, <4>2
    <3>3. c[e.mac] >= e.clock[e.mac] => Covers(c, e.clock)
      BY <1>18, <3>1, <3>2, CoversFacts
    <3> QED BY <1>16, <2>3, <3>1, <3>3
  <2>4. CASE e = e1 /\ f = e1
    BY <1>16, <1>18, <2>4, CoversFacts
  <2> QED BY <2>1, <2>2, <2>3, <2>4
<1>26. Agree(Copies(Vn, F, len))
  <2>1. PICK C : C = Copies(V, F, len)
    OBVIOUS
  <2>2. Agree(C) /\ v \in C /\ \A y \in Copies(Vn, F, len) : y \in C \/ y = x
    BY <1>12, <2>1 DEF ContentInv, Copies
  <2>3. \A y \in C : \A w \in DOMAIN y.live : y.live[w].version \in Z
    <3>1. \A y \in C : Typed(y, Z)
      BY <2>1 DEF Copies, ShapeOf, VaultTyped, CopyTyped
    <3> QED BY <3>1 DEF Typed, RecordsOf
  <2>4. /\ \A k \in DOMAIN x.live : k # u => x.live[k] = v.live[k]
        /\ \A k \in DOMAIN x.live : k # u => k \in DOMAIN v.live
    BY DEF Changed
  <2>5. ASSUME NEW y \in C \cup {x}, NEW w \in DOMAIN y.live, ~(y = x /\ w = u)
        PROVE  \E Q \in C : \E k \in DOMAIN Q.live : y.live[w] = Q.live[k]
    BY <2>2, <2>4, <2>5
  <2>6. ASSUME NEW y \in C \cup {x}, NEW w \in DOMAIN y.live, ~(y = x /\ w = u),
               NEW z \in C \cup {x}, NEW k \in DOMAIN z.live, ~(z = x /\ k = u),
               y.live[w].version = z.live[k].version
        PROVE  y.live[w].value = z.live[k].value
    <3>1. PICK P \in C : \E i \in DOMAIN P.live : y.live[w] = P.live[i]
      BY <2>5, <2>6
    <3>2. PICK Q \in C : \E j \in DOMAIN Q.live : z.live[k] = Q.live[j]
      BY <2>5, <2>6
    <3> QED BY <2>2, <2>6, <3>1, <3>2 DEF Agree
  <2>7. ASSUME NEW y \in C \cup {x}, NEW w \in DOMAIN y.live, ~(y = x /\ w = u),
               u \in DOMAIN x.live
        PROVE  y.live[w].version # x.live[u].version
    BY <2>3, <2>5, <2>7
  <2>8. Agree(C \cup {x})
    BY <2>6, <2>7 DEF Agree
  <2>9. \A y \in Copies(Vn, F, len) : y \in C \cup {x}
    BY <2>2
  <2> QED BY <2>8, <2>9 DEF Agree
<1>27. AllHaveContent(Vn, S, F, len)
  <2>1. L \subseteq B
    BY <1>5, <1>7 DEF AllKnown
  <2>2. Newest(e1, L, m)
    BY <1>16, <1>22, <2>1 DEF Newest
  <2>3. c[m] > Base(u)[m]
    <3>1. Base(u) \in Clocks /\ ClockIn(v, u)[m] >= Base(u)[m]
      BY <1>17, <1>18 DEF BasesBelow, Covers
    <3> QED BY <1>18, <3>1 DEF Clocks
  <2>4. HasContent(Y, L)
    BY <1>3, <1>9, <1>10, <1>11, <1>14, <1>15, <1>17, <2>2, <2>3, ChangeHasContent
  <2>5. ASSUME NEW n \in Macs PROVE HasContent(View(Vn, n), KnownBy(Vn, S, n))
    <3>1. CASE n = m
      BY <1>7, <1>12, <2>4, <3>1
    <3>2. CASE n # m
      BY <1>12, <3>2 DEF ContentInv, AllHaveContent
    <3> QED BY <3>1, <3>2
  <2> QED BY <2>5 DEF ContentInv, AllHaveContent
<1> QED BY <1>5, <1>23, <1>24, <1>25, <1>26, <1>27 DEF ContentInv

(***************************************************************************)
(* The steps keep the contents.                                            *)
(***************************************************************************)

ContentHolds == ContentInv(vault, seen, files, Len(files))

\* The vaults after the merge of a sync.
LEMMA MergedContent ==
  ASSUME ItemsAreNoCopies, ShapeInv, SyncHolds, ContentHolds, ~DeleteRaced,
         NEW m \in Macs, NEW i \in 0..Len(files),
         NEW v, v = Merged(m, i), NEW known, known = SeenMerged(m, i),
         NEW Vn, Replaced(Vn, vault, m, v), NEW Sn, Replaced(Sn, seen, m, known)
  PROVE  ContentInv(Vn, Sn, files, Len(files))
<1>1. PICK W : W = Timely(time)
  OBVIOUS
<1>2. PICK len \in Nat : len = Len(files)
  BY ShapeGives
<1>3. /\ ShapeOf(vault, seen, files, W, len) /\ SyncInv(vault, seen, files, len)
      /\ ContentInv(vault, seen, files, len)
      /\ ~Raced(AllKnown(vault, seen)) /\ KnownBy(vault, seen, m) = Known(m)
  BY <1>1, <1>2, ShapeGives DEF SyncHolds, ContentHolds, Everything
<1>4. CASE MustMerge(m, i)
  <2>1. i \in 1..len
    BY <1>2, <1>4 DEF MustMerge
  <2>2. v = Merge(vault[m], m, files[i])
    BY <1>4 DEF Merged
  <2>3. known = [changes |-> KnownBy(vault, seen, m) \cup files[i].seen.changes,
                 files |-> seen[m].files \cup files[i].seen.files]
    BY <1>3, <1>4 DEF SeenMerged
  <2>4. ContentInv(Vn, Sn, files, len)
    BY <1>3, <2>1, <2>2, <2>3, MergeContent
  <2> QED BY <1>2, <2>4
<1>5. CASE ~MustMerge(m, i)
  <2>1. v = vault[m] /\ known = seen[m]
    BY <1>5 DEF Merged, SeenMerged
  <2>2. \A n \in Macs : Vn[n] = vault[n] /\ Sn[n] = seen[n]
    BY <1>3, <2>1 DEF Replaced, ShapeOf
  <2>3. ContentInv(Vn, Sn, files, len)
    BY <1>3, <2>2, SameContent
  <2> QED BY <1>2, <2>3
<1> QED BY <1>4, <1>5

\* The vault v is written over the file.
LEMMA PushContent ==
  ASSUME ShapeInv, NEW m \in Macs, NEW v, NEW known, Push(m, v, known),
         NEW V, V = [vault EXCEPT ![m] = v], NEW S, S = [seen EXCEPT ![m] = known],
         SyncInv(V, S, files, Len(files)), ContentInv(V, S, files, Len(files)),
         ShapeOf(V, S, files, Timely(time), Len(files))
  PROVE  ContentHolds'
<1>1. PICK len \in Nat : len = Len(files)
  BY ShapeGives
<1>2. PICK W : W = Timely(time)
  OBVIOUS
<1>3. PICK F : F = files
  OBVIOUS
<1>4. PICK P : P = V
  OBVIOUS
<1>5. PICK Q : Q = S
  OBVIOUS
<1>6. PICK Vn : Vn = vault'
  OBVIOUS
<1>7. PICK Sn : Sn = seen'
  OBVIOUS
<1>8. PICK Fn : Fn = files'
  OBVIOUS
<1>9. PICK f : /\ Written(f, P, Q, m, len)
               /\ Replaced(Vn, P, m, Stamp(P[m], m)) /\ Replaced(Sn, Q, m, f.seen)
               /\ Extended(Fn, F, len, f) /\ Len(files') = len + 1
  BY <1>1, <1>3, <1>4, <1>5, <1>6, <1>7, <1>8, PushWrites
<1>10. PICK x : x = Stamp(P[m], m)
  OBVIOUS
<1>11. PICK l : l = f.seen
  OBVIOUS
<1>12. /\ SyncInv(P, Q, F, len) /\ ContentInv(P, Q, F, len) /\ ShapeOf(P, Q, F, W, len)
       /\ Replaced(Vn, P, m, x) /\ Replaced(Sn, Q, m, l)
  BY <1>1, <1>2, <1>3, <1>4, <1>5, <1>9, <1>10, <1>11
<1>13. ContentInv(Vn, Sn, Fn, len + 1)
  BY <1>9, <1>10, <1>11, <1>12, WriteContent
<1> QED BY <1>6, <1>7, <1>8, <1>9, <1>13 DEF ContentHolds

\* A sync keeps the contents.
LEMMA SyncKeepsContent ==
  ASSUME ItemsAreNoCopies, ShapeInv, SyncHolds, ContentHolds, ~DeleteRaced, NEW m \in Macs,
         \/ ReplaceSyncedFile(m)
         \/ \E i \in 0..Len(files) : SyncPulls(m, i) \/ SyncStops(m, i) \/ SyncPushes(m, i)
  PROVE  ContentHolds'
<1>1. ASSUME NEW i \in 0..Len(files), SyncPulls(m, i) \/ SyncStops(m, i)
      PROVE  ContentHolds'
  <2>1. PICK v : v = Merged(m, i)
    OBVIOUS
  <2>2. PICK known : known = SeenMerged(m, i)
    OBVIOUS
  <2>3. PICK Vn : Vn = vault'
    OBVIOUS
  <2>4. PICK Sn : Sn = seen'
    OBVIOUS
  <2>5. Replaced(Vn, vault, m, v) /\ Replaced(Sn, seen, m, known) /\ UNCHANGED files
    BY <1>1, <2>1, <2>2, <2>3, <2>4 DEF SyncPulls, SyncStops, Keep, Replaced
  <2>6. ContentInv(Vn, Sn, files, Len(files))
    BY <2>1, <2>2, <2>5, MergedContent
  <2> QED BY <2>3, <2>4, <2>5, <2>6 DEF ContentHolds
<1>2. ASSUME NEW i \in 0..Len(files), NEW v, v = Merged(m, i),
             NEW known, known = SeenMerged(m, i), Push(m, v, known)
      PROVE  ContentHolds'
  <2>1. PICK V : V = [vault EXCEPT ![m] = v]
    OBVIOUS
  <2>2. PICK S : S = [seen EXCEPT ![m] = known]
    OBVIOUS
  <2>3. Replaced(V, vault, m, v) /\ Replaced(S, seen, m, known)
    BY <2>1, <2>2 DEF Replaced
  <2>4. /\ SyncInv(V, S, files, Len(files))
        /\ ShapeOf(V, S, files, Timely(time), Len(files))
    BY <1>2, <2>3, MergedSync
  <2>5. ContentInv(V, S, files, Len(files))
    BY <1>2, <2>3, MergedContent
  <2> QED BY <1>2, <2>1, <2>2, <2>4, <2>5, PushContent
<1>3. CASE ReplaceSyncedFile(m)
  <2>1. MustMerge(m, 0) = FALSE
    BY DEF MustMerge
  <2>2. PICK v : v = vault[m]
    OBVIOUS
  <2>3. PICK known : known = seen[m]
    OBVIOUS
  <2>4. v = Merged(m, 0) /\ known = SeenMerged(m, 0)
    BY <2>1, <2>2, <2>3 DEF Merged, SeenMerged
  <2>5. 0 \in 0..Len(files) /\ Push(m, v, known)
    BY <1>3, <2>2, <2>3, ShapeGives DEF ReplaceSyncedFile
  <2> QED BY <1>2, <2>4, <2>5
<1>4. ASSUME NEW i \in 0..Len(files), SyncPushes(m, i) PROVE ContentHolds'
  <2>1. PICK v : v = Merged(m, i)
    OBVIOUS
  <2>2. PICK known : known = SeenMerged(m, i)
    OBVIOUS
  <2>3. Push(m, v, known)
    BY <1>4, <2>1, <2>2 DEF SyncPushes
  <2> QED BY <1>2, <2>1, <2>2, <2>3
<1> QED BY <1>1, <1>3, <1>4

\* A change of the owner keeps the contents.
LEMMA ChangeKeepsContent ==
  ASSUME ShapeInv, ShapeInv', SyncHolds, ContentHolds,
         NEW m \in Macs, NEW t \in 1..MaxTime, ChangesAt(m, t),
         NEW u, NEW gone \in BOOLEAN, NEW x, x = vault'[m], Changed(vault[m], x, u, gone),
         u \in DOMAIN x.live => x.live[u].version = [at |-> t, by |-> m],
         \A n \in Macs : n # m => vault'[n] = vault[n]
  PROVE  ContentHolds'
<1>1. seen' = seen /\ files' = files
  BY DEF ChangesAt
<1>2. PICK W : W = Timely(time')
  OBVIOUS
<1>3. PICK Z : Z = Timely(time)
  OBVIOUS
<1>4. /\ \A v : VaultShape(v, time) => VaultShape(v, time')
      /\ \A f, n : FileShape(f, time, n) => FileShape(f, time', n)
  BY NowTimely, TypedLater
<1>5. VaultShape(x, time')
  BY DEF ShapeInv
<1>6. PICK len \in Nat : len = Len(files)
  BY ShapeGives
<1>7. ShapeOf(vault, seen, files, W, len)
  BY <1>2, <1>4, <1>6 DEF ShapeInv, ShapeOf, VaultShape, FileShape, CopyTyped
<1>8. ShapeOf(vault, seen, files, Z, len)
  BY <1>3, <1>6, ShapeGives
<1>9. PICK Vn : Vn = vault'
  OBVIOUS
<1>10. PICK v : v = vault[m]
  OBVIOUS
<1>11. \A n \in Macs : Vn[n] = IF n = m THEN x ELSE vault[n]
  BY <1>9
<1>12. SyncInv(vault, seen, files, len) /\ ContentInv(vault, seen, files, len)
  BY <1>6 DEF SyncHolds, ContentHolds
<1>13. VaultTyped(x, W) /\ Apart(x) /\ Changed(v, x, u, gone)
  BY <1>2, <1>5, <1>10 DEF VaultShape
<1>14. u \in DOMAIN x.live => x.live[u].version \notin Z
  BY <1>3, NowTimely
<1>15. ContentInv(Vn, seen, files, len)
  <2>1. PICK V : V = vault
    OBVIOUS
  <2>2. PICK S : S = seen
    OBVIOUS
  <2>3. PICK F : F = files
    OBVIOUS
  <2>4. /\ ShapeOf(V, S, F, W, len) /\ ShapeOf(V, S, F, Z, len)
        /\ SyncInv(V, S, F, len) /\ ContentInv(V, S, F, len) /\ v = V[m]
        /\ \A n \in Macs : Vn[n] = IF n = m THEN x ELSE V[n]
    BY <1>7, <1>8, <1>10, <1>11, <1>12, <2>1, <2>2, <2>3
  <2>5. ContentInv(Vn, S, F, len)
    BY <1>13, <1>14, <2>4, ChangeContent
  <2> QED BY <2>2, <2>3, <2>5
<1> QED BY <1>1, <1>6, <1>9, <1>15 DEF ContentHolds

\* The copy that every Mac has at the start.
LEMMA StartContent ==
  ASSUME NEW X, DOMAIN X.live = Items, \A u \in Items : X.live[u] = Fresh,
         NEW K, \A e \in K : e.uuid \in Items /\ e.ask = FALSE /\ e.value = Start
  PROVE  HasContent(X, K)
<1>1. CopyVersions(X)
  BY DEF CopyVersions
<1>2. Fresh.value = Start
  BY DEF Fresh
<1>3. \A e \in K : HoldsIn(X, e.uuid, e.value)
  BY <1>2 DEF HoldsIn
<1>4. Kept(X, K)
  BY <1>3 DEF Kept
<1>5. Asked(X, K)
  BY DEF Asked
<1> QED BY <1>1, <1>4, <1>5 DEF HasContent

\* The vaults have the contents of what they know at the start.
LEMMA ContentInit == ASSUME Init PROVE ContentHolds
<1>1. PICK v : v = vault[Creator]
  OBVIOUS
<1>2. PICK f : f = files[1]
  OBVIOUS
<1>3. PICK K : K = {Change(v, Creator, u) : u \in Items}
  OBVIOUS
<1>4. PICK c : c = Fresh.clock
  OBVIOUS
<1>5. /\ \A m \in Macs : vault[m] = v
      /\ VaultTyped(v, Timely([m \in Macs |-> 0])) /\ Unstamped(v) = {}
      /\ DOMAIN v.live = Items /\ DOMAIN v.tombs = {}
      /\ \A u \in Items : v.live[u] = Fresh
  <2>1. Creator \in Macs
    BY StartTyped
  <2>2. v = [live |-> [u \in Items |-> Fresh], tombs |-> <<>>,
             stamps |-> [u \in Items |-> Fresh.version]]
        /\ \A m \in Macs : vault[m] = v
    BY <1>1, <2>1 DEF Init
  <2> QED BY <2>2, StartVault DEF VaultShape
<1>6. Len(files) = 1 /\ f.live = v.live /\ f.seen.changes = K
  BY <1>1, <1>2, <1>3, StartFile
<1>7. \A m \in Macs : seen[m].changes = K
  BY <1>2, <1>6 DEF Init
<1>8. /\ c = [ZeroClock EXCEPT ![Creator] = 1] /\ c \in Clocks /\ Covers(c, c)
      /\ \A n \in Macs : ZeroClock[n] = 0
  <2>1. c = [ZeroClock EXCEPT ![Creator] = 1] /\ Creator \in Macs /\ ZeroClock \in Clocks
    BY <1>4, StartTyped
  <2>2. c \in Clocks /\ \A n \in Macs : ZeroClock[n] = 0
    BY <2>1 DEF Clocks, ZeroClock
  <2> QED BY <2>1, <2>2, CoversFacts
<1>9. /\ \A e \in K : e.uuid \in Items /\ e.clock = c /\ e.ask = FALSE /\ e.value = Start
      /\ \A e, g \in K : e.uuid = g.uuid => e = g
  <2>1. \A u \in Items : /\ Change(v, Creator, u).uuid = u /\ Change(v, Creator, u).clock = c
                         /\ Change(v, Creator, u).value = Fresh.value
                         /\ Change(v, Creator, u).ask = Fresh.ask
    BY <1>4, <1>5, StartTyped DEF Change
  <2>2. Fresh.value = Start /\ Fresh.ask = FALSE
    BY DEF Fresh
  <2> QED BY <1>3, <2>1, <2>2
<1>10. ASSUME NEW m \in Macs
       PROVE  /\ KnownBy(vault, seen, m) = K
              /\ DOMAIN View(vault, m).live = Items
              /\ \A u \in Items : View(vault, m).live[u] = Fresh
  <2>1. PICK s : s = Stamp(v, m)
    OBVIOUS
  <2>2. DOMAIN s.live = Items /\ \A u \in Items : s.live[u] = Fresh
    BY <1>5, <2>1, StampFacts
  <2>3. Counted(v, m) = {}
    BY <1>5 DEF Counted
  <2> QED BY <1>5, <1>7, <2>1, <2>2, <2>3 DEF KnownBy, View
<1>11. AllKnown(vault, seen) = K
  <2>1. Macs # {}
    BY MergeAssumption
  <2> QED BY <1>10, <2>1 DEF AllKnown
<1>12. \A u \in Items : u \in Uuids(v) /\ ClockIn(v, u) = c
  BY <1>4, <1>5 DEF Uuids, ClockIn
<1>13. StampedHave(vault, seen)
  <2>1. ClocksHave(v, K)
    BY <1>8, <1>9, <1>12 DEF ClocksHave
  <2> QED BY <1>5, <1>7, <2>1 DEF StampedHave
<1>14. CountsGiven(vault, seen)
  <2> SUFFICES ASSUME NEW n \in Macs, NEW e \in K
               PROVE  e.clock[n] <= OwnCount(vault[n], e.uuid, n)
    BY <1>11 DEF CountsGiven
  <2>1. OwnCount(v, e.uuid, n) = c[n]
    BY <1>9, <1>12 DEF OwnCount
  <2>2. e.clock = c /\ vault[n] = v /\ c[n] \in Nat
    BY <1>5, <1>8, <1>9 DEF Clocks
  <2> QED BY <2>1, <2>2
<1>15. Causal(AllKnown(vault, seen))
  BY <1>8, <1>9, <1>11 DEF Causal
<1>16. PICK F : F = files
  OBVIOUS
<1>17. \A i \in 1..1 : F[i] = f
  BY <1>2, <1>16
<1>18. Agree(Copies(vault, F, 1))
  <2>1. \A y \in Copies(vault, F, 1) : y.live = v.live
    BY <1>5, <1>6, <1>17 DEF Copies
  <2>2. \A u, w \in Items : v.live[u].value = v.live[w].value
    BY <1>5
  <2> QED BY <1>5, <2>1, <2>2 DEF Agree
<1>19. \A m \in Macs : HasContent(View(vault, m), KnownBy(vault, seen, m))
  BY <1>9, <1>10, StartContent
<1>20. HasContent(f, f.seen.changes)
  BY <1>5, <1>6, <1>9, StartContent
<1>21. AllHaveContent(vault, seen, F, 1)
  BY <1>17, <1>19, <1>20 DEF AllHaveContent
<1> QED BY <1>6, <1>13, <1>14, <1>15, <1>16, <1>18, <1>21 DEF ContentHolds, ContentInv

\* Every step keeps a race, or leaves the vaults the contents.
LEMMA ContentNext ==
  ASSUME ItemsAreNoCopies, ShapeInv, ShapeInv', [Next]_vars,
         DeleteRaced \/ SyncHolds, DeleteRaced \/ ContentHolds
  PROVE  (DeleteRaced \/ ContentHolds)'
<1>1. ASSUME NEW m \in Macs,
             \/ ReplaceSyncedFile(m)
             \/ \E i \in 0..Len(files) : SyncPulls(m, i) \/ SyncStops(m, i) \/ SyncPushes(m, i)
      PROVE  (DeleteRaced \/ ContentHolds)'
  <2>1. CASE DeleteRaced
    BY <1>1, <2>1, SyncRaced
  <2>2. CASE ~DeleteRaced
    BY <1>1, <2>2, SyncKeepsContent
  <2> QED BY <2>1, <2>2
<1>2. ASSUME NEW m \in Macs, NEW t \in 1..MaxTime, ChangesAt(m, t),
             NEW u, NEW gone \in BOOLEAN, NEW x, x = vault'[m], Changed(vault[m], x, u, gone),
             u \in DOMAIN x.live => x.live[u].version = [at |-> t, by |-> m],
             \A n \in Macs : n # m => vault'[n] = vault[n]
      PROVE  (DeleteRaced \/ ContentHolds)'
  <2>1. CASE DeleteRaced
    BY <1>2, <2>1, ChangeKeepsRace
  <2>2. CASE ~DeleteRaced
    BY <1>2, <2>2, ChangeKeepsContent
  <2> QED BY <2>1, <2>2
<1>3. ASSUME NEW m \in Macs, NEW t \in 1..MaxTime, NEW u \in DOMAIN vault[m].live,
             Delete(m, u, t)
      PROVE  (DeleteRaced \/ ContentHolds)'
  <2>1. PICK x : x = vault'[m]
    OBVIOUS
  <2>2. PICK v : v = vault[m]
    OBVIOUS
  <2>3. /\ Changed(v, x, u, TRUE) /\ Deleted(v, x, u)
        /\ \A n \in Macs : n # m => vault'[n] = vault[n]
        /\ ChangesAt(m, t)
    BY <1>3, <2>1, <2>2, DeleteChanged, DeleteDoes DEF Delete
  <2>4. u \notin DOMAIN x.live
    BY <2>3 DEF Deleted
  <2> QED BY <1>2, <2>1, <2>2, <2>3, <2>4
<1>4. ASSUME NEW m \in Macs, NEW t \in 1..MaxTime, NEW u \in DOMAIN vault[m].live,
             NEW content \in Contents, Edit(m, u, t, content)
      PROVE  (DeleteRaced \/ ContentHolds)'
  <2>1. PICK x : x = vault'[m]
    OBVIOUS
  <2>2. PICK v : v = vault[m]
    OBVIOUS
  <2>3. Changed(v, x, u, FALSE)
    BY <1>4, <2>1, <2>2, EditChanged
  <2>4. /\ x.live[u].version = [at |-> t, by |-> m]
        /\ \A n \in Macs : n # m => vault'[n] = vault[n]
    BY <1>4, <2>1, <2>2, EditDoes
  <2>5. ChangesAt(m, t)
    BY <1>4 DEF Edit
  <2> QED BY <1>2, <2>1, <2>2, <2>3, <2>4, <2>5
<1>5. CASE UNCHANGED vars
  BY <1>5 DEF vars, ContentHolds, DeleteRaced, Known
<1> QED BY <1>1, <1>3, <1>4, <1>5 DEF Next

\* Unless a delete raced with another change, every vault and file has the
\* contents of the changes that it merged.
THEOREM ContentInvHolds ==
  ASSUME ItemsAreNoCopies PROVE Spec => [](DeleteRaced \/ ContentHolds)
<1>1. Init => DeleteRaced \/ ContentHolds
  BY ContentInit
<1>2. ShapeInv /\ ShapeInv' /\ (DeleteRaced \/ SyncHolds)
        /\ (DeleteRaced \/ ContentHolds) /\ [Next]_vars
        => (DeleteRaced \/ ContentHolds)'
  BY ContentNext
<1> QED BY <1>1, <1>2, ShapeHolds, SyncInvHolds, PTL DEF Spec

\* What the vault of m has, from the contents of its stamp.
LEMMA StampsContent ==
  ASSUME ShapeInv, ContentHolds, NEW m \in Macs, NEW e \in seen[m].changes,
         e.uuid \notin Unstamped(vault[m]), ~Superseded(e, seen[m].changes)
  PROVE  /\ e.gone \/ CopyTouched(m, e.uuid) \/ Holds(m, e.uuid, e.value)
         /\ e.ask /\ e.uuid \in DOMAIN vault[m].live => vault[m].live[e.uuid].ask
<1>1. PICK v : v = vault[m]
  OBVIOUS
<1>2. PICK X : X = Stamp(v, m)
  OBVIOUS
<1>3. PICK K : K = KnownBy(vault, seen, m)
  OBVIOUS
<1>4. VaultTyped(v, Timely(time)) /\ Apart(v)
  BY <1>1 DEF ShapeInv, VaultShape
<1>5. DOMAIN X.live = DOMAIN v.live
      /\ \A u \in DOMAIN v.live : X.live[u].value = v.live[u].value
                                  /\ X.live[u].ask = v.live[u].ask
  BY <1>2, <1>4, StampFacts
<1>6. HasContent(X, K)
  <2>1. X = View(vault, m)
    BY <1>1, <1>2 DEF View
  <2> QED BY <1>3, <2>1 DEF ContentHolds, ContentInv, AllHaveContent
<1>7. K = seen[m].changes \cup Counted(v, m)
  BY <1>1, <1>3 DEF KnownBy
<1>8. \A f \in Counted(v, m) : f.uuid \in Unstamped(v)
  BY DEF Counted, Change
<1>9. e \in K /\ ~Superseded(e, K)
  BY <1>1, <1>7, <1>8 DEF Superseded
<1>10. Touched(e.uuid, K) => CopyTouched(m, e.uuid)
  BY <1>1, <1>7, <1>8 DEF Touched, CopyTouched
<1>11. HoldsIn(X, e.uuid, e.value) => Holds(m, e.uuid, e.value)
  BY <1>1, <1>5 DEF HoldsIn, Holds
<1> QED BY <1>1, <1>5, <1>6, <1>9, <1>10, <1>11 DEF HasContent, Kept, Asked

\* An edit that a Mac merged, and no later change of it, keeps its value, in
\* the credential or in a conflict copy, while no delete raced with another
\* change (merge.rs, merge_attached and keep_conflict_copy;
\* docs/operations/sync.md, section 6).
THEOREM EditsStay ==
  ASSUME ItemsAreNoCopies PROVE Spec => [](DeleteRaced \/ NothingLost)
<1>1. ShapeInv /\ (DeleteRaced \/ ContentHolds) => DeleteRaced \/ NothingLost
  <2>1. ShapeInv /\ ContentHolds => EditsKept
    BY StampsContent DEF EditsKept
  <2> QED BY <2>1 DEF NothingLost
<1> QED BY <1>1, ShapeHolds, ContentInvHolds, PTL

\* "Always ask" goes off only by an edit that saw it on, in whatever order the
\* Macs merge, while no delete raced with another change (merge.rs,
\* merge_attached: the setting that asks wins).
THEOREM AskStays ==
  ASSUME ItemsAreNoCopies PROVE Spec => [](DeleteRaced \/ AskKept)
<1>1. ShapeInv /\ (DeleteRaced \/ ContentHolds) => DeleteRaced \/ AskKept
  <2>1. ASSUME ShapeInv, ContentHolds, NEW m \in Macs, NEW e \in seen[m].changes,
               e.ask, ~Superseded(e, seen[m].changes),
               e.uuid \in DOMAIN vault[m].live \ Unstamped(vault[m])
        PROVE  vault[m].live[e.uuid].ask
    BY <2>1, StampsContent
  <2> QED BY <2>1 DEF AskKept
<1> QED BY <1>1, ShapeHolds, ContentInvHolds, PTL

(***************************************************************************)
(* The versions of two Macs.  D gives the time of each change; the version *)
(* of a credential is the one of the change that wins among the last ones  *)
(* that its clock counts.                                                  *)
(***************************************************************************)

\* The times of the changes A: those of one Mac come one after another, and
\* none is after the time T of its Mac.
DatesOf(D, A, T) ==
  /\ \A e \in A : D[e] \in Nat /\ D[e] <= T[e.mac]
  /\ \A e, f \in A :
       /\ e.uuid = f.uuid /\ e.mac = f.mac /\ e.clock[e.mac] < f.clock[e.mac]
       => D[e] < D[f]

\* The version of the change e.
Dated(D, e) == [at |-> D[e], by |-> e.mac]

\* The changes of u with a count that the clock c has from them.
LastOf(A, u, c) == {e \in A : e.uuid = u /\ e.clock[e.mac] = c[e.mac]}

\* The change e saw the change f, or came later, and f did not see it.
Beats(D, e, f) ==
  \/ Covers(e.clock, f.clock)
  \/ ~Covers(f.clock, e.clock) /\ Later(Dated(D, e), Dated(D, f))

\* The version w is of the one among them that wins.
OfWinner(D, A, u, c, w) ==
  \E e \in LastOf(A, u, c) :
    w = Dated(D, e) /\ \A f \in LastOf(A, u, c) : f = e \/ Beats(D, e, f)

\* The version of the record r of u is the one of the change that wins, or
\* the one of a conflict copy that nobody changed.
Chosen(D, A, u, r) ==
  \/ u \notin Items /\ r.clock = u.clock /\ r.version = u.version
  \/ OfWinner(D, A, u, r.clock, r.version)

\* Each count of the clock c of u is of a change of its Mac, or from the start.
Made(A, u, c) ==
  \A n \in Macs :
    c[n] = Base(u)[n] \/ \E e \in A : e.uuid = u /\ e.mac = n /\ e.clock[n] = c[n]

Placed(X, A, D) ==
  \A u \in DOMAIN X.live : Made(A, u, X.live[u].clock) /\ Chosen(D, A, u, X.live[u])

\* All that the versions need of the changes.
Ordered(A, D, T) == ChangesTyped(A) /\ Causal(A) /\ CountsNew(A) /\ DatesOf(D, A, T)

\* No two versions are each later than the other.
LEMMA DatedFacts ==
  ASSUME NEW A, NEW D, NEW T, Ordered(A, D, T)
  PROVE  /\ \A e \in A : /\ e.mac \in Macs /\ e.clock \in Clocks
                         /\ Dated(D, e).at \in Nat /\ Dated(D, e).at = D[e]
                         /\ Dated(D, e).by = e.mac /\ e.mac \in Nat
         /\ \A e, f \in A : ~(Later(Dated(D, e), Dated(D, f)) /\ Later(Dated(D, f), Dated(D, e)))
         /\ \A e, f \in A : e.mac # f.mac =>
              Later(Dated(D, e), Dated(D, f)) \/ Later(Dated(D, f), Dated(D, e))
         /\ \A e, f, g \in A :
              Later(Dated(D, e), Dated(D, f)) /\ Later(Dated(D, f), Dated(D, g))
              => Later(Dated(D, e), Dated(D, g))
<1>1. \A e \in A : e.mac \in Macs /\ e.clock \in Clocks
  BY DEF Ordered, ChangesTyped
<1>2. \A e \in A : D[e] \in Nat /\ e.mac \in Nat
  BY <1>1, MergeAssumption DEF Ordered, DatesOf
<1>3. \A e \in A : Dated(D, e).at = D[e] /\ Dated(D, e).by = e.mac
  BY DEF Dated
<1>4. \A e, f \in A : Later(Dated(D, e), Dated(D, f)) <=>
                        D[e] > D[f] \/ (D[e] = D[f] /\ e.mac > f.mac)
  BY <1>3 DEF Later
<1>5. \A e, f \in A : ~(Later(Dated(D, e), Dated(D, f)) /\ Later(Dated(D, f), Dated(D, e)))
  BY <1>2, <1>4
<1>6. \A e, f \in A : e.mac # f.mac =>
              Later(Dated(D, e), Dated(D, f)) \/ Later(Dated(D, f), Dated(D, e))
  BY <1>2, <1>4
<1>7. \A e, f, g \in A :
              Later(Dated(D, e), Dated(D, f)) /\ Later(Dated(D, f), Dated(D, g))
              => Later(Dated(D, e), Dated(D, g))
  BY <1>2, <1>4
<1> QED BY <1>1, <1>2, <1>3, <1>5, <1>6, <1>7

\* One clock has one version.
LEMMA SamePlace ==
  ASSUME NEW A, NEW D, NEW T, Ordered(A, D, T), NEW u, NEW r, NEW s,
         Chosen(D, A, u, r), Chosen(D, A, u, s), r.clock = s.clock
  PROVE  r.version = s.version
<1>1. PICK c : c = r.clock /\ c = s.clock
  OBVIOUS
<1>2. ASSUME NEW e \in LastOf(A, u, c), u \notin Items, c = u.clock PROVE FALSE
  <2>1. e \in A /\ e.uuid = u /\ e.clock[e.mac] = c[e.mac]
    BY <1>2 DEF LastOf
  <2>2. Base(u) = c
    BY <1>2 DEF Base
  <2>3. e.clock[e.mac] > c[e.mac]
    BY <2>1, <2>2 DEF Ordered, CountsNew
  <2>4. e.clock[e.mac] \in Nat
    BY <2>1, DatedFacts DEF Clocks
  <2> QED BY <2>1, <2>3, <2>4
<1>3. CASE u \notin Items /\ c = u.clock
  <2>1. r.version = u.version
    BY <1>1, <1>2, <1>3 DEF Chosen, OfWinner
  <2>2. s.version = u.version
    BY <1>1, <1>2, <1>3 DEF Chosen, OfWinner
  <2> QED BY <2>1, <2>2
<1>4. CASE ~(u \notin Items /\ c = u.clock)
  <2>1. PICK e \in LastOf(A, u, c) :
           r.version = Dated(D, e) /\ \A f \in LastOf(A, u, c) : f = e \/ Beats(D, e, f)
    BY <1>1, <1>4 DEF Chosen, OfWinner
  <2>2. PICK f \in LastOf(A, u, c) :
           s.version = Dated(D, f) /\ \A g \in LastOf(A, u, c) : g = f \/ Beats(D, f, g)
    BY <1>1, <1>4 DEF Chosen, OfWinner
  <2>3. e \in A /\ f \in A /\ e.uuid = f.uuid
    BY DEF LastOf
  <2>4. ASSUME e # f PROVE FALSE
    <3>1. Beats(D, e, f) /\ Beats(D, f, e)
      BY <2>1, <2>2, <2>4
    <3>2. Covers(e.clock, f.clock) /\ Covers(f.clock, e.clock)
      BY <2>3, <3>1, DatedFacts DEF Beats
    <3>3. e.clock \in Clocks /\ f.clock \in Clocks
      BY <2>3, DatedFacts
    <3>4. e.clock = f.clock
      BY <3>2, <3>3 DEF Covers, Clocks
    <3> QED BY <2>3, <2>4, <3>4 DEF Ordered, Causal
  <2> QED BY <2>1, <2>2, <2>4
<1> QED BY <1>3, <1>4

\* There are not more than two Macs.
TwoMacs == \A m, n, o \in Macs : m = n \/ m = o \/ n = o

\* A clock with the count of a change has what the change saw.
FitsAt(A, u, c) ==
  \A e \in A : e.uuid = u /\ c[e.mac] >= e.clock[e.mac] => Covers(c, e.clock)

\* The record r of u, as the versions of two Macs are.
PlacedAt(D, A, u, r) ==
  /\ r.clock \in Clocks /\ Made(A, u, r.clock) /\ Chosen(D, A, u, r)
  /\ FitsAt(A, u, r.clock) /\ Base(u) \in Clocks /\ Covers(r.clock, Base(u))

\* A record that saw a count of q after the other one's has not the first
\* change of p after it.
LEMMA LastChange ==
  ASSUME NEW A, NEW D, NEW T, Ordered(A, D, T), NEW u, NEW p \in Macs, NEW q \in Macs,
         NEW r, PlacedAt(D, A, u, r), NEW s, PlacedAt(D, A, u, s),
         r.clock[p] > s.clock[p], r.clock[q] < s.clock[q]
  PROVE  /\ \E e \in A : e.uuid = u /\ e.mac = p /\ e.clock[p] = r.clock[p]
                         /\ e.clock[q] < s.clock[q]
         /\ OfWinner(D, A, u, r.clock, r.version)
<1>1. PICK b \in Clocks : b = Base(u)
  BY DEF PlacedAt
<1>2. PICK c \in Clocks : c = r.clock
  BY DEF PlacedAt
<1>3. PICK d \in Clocks : d = s.clock
  BY DEF PlacedAt
<1>4. c[p] \in Nat /\ c[q] \in Nat /\ d[p] \in Nat /\ d[q] \in Nat /\ b[p] \in Nat
  BY DEF Clocks
<1>5. d[p] >= b[p] /\ d[q] >= b[q]
  BY <1>1, <1>3 DEF PlacedAt, Covers
<1>6. c[p] # b[p]
  BY <1>2, <1>3, <1>4, <1>5
<1>7. PICK e \in A : e.uuid = u /\ e.mac = p /\ e.clock[p] = c[p]
  BY <1>1, <1>2, <1>6 DEF PlacedAt, Made
<1>8. e.clock \in Clocks
  BY DatedFacts
<1>9. Covers(c, e.clock)
  BY <1>2, <1>4, <1>7 DEF PlacedAt, FitsAt
<1>10. e.clock[q] <= c[q] /\ e.clock[q] \in Nat
  BY <1>8, <1>9 DEF Covers, Clocks
<1>11. e.clock[q] < d[q]
  BY <1>2, <1>3, <1>4, <1>10
<1>12. u \in Items \/ c # u.clock
  <2>1. u \notin Items => Base(u) = u.clock
    BY DEF Base
  <2> QED BY <1>1, <1>6, <2>1
<1>13. OfWinner(D, A, u, c, r.version)
  BY <1>2, <1>12 DEF PlacedAt, Chosen
<1> QED BY <1>2, <1>3, <1>7, <1>11, <1>13

\* The version of r is of p's last change e, or of a change of q that came
\* later than e; then q's last change f, in s, came later than e as well.
LEMMA WonBefore ==
  ASSUME NEW A, NEW D, NEW T, Ordered(A, D, T), NEW u,
         NEW p \in Macs, NEW q \in Macs, p # q, Macs = {p, q},
         NEW r, PlacedAt(D, A, u, r), NEW s, PlacedAt(D, A, u, s),
         r.clock[p] > s.clock[p], r.clock[q] < s.clock[q],
         NEW e \in A, e.uuid = u, e.mac = p, e.clock[p] = r.clock[p], e.clock[q] < s.clock[q],
         NEW f \in A, f.uuid = u, f.mac = q, f.clock[q] = s.clock[q], f.clock[p] < r.clock[p]
  PROVE  \/ r.version = Dated(D, e)
         \/ \E g \in A : r.version = Dated(D, g) /\ Later(Dated(D, g), Dated(D, e))
                         /\ Later(Dated(D, f), Dated(D, g))
<1>0. OfWinner(D, A, u, r.clock, r.version)
  BY LastChange
<1>1. PICK g \in LastOf(A, u, r.clock) :
              /\ r.version = Dated(D, g)
              /\ \A h \in LastOf(A, u, r.clock) : h = g \/ Beats(D, g, h)
  BY <1>0 DEF OfWinner
<1>2. g \in A /\ g.uuid = u /\ g.clock[g.mac] = r.clock[g.mac] /\ g.mac \in Macs
  BY DatedFacts DEF LastOf
<1>3. e \in LastOf(A, u, r.clock)
  BY DEF LastOf
<1>4. CASE g = e
  BY <1>1, <1>4
<1>5. CASE g # e
  <2>1. Beats(D, g, e)
    BY <1>1, <1>3, <1>5
  <2>2. e.clock \in Clocks /\ f.clock \in Clocks /\ g.clock \in Clocks
    BY <1>2, DatedFacts
  <2>3. r.clock \in Clocks /\ s.clock \in Clocks
    BY DEF PlacedAt
  <2>4. g.mac = q
    <3>1. ASSUME g.mac = p PROVE FALSE
      <4>1. g.clock[p] = e.clock[p] /\ e.clock[p] \in Nat
        BY <1>2, <2>2, <3>1 DEF Clocks
      <4>2. Covers(g.clock, e.clock) /\ Covers(e.clock, g.clock)
        BY <1>2, <3>1, <4>1 DEF Ordered, Causal
      <4>3. g.clock = e.clock
        BY <2>2, <4>2 DEF Covers, Clocks
      <4> QED BY <1>2, <1>5, <4>3 DEF Ordered, Causal
    <3> QED BY <1>2, <3>1
  <2>5. g.clock[q] < f.clock[q]
    BY <1>2, <2>4
  <2>6. ~Covers(g.clock, e.clock)
    <3>1. ASSUME Covers(g.clock, e.clock) PROVE FALSE
      <4>1. g.clock[p] >= e.clock[p]
        BY <3>1 DEF Covers
      <4>2. f.clock[q] >= g.clock[q]
        BY <2>2, <2>5 DEF Clocks
      <4>3. Covers(f.clock, g.clock)
        BY <1>2, <2>4, <4>2 DEF Ordered, Causal
      <4>4. f.clock[p] >= g.clock[p]
        BY <4>3 DEF Covers
      <4>5. f.clock[p] \in Nat /\ g.clock[p] \in Nat /\ e.clock[p] \in Nat
        BY <2>2 DEF Clocks
      <4> QED BY <4>1, <4>4, <4>5
    <3> QED BY <3>1
  <2>7. Later(Dated(D, g), Dated(D, e))
    BY <2>1, <2>6 DEF Beats
  <2>8. D[g] < D[f]
    BY <1>2, <2>4, <2>5 DEF Ordered, DatesOf
  <2>9. D[g] \in Nat /\ D[f] \in Nat /\ Dated(D, g).at = D[g] /\ Dated(D, f).at = D[f]
    BY <1>2, DatedFacts
  <2>10. Later(Dated(D, f), Dated(D, g))
    BY <2>8, <2>9 DEF Later
  <2> QED BY <1>1, <1>2, <2>7, <2>10
<1> QED BY <1>4, <1>5

\* Two versions that did not see one another become the one of the last
\* change that wins.
LEMMA JoinPlace ==
  ASSUME NEW A, NEW D, NEW T, Ordered(A, D, T), NEW u,
         NEW p \in Macs, NEW q \in Macs, p # q, Macs = {p, q},
         NEW r, PlacedAt(D, A, u, r), NEW s, PlacedAt(D, A, u, s),
         r.clock[p] > s.clock[p], r.clock[q] < s.clock[q],
         NEW x, x.clock = Joined(r.clock, s.clock),
         Wins(x.version, r.version, s.version)
  PROVE  Made(A, u, x.clock) /\ Chosen(D, A, u, x)
<1>1. PICK e \in A : e.uuid = u /\ e.mac = p /\ e.clock[p] = r.clock[p]
                     /\ e.clock[q] < s.clock[q]
  BY LastChange
<1>2. PICK f \in A : f.uuid = u /\ f.mac = q /\ f.clock[q] = s.clock[q]
                     /\ f.clock[p] < r.clock[p]
  BY LastChange
<1>3. r.clock \in Clocks /\ s.clock \in Clocks
  BY DEF PlacedAt
<1>4. e.clock \in Clocks /\ f.clock \in Clocks
  BY DatedFacts
<1>5. PICK c \in Clocks : c = x.clock
  BY <1>3, JoinedFacts
<1>6. c[p] = r.clock[p] /\ c[q] = s.clock[q]
  BY <1>3, <1>5 DEF Joined, Clocks
<1>7. Made(A, u, c)
  BY <1>1, <1>2, <1>6 DEF Made
<1>8. \A g \in LastOf(A, u, c) : g = e \/ g = f
  <2> SUFFICES ASSUME NEW g \in LastOf(A, u, c) PROVE g = e \/ g = f
    OBVIOUS
  <2>1. g \in A /\ g.uuid = u /\ g.mac \in {p, q} /\ g.clock[g.mac] = c[g.mac]
        /\ g.clock \in Clocks
    BY DatedFacts DEF LastOf
  <2>2. ASSUME NEW h \in {e, f}, h.mac = g.mac PROVE g = h
    <3>1. h \in A /\ h.uuid = u /\ h.clock \in Clocks /\ h.clock[g.mac] = g.clock[g.mac]
          /\ g.clock[g.mac] \in Nat
      BY <1>1, <1>2, <1>4, <1>6, <2>1, <2>2 DEF Clocks
    <3>2. Covers(g.clock, h.clock) /\ Covers(h.clock, g.clock)
      BY <2>1, <2>2, <3>1 DEF Ordered, Causal
    <3>3. g.clock = h.clock
      BY <2>1, <3>1, <3>2 DEF Covers, Clocks
    <3> QED BY <2>1, <3>1, <3>3 DEF Ordered, Causal
  <2> QED BY <1>1, <1>2, <2>1, <2>2
<1>9. e \in LastOf(A, u, c) /\ f \in LastOf(A, u, c)
  BY <1>1, <1>2, <1>6 DEF LastOf
<1>10. ~Covers(e.clock, f.clock) /\ ~Covers(f.clock, e.clock)
  <2>1. e.clock[q] < f.clock[q] /\ f.clock[p] < e.clock[p]
    BY <1>1, <1>2
  <2> QED BY <1>4, <2>1 DEF Covers, Clocks
<1>11. \/ r.version = Dated(D, e)
       \/ \E g \in A : r.version = Dated(D, g) /\ Later(Dated(D, g), Dated(D, e))
                       /\ Later(Dated(D, f), Dated(D, g))
  BY <1>1, <1>2, WonBefore
<1>12. \/ s.version = Dated(D, f)
       \/ \E g \in A : s.version = Dated(D, g) /\ Later(Dated(D, g), Dated(D, f))
                       /\ Later(Dated(D, e), Dated(D, g))
  BY <1>1, <1>2, WonBefore
<1>13. ASSUME Later(Dated(D, e), Dated(D, f)) PROVE x.version = Dated(D, e)
  <2>1. r.version = Dated(D, e)
    BY <1>11, <1>13, DatedFacts
  <2>2. \E g \in A : s.version = Dated(D, g) /\ Later(Dated(D, e), Dated(D, g))
    BY <1>12, <1>13
  <2>3. Later(r.version, s.version) /\ ~Later(s.version, r.version)
    BY <2>1, <2>2, DatedFacts
  <2> QED BY <2>1, <2>3 DEF Wins
<1>14. ASSUME Later(Dated(D, f), Dated(D, e)) PROVE x.version = Dated(D, f)
  <2>1. s.version = Dated(D, f)
    BY <1>12, <1>14, DatedFacts
  <2>2. \E g \in A : r.version = Dated(D, g) /\ Later(Dated(D, f), Dated(D, g))
    BY <1>11, <1>14
  <2>3. Later(s.version, r.version) /\ ~Later(r.version, s.version)
    BY <2>1, <2>2, DatedFacts
  <2> QED BY <2>1, <2>3 DEF Wins
<1>15. Later(Dated(D, e), Dated(D, f)) \/ Later(Dated(D, f), Dated(D, e))
  BY <1>1, <1>2, DatedFacts
<1>16. Chosen(D, A, u, x)
  BY <1>5, <1>8, <1>9, <1>10, <1>13, <1>14, <1>15 DEF Chosen, OfWinner, Beats
<1> QED BY <1>5, <1>7, <1>16

\* A live credential of a copy with the clocks and versions as they are.
LEMMA PlacedIn ==
  ASSUME NEW W, NEW X, CopyTyped(X, W), NEW A, Fits(X, A), BasesBelow(X),
         NEW D, Placed(X, A, D), NEW u \in DOMAIN X.live
  PROVE  PlacedAt(D, A, u, X.live[u])
<1>1. X.live[u].clock \in Clocks /\ ClockIn(X, u) = X.live[u].clock /\ u \in Uuids(X)
  BY ClockInTyped DEF Uuids
<1>2. Base(u) \in Clocks /\ Covers(X.live[u].clock, Base(u))
  BY <1>1 DEF BasesBelow
<1>3. FitsAt(A, u, X.live[u].clock)
  BY DEF Fits, FitsAt
<1>4. Made(A, u, X.live[u].clock) /\ Chosen(D, A, u, X.live[u])
  BY DEF Placed
<1> QED BY <1>1, <1>2, <1>3, <1>4 DEF PlacedAt

\* A clock and a version are all that counts.
LEMMA PlacedLike ==
  ASSUME NEW D, NEW A, NEW u, NEW r, Made(A, u, r.clock), Chosen(D, A, u, r),
         NEW s, s.clock = r.clock, s.version = r.version
  PROVE  Made(A, u, s.clock) /\ Chosen(D, A, u, s)
BY DEF Chosen

\* A merge leaves the versions as the changes say.
LEMMA UnionPlaced ==
  ASSUME ItemsAreNoCopies, TwoMacs, NEW W, NEW X, CopyTyped(X, W), NEW Y, CopyTyped(Y, W),
         NEW x, Union(x, X, Y), RecordsMerged(x, X, Y),
         NEW A, NEW D, NEW T, Ordered(A, D, T), Fits(X, A), Fits(Y, A),
         BasesBelow(X), BasesBelow(Y), Placed(X, A, D), Placed(Y, A, D)
  PROVE  Placed(x, A, D)
<1> SUFFICES ASSUME NEW u \in DOMAIN x.live
             PROVE  Made(A, u, x.live[u].clock) /\ Chosen(D, A, u, x.live[u])
  BY DEF Placed
<1>1. GivesRecord(x, u, X, Y)
  BY DEF RecordsMerged
<1>2. CASE u \in DOMAIN X.live \cap DOMAIN Y.live
  <2>1. PICK r : r = X.live[u]
    OBVIOUS
  <2>2. PICK s : s = Y.live[u]
    OBVIOUS
  <2>3. PlacedAt(D, A, u, r) /\ PlacedAt(D, A, u, s)
    BY <1>2, <2>1, <2>2, PlacedIn
  <2>4. Settled(x, u, X, Y)
    BY <1>1, <1>2 DEF GivesRecord
  <2>5. CASE Concurrent(r.clock, s.clock)
    <3>1. r.clock \in Clocks /\ s.clock \in Clocks
      BY <2>3 DEF PlacedAt
    <3>2. PICK p \in Macs : r.clock[p] > s.clock[p]
      BY <2>5, <3>1 DEF Concurrent, Covers, Clocks
    <3>3. PICK q \in Macs : r.clock[q] < s.clock[q]
      BY <2>5, <3>1 DEF Concurrent, Covers, Clocks
    <3>4. p # q
      BY <3>1, <3>2, <3>3 DEF Clocks
    <3>5. Macs = {p, q}
      BY <3>4 DEF TwoMacs
    <3>6. PICK y : y = x.live[u]
      OBVIOUS
    <3>7. y.clock = Joined(r.clock, s.clock)
      BY <1>2, <2>1, <2>2, <3>6 DEF Union, Uuids
    <3>8. Wins(y.version, r.version, s.version)
      BY <2>1, <2>2, <2>4, <2>5, <3>6 DEF Settled
    <3> QED BY <2>3, <3>2, <3>3, <3>4, <3>5, <3>6, <3>7, <3>8, JoinPlace
  <2>6. CASE ~Concurrent(r.clock, s.clock) /\ Covers(r.clock, s.clock)
    <3>1. x.live[u] = r
      BY <2>1, <2>2, <2>4, <2>6 DEF Settled
    <3> QED BY <2>3, <3>1 DEF PlacedAt
  <2>7. CASE ~Concurrent(r.clock, s.clock) /\ ~Covers(r.clock, s.clock)
    <3>1. Alike(x.live[u], s)
      BY <2>1, <2>2, <2>4, <2>7 DEF Settled
    <3> QED BY <2>3, <3>1, PlacedLike DEF PlacedAt, Alike
  <2> QED BY <2>5, <2>6, <2>7
<1>3. CASE u \in DOMAIN X.live \ DOMAIN Y.live
  <2>1. x.live[u] = X.live[u]
    BY <1>1, <1>3 DEF GivesRecord
  <2> QED BY <1>3, <2>1 DEF Placed
<1>4. CASE u \in DOMAIN Y.live \ DOMAIN X.live
  <2>1. Alike(x.live[u], Y.live[u])
    BY <1>1, <1>4 DEF GivesRecord
  <2>2. Made(A, u, Y.live[u].clock) /\ Chosen(D, A, u, Y.live[u])
    BY <1>4 DEF Placed
  <2> QED BY <2>1, <2>2, PlacedLike DEF Alike
<1>5. CASE u \notin DOMAIN X.live \cup DOMAIN Y.live
  <2>1. PICK w, loser : CopiedFrom(u, w, loser, X, Y) /\ AsLost(x.live[u], loser)
    BY <1>1, <1>5 DEF GivesRecord
  <2>2. u = CopyOf(w, loser)
    BY <2>1 DEF CopiedFrom
  <2>3. u.clock = loser.clock /\ u.version = loser.version /\ u \notin Items
    BY <2>2 DEF CopyOf, ItemsAreNoCopies
  <2>4. x.live[u].clock = u.clock /\ x.live[u].version = u.version /\ Base(u) = u.clock
    BY <2>1, <2>3 DEF AsLost, Base
  <2> QED BY <2>3, <2>4 DEF Made, Chosen
<1> QED BY <1>2, <1>3, <1>4, <1>5

(***************************************************************************)
(* The steps keep the versions of two Macs.                                *)
(***************************************************************************)

\* The versions of the vaults and the files.
AllPlaced(V, S, F, len, D) ==
  /\ \A n \in Macs : Placed(View(V, n), AllKnown(V, S), D)
  /\ \A i \in 1..len : Placed(F[i], AllKnown(V, S), D)

DatesInv(V, S, F, len, T, D) == DatesOf(D, AllKnown(V, S), T) /\ AllPlaced(V, S, F, len, D)

\* Two copies with the same credentials have the same versions.
LEMMA LikePlaced ==
  ASSUME NEW X, NEW Y, Like(X, Y), NEW A, NEW D, Placed(X, A, D)
  PROVE  Placed(Y, A, D)
<1>1. DOMAIN Y.live = DOMAIN X.live /\ \A u \in DOMAIN X.live : Y.live[u] = X.live[u]
  BY DEF Like
<1> QED BY <1>1 DEF Placed

\* The vault of m becomes x, which it can keep.
LEMMA KeepDates ==
  ASSUME NEW W, NEW V, NEW S, NEW F, NEW len \in Nat, ShapeOf(V, S, F, W, len),
         SyncInv(V, S, F, len), NEW T, NEW D, DatesInv(V, S, F, len, T, D),
         NEW m \in Macs, NEW x, NEW k, CanKeep(W, V, S, F, len, m, x, k),
         Placed(x, AllKnown(V, S), D),
         NEW Vn, Replaced(Vn, V, m, x), NEW Sn, Replaced(Sn, S, m, k)
  PROVE  DatesInv(Vn, Sn, F, len, T, D)
<1>1. AllKnown(Vn, Sn) = AllKnown(V, S)
  BY KeepSync
<1>2. Vn[m] = x /\ \A n \in Macs : n # m => Vn[n] = V[n]
  BY DEF Replaced, ShapeOf
<1>3. VaultTyped(x, W) /\ Stamped(x)
  BY DEF CanKeep
<1>4. Like(x, View(Vn, m))
  BY <1>2, <1>3, StampAgain DEF View
<1>5. Placed(View(Vn, m), AllKnown(V, S), D)
  BY <1>4, LikePlaced
<1>6. ASSUME NEW n \in Macs, n # m PROVE Placed(View(Vn, n), AllKnown(V, S), D)
  <2>1. View(Vn, n) = View(V, n)
    BY <1>2, <1>6 DEF View
  <2> QED BY <2>1 DEF DatesInv, AllPlaced
<1> QED BY <1>1, <1>5, <1>6 DEF DatesInv, AllPlaced

\* The merge of a file.
LEMMA MergeDates ==
  ASSUME ItemsAreNoCopies, TwoMacs,
         NEW W, NEW V, NEW S, NEW F, NEW len \in Nat, ShapeOf(V, S, F, W, len),
         SyncInv(V, S, F, len), Causal(AllKnown(V, S)), ~Raced(AllKnown(V, S)),
         NEW T, NEW D, DatesInv(V, S, F, len, T, D),
         NEW m \in Macs, NEW i \in 1..len,
         NEW x, x = Merge(V[m], m, F[i]),
         NEW k, k = [changes |-> KnownBy(V, S, m) \cup F[i].seen.changes,
                     files |-> S[m].files \cup F[i].seen.files],
         NEW Vn, Replaced(Vn, V, m, x), NEW Sn, Replaced(Sn, S, m, k)
  PROVE  DatesInv(Vn, Sn, F, len, T, D)
<1> PICK A : A = AllKnown(V, S)
  OBVIOUS
<1> PICK Y : Y = F[i]
  OBVIOUS
<1> PICK X : X = View(V, m)
  OBVIOUS
<1> PICK v : v = V[m]
  OBVIOUS
<1>1. k.changes = KnownBy(V, S, m) \cup F[i].seen.changes
      /\ k.files = S[m].files \cup F[i].seen.files
  OBVIOUS
<1>2. CanKeep(W, V, S, F, len, m, x, k) /\ Union(x, X, Y) /\ CopiesNew(X, Y)
  BY <1>1, MergeKeeps
<1>3. VaultTyped(v, W) /\ Apart(v) /\ CopyTyped(Y, W)
  BY DEF ShapeOf
<1>4. X = Stamp(v, m) /\ x = Merge(v, m, Y)
  BY DEF View
<1>5. CopyTyped(X, W)
  BY <1>3, <1>4, ViewKnows
<1>6. RecordsMerged(x, X, Y)
  BY <1>2, <1>3, <1>4, MergeRecords DEF CopyTyped
<1>7. Fits(X, A) /\ Fits(Y, A) /\ BasesBelow(X) /\ BasesBelow(Y) /\ CountsNew(A)
  BY DEF SyncInv, VaultsGood, FilesGood, Good
<1>8. Ordered(A, D, T)
  BY <1>7, KnownFacts DEF Ordered, DatesInv
<1>9. Placed(X, A, D) /\ Placed(Y, A, D)
  BY DEF DatesInv, AllPlaced
<1>10. Placed(x, A, D)
  BY <1>2, <1>3, <1>5, <1>6, <1>7, <1>8, <1>9, UnionPlaced
<1> QED BY <1>2, <1>10, KeepDates

\* The stamp of the vault.
LEMMA StampDates ==
  ASSUME NEW W, NEW V, NEW S, NEW F, NEW len \in Nat, ShapeOf(V, S, F, W, len),
         SyncInv(V, S, F, len), NEW T, NEW D, DatesInv(V, S, F, len, T, D), NEW m \in Macs,
         NEW k, k = [changes |-> KnownBy(V, S, m), files |-> S[m].files],
         NEW x, x = View(V, m),
         NEW Vn, Replaced(Vn, V, m, x), NEW Sn, Replaced(Sn, S, m, k)
  PROVE  DatesInv(Vn, Sn, F, len, T, D)
<1>1. k.changes = KnownBy(V, S, m) /\ k.files = S[m].files
  OBVIOUS
<1>2. CanKeep(W, V, S, F, len, m, x, k)
  BY <1>1, StampKeeps
<1>3. Placed(x, AllKnown(V, S), D)
  BY DEF DatesInv, AllPlaced
<1> QED BY <1>2, <1>3, KeepDates

\* The changes that are known are the same, and so are the files but for a new
\* file f of the vault of m.
LEMMA AppendDates ==
  ASSUME NEW W, NEW V, NEW S, NEW F, NEW len \in Nat, ShapeOf(V, S, F, W, len),
         NEW T, NEW D, DatesInv(V, S, F, len, T, D), NEW m \in Macs,
         NEW f, FileOf(f, V, S, m, len),
         NEW Sn, \A n \in Macs : Sn[n].changes = S[n].changes,
         NEW Fn, Extended(Fn, F, len, f)
  PROVE  DatesInv(V, Sn, Fn, len + 1, T, D)
<1>1. \A n \in Macs : KnownBy(V, Sn, n) = KnownBy(V, S, n)
  BY DEF KnownBy
<1>2. AllKnown(V, Sn) = AllKnown(V, S)
  BY <1>1 DEF AllKnown
<1>3. /\ \A i \in 1..len : Fn[i] = F[i]
      /\ Fn[len + 1] = f /\ \A i \in 1..(len + 1) : i \in 1..len \/ i = len + 1
  BY DEF Extended
<1>4. PICK v : v = V[m]
  OBVIOUS
<1>5. Like(v, f) /\ Stamped(v)
  BY <1>4 DEF FileOf
<1>6. Like(v, View(V, m))
  BY <1>4, <1>5, StampAgain DEF ShapeOf, View
<1>7. Like(View(V, m), f)
  BY <1>5, <1>6 DEF Like
<1>8. Placed(f, AllKnown(V, S), D)
  BY <1>7, LikePlaced DEF DatesInv, AllPlaced
<1> QED BY <1>2, <1>3, <1>8 DEF DatesInv, AllPlaced

\* The vaults and what they know are what they were.
LEMMA SameDates ==
  ASSUME NEW V, NEW S, NEW F, NEW len, NEW T, NEW D, DatesInv(V, S, F, len, T, D),
         NEW Vn, \A n \in Macs : Vn[n] = V[n], NEW Sn, \A n \in Macs : Sn[n] = S[n]
  PROVE  DatesInv(Vn, Sn, F, len, T, D)
<1>1. \A n \in Macs : View(Vn, n) = View(V, n) /\ KnownBy(Vn, Sn, n) = KnownBy(V, S, n)
  BY DEF View, KnownBy
<1>2. AllKnown(Vn, Sn) = AllKnown(V, S)
  BY <1>1 DEF AllKnown
<1> QED BY <1>1, <1>2 DEF DatesInv, AllPlaced

\* The vault of m is written over the file.
LEMMA WriteDates ==
  ASSUME NEW W, NEW V, NEW S, NEW F, NEW len \in Nat, ShapeOf(V, S, F, W, len),
         SyncInv(V, S, F, len), NEW T, NEW D, DatesInv(V, S, F, len, T, D), NEW m \in Macs,
         NEW f, Written(f, V, S, m, len),
         NEW x, x = Stamp(V[m], m), NEW Vn, Replaced(Vn, V, m, x),
         NEW l, l = f.seen, NEW Sn, Replaced(Sn, S, m, l),
         NEW Fn, Extended(Fn, F, len, f)
  PROVE  DatesInv(Vn, Sn, Fn, len + 1, T, D)
<1>1. x = View(V, m)
  BY DEF View
<1>2. PICK k : k = [changes |-> KnownBy(V, S, m), files |-> S[m].files]
  OBVIOUS
<1>3. PICK R : R = [S EXCEPT ![m] = k]
  OBVIOUS
<1>4. Replaced(Vn, V, m, x) /\ Replaced(R, S, m, k)
  BY <1>3 DEF Replaced
<1>5. /\ DOMAIN Vn = Macs /\ Vn[m] = x
      /\ DOMAIN R = Macs /\ R[m] = k /\ \A n \in Macs \ {m} : R[n] = S[n]
      /\ DOMAIN Sn = Macs /\ Sn[m] = l /\ \A n \in Macs \ {m} : Sn[n] = S[n]
  BY <1>4 DEF ShapeOf, Replaced
<1>6. DatesInv(Vn, R, F, len, T, D)
  BY <1>1, <1>2, <1>4, StampDates
<1>7. VaultTyped(x, W) /\ Apart(x) /\ Stamped(x)
  BY ViewKnows DEF ShapeOf, CopyTyped
<1>8. SeenShape(k, len)
  <2>1. ChangesTyped(KnownBy(V, S, m)) /\ S[m].files \subseteq 1..len
    BY KnownFacts DEF ShapeOf, SeenShape
  <2> QED BY <1>2, <2>1 DEF SeenShape
<1>9. ShapeOf(Vn, R, F, W, len)
  BY <1>4, <1>7, <1>8, ShapeReplaced
<1>10. /\ f.seen.changes = R[m].changes /\ f.seen.files = R[m].files \cup {len + 1}
       /\ l.changes = R[m].changes
  BY <1>2, <1>5 DEF Written
<1>11. FileOf(f, Vn, R, m, len)
  <2>1. Like(x, f)
    BY DEF Like, Written
  <2> QED BY <1>5, <1>7, <1>10, <2>1 DEF FileOf
<1>12. \A n \in Macs : Sn[n].changes = R[n].changes
  BY <1>5, <1>10
<1> QED BY <1>6, <1>9, <1>11, <1>12, AppendDates

\* The changes A and B, with the times D and E, have the same changes of u with
\* counts that the clock c has.
SameUpTo(A, D, B, E, u, c) ==
  /\ \A e \in A : e.uuid = u => (e \in B /\ E[e] = D[e]) \/ e.clock[e.mac] > c[e.mac]
  /\ \A e \in B : e.uuid = u => (e \in A /\ E[e] = D[e]) \/ e.clock[e.mac] > c[e.mac]

\* Then they say the same of a record with this clock.
LEMMA SameLast ==
  ASSUME NEW A, ChangesTyped(A), NEW B, ChangesTyped(B), NEW D, NEW E,
         NEW u, NEW r, r.clock \in Clocks, SameUpTo(A, D, B, E, u, r.clock),
         Made(A, u, r.clock), Chosen(D, A, u, r)
  PROVE  Made(B, u, r.clock) /\ Chosen(E, B, u, r)
<1>1. PICK c \in Clocks : c = r.clock
  OBVIOUS
<1>2. ASSUME NEW e \in A, e.uuid = u, e.clock[e.mac] = c[e.mac] PROVE e \in B /\ E[e] = D[e]
  <2>1. e.mac \in Macs
    BY <1>2 DEF ChangesTyped
  <2>2. ~(e.clock[e.mac] > c[e.mac])
    BY <1>2, <2>1 DEF Clocks
  <2> QED BY <1>1, <1>2, <2>2 DEF SameUpTo
<1>3. ASSUME NEW e \in B, e.uuid = u, e.clock[e.mac] = c[e.mac] PROVE e \in A /\ E[e] = D[e]
  <2>1. e.mac \in Macs
    BY <1>3 DEF ChangesTyped
  <2>2. ~(e.clock[e.mac] > c[e.mac])
    BY <1>3, <2>1 DEF Clocks
  <2> QED BY <1>1, <1>3, <2>2 DEF SameUpTo
<1>4. Made(B, u, c)
  <2> SUFFICES ASSUME NEW n \in Macs, c[n] # Base(u)[n]
               PROVE  \E e \in B : e.uuid = u /\ e.mac = n /\ e.clock[n] = c[n]
    BY DEF Made
  <2>1. PICK e \in A : e.uuid = u /\ e.mac = n /\ e.clock[n] = c[n]
    BY <1>1 DEF Made
  <2> QED BY <1>2, <2>1
<1>5. LastOf(B, u, c) = LastOf(A, u, c) /\ \A e \in LastOf(A, u, c) : E[e] = D[e]
  BY <1>2, <1>3 DEF LastOf
<1>6. \A e \in LastOf(A, u, c) : Dated(E, e) = Dated(D, e)
  BY <1>5 DEF Dated
<1>7. ASSUME OfWinner(D, A, u, c, r.version) PROVE OfWinner(E, B, u, c, r.version)
  <2>1. PICK e \in LastOf(A, u, c) :
           r.version = Dated(D, e) /\ \A f \in LastOf(A, u, c) : f = e \/ Beats(D, e, f)
    BY <1>7 DEF OfWinner
  <2>2. \A f \in LastOf(A, u, c) : f = e \/ Beats(E, e, f)
    BY <1>6, <2>1 DEF Beats
  <2> QED BY <1>5, <1>6, <2>1, <2>2 DEF OfWinner
<1> QED BY <1>1, <1>4, <1>7 DEF Chosen

\* E has the time t for the change e1, and the times D for the others.
RedatedAt(E, D, B, e1, t) == \A e \in B : E[e] = IF e = e1 THEN t ELSE D[e]

\* The times of the Macs go from T to U with a change of m at the time t.
Passes(T, U, m, t) ==
  T \in [Macs -> Nat] /\ t \in Nat /\ t > T[m] /\ U = [T EXCEPT ![m] = t]

\* The times after a change of m at the time t.
LEMMA MoreDates ==
  ASSUME NEW V, NEW Vn, NEW S, NEW u, NEW m \in Macs, NEW e1, OneMore(e1, V, Vn, S, u, m),
         ChangesTyped(AllKnown(V, S)),
         NEW T, NEW U, NEW t, Passes(T, U, m, t),
         NEW D, DatesOf(D, AllKnown(V, S), T),
         NEW E, RedatedAt(E, D, AllKnown(Vn, S), e1, t)
  PROVE  DatesOf(E, AllKnown(Vn, S), U)
<1> PICK A : A = AllKnown(V, S)
  OBVIOUS
<1> PICK B : B = AllKnown(Vn, S)
  OBVIOUS
<1>1. /\ e1 \in B /\ e1.uuid = u /\ e1.mac = m /\ E[e1] = t
      /\ ClockIn(V[m], u)[m] \in Nat /\ e1.clock[m] = ClockIn(V[m], u)[m] + 1
  BY DEF OneMore, RedatedAt, Clocks
<1>2. t \in Nat /\ T \in [Macs -> Nat] /\ U \in [Macs -> Nat] /\ t > T[m]
      /\ U[m] = t /\ \A n \in Macs : n # m => U[n] = T[n]
  BY DEF Passes
<1>3. ASSUME NEW f \in B, f # e1
      PROVE  /\ f \in A /\ f.mac \in Macs /\ f.clock \in Clocks /\ E[f] = D[f]
             /\ f.uuid = u => f.clock[m] \in Nat /\ f.clock[m] < e1.clock[m]
  <2>1. f \in A /\ (f.uuid = u => f.clock[m] <= ClockIn(V[m], u)[m]) /\ E[f] = D[f]
    BY <1>3 DEF OneMore, RedatedAt
  <2>2. f.mac \in Macs /\ f.clock \in Clocks
    BY <2>1 DEF ChangesTyped
  <2> QED BY <1>1, <2>1, <2>2 DEF Clocks
<1>4. \A f \in A : D[f] \in Nat /\ D[f] <= T[f.mac]
  BY DEF DatesOf
<1>5. ASSUME NEW e \in B PROVE E[e] \in Nat /\ E[e] <= U[e.mac]
  <2>1. CASE e = e1
    BY <1>1, <1>2, <2>1
  <2>2. CASE e # e1
    BY <1>2, <1>3, <1>4, <2>2
  <2> QED BY <2>1, <2>2
<1>6. ASSUME NEW e \in B, NEW f \in B,
             e.uuid = f.uuid, e.mac = f.mac, e.clock[e.mac] < f.clock[e.mac]
      PROVE  E[e] < E[f]
  <2>1. CASE e # e1 /\ f # e1
    BY <1>3, <1>6, <2>1 DEF DatesOf
  <2>2. CASE e # e1 /\ f = e1
    BY <1>1, <1>2, <1>3, <1>4, <1>6, <2>2
  <2>3. CASE e = e1 /\ f # e1
    BY <1>1, <1>3, <1>6, <2>3
  <2>4. CASE e = e1 /\ f = e1
    BY <1>1, <1>6, <2>4
  <2> QED BY <2>1, <2>2, <2>3, <2>4
<1> QED BY <1>5, <1>6 DEF DatesOf

\* A copy that has not the count of the change has the version that it had.
LEMMA OldPlaced ==
  ASSUME NEW V, NEW Vn, NEW S, NEW u, NEW m \in Macs, NEW e1, OneMore(e1, V, Vn, S, u, m),
         ChangesTyped(AllKnown(V, S)), ChangesTyped(AllKnown(Vn, S)),
         NEW t, NEW D, NEW E, RedatedAt(E, D, AllKnown(Vn, S), e1, t),
         NEW k, NEW r, r.clock \in Clocks, k = u => r.clock[m] <= ClockIn(V[m], u)[m],
         Made(AllKnown(V, S), k, r.clock), Chosen(D, AllKnown(V, S), k, r)
  PROVE  Made(AllKnown(Vn, S), k, r.clock) /\ Chosen(E, AllKnown(Vn, S), k, r)
<1> PICK A : A = AllKnown(V, S)
  OBVIOUS
<1> PICK B : B = AllKnown(Vn, S)
  OBVIOUS
<1>1. /\ e1 \in B /\ e1.uuid = u /\ e1.mac = m
      /\ ClockIn(V[m], u)[m] \in Nat /\ e1.clock[m] = ClockIn(V[m], u)[m] + 1
  BY DEF OneMore, Clocks
<1>2. k = u => e1.clock[m] > r.clock[m]
  BY <1>1 DEF Clocks
<1>3. \A f \in A \ B : f.uuid = u /\ f.mac = m /\ f.clock = e1.clock
  BY DEF OneMore
<1>4. \A f \in B : f # e1 => f \in A /\ E[f] = D[f]
  BY DEF OneMore, RedatedAt
<1>5. ASSUME NEW f \in A, f.uuid = k
      PROVE  (f \in B /\ E[f] = D[f]) \/ f.clock[f.mac] > r.clock[f.mac]
  BY <1>1, <1>2, <1>3, <1>4, <1>5
<1>6. ASSUME NEW f \in B, f.uuid = k
      PROVE  (f \in A /\ E[f] = D[f]) \/ f.clock[f.mac] > r.clock[f.mac]
  BY <1>1, <1>2, <1>4, <1>6
<1>7. SameUpTo(A, D, B, E, k, r.clock)
  BY <1>5, <1>6 DEF SameUpTo
<1> QED BY <1>7, SameLast

\* The credential that was changed has the version of the change.
LEMMA NewPlaced ==
  ASSUME NEW B, ChangesTyped(B), Causal(B), NEW E, NEW u, NEW m \in Macs,
         NEW e1 \in B, e1.uuid = u, e1.mac = m,
         NEW c \in Clocks, Made(B, u, c), \A n \in Macs : n # m => e1.clock[n] = c[n],
         NEW r, r.clock = e1.clock, r.version = Dated(E, e1)
  PROVE  Made(B, u, r.clock) /\ Chosen(E, B, u, r)
<1>1. Made(B, u, r.clock)
  <2> SUFFICES ASSUME NEW n \in Macs, r.clock[n] # Base(u)[n]
               PROVE  \E e \in B : e.uuid = u /\ e.mac = n /\ e.clock[n] = r.clock[n]
    BY DEF Made
  <2>1. CASE n = m
    BY <2>1
  <2>2. CASE n # m
    BY <2>2 DEF Made
  <2> QED BY <2>1, <2>2
<1>2. e1 \in LastOf(B, u, e1.clock)
  BY DEF LastOf
<1>3. ASSUME NEW f \in LastOf(B, u, e1.clock) PROVE Beats(E, e1, f)
  <2>1. /\ f \in B /\ f.uuid = u /\ f.clock[f.mac] = e1.clock[f.mac]
        /\ f.mac \in Macs /\ f.clock \in Clocks /\ e1.clock \in Clocks
    BY DEF LastOf, ChangesTyped
  <2>2. e1.clock[f.mac] >= f.clock[f.mac]
    BY <2>1 DEF Clocks
  <2> QED BY <2>1, <2>2 DEF Causal, Beats
<1>4. OfWinner(E, B, u, r.clock, r.version)
  BY <1>2, <1>3 DEF OfWinner
<1> QED BY <1>1, <1>4 DEF Chosen

\* The credential u of x, if it is live, is of a change of m at the time t.
WrittenAt(x, u, m, t) == u \in DOMAIN x.live => x.live[u].version = [at |-> t, by |-> m]

\* The versions after a change of m at the time t.
LEMMA ChangeDates ==
  ASSUME NEW W, NEW V, NEW S, NEW F, NEW len \in Nat, ShapeOf(V, S, F, W, len),
         SyncInv(V, S, F, len), ContentInv(V, S, F, len), NEW m \in Macs, NEW v, v = V[m],
         NEW x, VaultTyped(x, W), Apart(x),
         NEW u, NEW gone \in BOOLEAN, Changed(v, x, u, gone),
         NEW T, NEW U, NEW t, Passes(T, U, m, t), WrittenAt(x, u, m, t),
         NEW Vn, \A n \in Macs : Vn[n] = IF n = m THEN x ELSE V[n],
         ShapeOf(Vn, S, F, W, len), ContentInv(Vn, S, F, len),
         NEW D, DatesInv(V, S, F, len, T, D)
  PROVE  \E E : DatesInv(Vn, S, F, len, U, E)
<1>1. PICK X : X = Stamp(v, m)
  OBVIOUS
<1>2. PICK Y : Y = Stamp(x, m)
  OBVIOUS
<1>3. PICK c : c = ClockIn(Y, u)
  OBVIOUS
<1>4. PICK A : A = AllKnown(V, S)
  OBVIOUS
<1>5. PICK B : B = AllKnown(Vn, S)
  OBVIOUS
<1>6. VaultTyped(v, W) /\ Apart(v)
  BY DEF ShapeOf
<1>7. ViewsChanged(X, Y, v, u, gone, m)
  BY <1>1, <1>2, <1>6, ChangedViews
<1>8. PICK e1 : /\ Adds(Counted(x, m), Counted(v, m), e1, u, gone, c, m)
                /\ Tells(e1, Counted(x, m), Y)
  BY <1>2, <1>3, <1>6, ChangedCounted
<1>9. OneMore(e1, V, Vn, S, u, m)
  BY <1>2, <1>3, <1>8, ChangeCounts DEF ContentInv
<1>10. /\ View(V, m) = X /\ View(Vn, m) = Y /\ Vn[m] = x
       /\ \A n \in Macs : n # m => View(Vn, n) = View(V, n)
  BY <1>1, <1>2 DEF View
<1>11. PICK E : E = [e \in B |-> IF e = e1 THEN t ELSE D[e]]
  OBVIOUS
<1>12. RedatedAt(E, D, B, e1, t)
  BY <1>11 DEF RedatedAt
<1>13. ChangesTyped(A) /\ ChangesTyped(B) /\ Causal(B)
  BY <1>4, <1>5, KnownFacts DEF ContentInv
<1>14. DatesOf(E, B, U)
  BY <1>4, <1>5, <1>9, <1>12, <1>13, MoreDates DEF DatesInv
<1>15. /\ CopyTyped(X, W) /\ CopyTyped(Y, W) /\ Y.live = View(Vn, m).live
       /\ DOMAIN Y.live = DOMAIN x.live
  BY <1>1, <1>2, <1>6, <1>10, ViewKnows
<1>16. /\ e1 \in B /\ e1.uuid = u /\ e1.mac = m /\ e1.clock = c /\ E[e1] = t
       /\ u \in Uuids(v) /\ ClockIn(v, u) \in Clocks
  BY <1>3, <1>5, <1>9, <1>10, <1>12 DEF OneMore, RedatedAt
<1>17. ASSUME NEW Z, CopyTyped(Z, W), Placed(Z, A, D), NEW k \in DOMAIN Z.live,
              k = u => Z.live[k].clock[m] <= ClockIn(v, u)[m]
       PROVE  Made(B, k, Z.live[k].clock) /\ Chosen(E, B, k, Z.live[k])
  <2>1. PICK r : r = Z.live[k]
    OBVIOUS
  <2>2. r.clock \in Clocks /\ Made(A, k, r.clock) /\ Chosen(D, A, k, r)
    BY <1>17, <2>1, ClockInTyped DEF Placed
  <2>3. k = u => r.clock[m] <= ClockIn(V[m], u)[m]
    BY <1>17, <2>1
  <2> QED BY <1>4, <1>5, <1>9, <1>12, <1>13, <2>1, <2>2, <2>3, OldPlaced
<1>18. ASSUME NEW Z, CopyTyped(Z, W), Placed(Z, A, D), OwnedBy(Z, v, m)
       PROVE  Placed(Z, B, E)
  <2>1. \A k \in DOMAIN Z.live : k = u => Z.live[k].clock[m] <= ClockIn(v, u)[m]
    BY <1>16, <1>18 DEF OwnedBy
  <2> QED BY <1>17, <1>18, <2>1 DEF Placed
<1>19. ASSUME NEW i \in 1..len PROVE Placed(F[i], B, E)
  <2>1. CopyTyped(F[i], W) /\ OwnedBy(F[i], v, m) /\ Placed(F[i], A, D)
    BY <1>4 DEF ShapeOf, SyncInv, CountsOwned, DatesInv, AllPlaced
  <2> QED BY <1>18, <2>1
<1>20. ASSUME NEW n \in Macs, n # m PROVE Placed(View(Vn, n), B, E)
  <2>1. OwnedBy(View(V, n), v, m) /\ Placed(View(V, n), A, D)
    BY <1>4, <1>20 DEF SyncInv, CountsOwned, DatesInv, AllPlaced
  <2>2. VaultTyped(V[n], W) /\ Apart(V[n])
    BY DEF ShapeOf
  <2>3. CopyTyped(View(V, n), W)
    BY <2>2, ViewKnows DEF View
  <2> QED BY <1>10, <1>18, <1>20, <2>1, <2>3
<1>21. Placed(Y, B, E)
  <2>1. Placed(X, A, D)
    BY <1>4, <1>10 DEF DatesInv, AllPlaced
  <2> SUFFICES ASSUME NEW k \in DOMAIN Y.live
               PROVE  Made(B, k, Y.live[k].clock) /\ Chosen(E, B, k, Y.live[k])
    BY DEF Placed
  <2>2. CASE k # u
    <3>1. k \in DOMAIN X.live /\ Y.live[k] = X.live[k]
      BY <1>7, <2>2 DEF ViewsChanged
    <3>2. Made(B, k, X.live[k].clock) /\ Chosen(E, B, k, X.live[k])
      BY <1>15, <1>17, <2>1, <2>2, <3>1
    <3> QED BY <3>1, <3>2
  <2>3. CASE k = u
    <3>1. PICK r : r = Y.live[u]
      OBVIOUS
    <3>2. PICK b : b = X.live[u].clock
      OBVIOUS
    <3>3. u \in DOMAIN x.live /\ u \in DOMAIN X.live /\ u \in DOMAIN Y.live
      BY <1>7, <1>15, <2>3 DEF ViewsChanged
    <3>4. b \in Clocks /\ b = ClockIn(X, u) /\ r.clock = c
      BY <1>3, <1>15, <3>1, <3>2, <3>3, ClockInTyped
    <3>5. r.version = [at |-> t, by |-> m]
      BY <1>2, <3>1, <3>3, StampFacts DEF WrittenAt
    <3>6. r.version = Dated(E, e1)
      BY <1>16, <3>5 DEF Dated
    <3>7. \A n \in Macs : n # m => c[n] = b[n]
      BY <1>3, <1>7, <3>4 DEF ViewsChanged
    <3>8. ASSUME NEW n \in Macs, n # m, b[n] # Base(u)[n]
          PROVE  \E e \in B : e.uuid = u /\ e.mac = n /\ e.clock[n] = b[n]
      <4>1. PICK e \in A : e.uuid = u /\ e.mac = n /\ e.clock[n] = b[n]
        BY <2>1, <3>2, <3>3, <3>8 DEF Placed, Made
      <4>2. e \in B
        BY <1>4, <1>5, <1>9, <3>8, <4>1 DEF OneMore
      <4> QED BY <4>1, <4>2
    <3>9. Made(B, u, c)
      <4> SUFFICES ASSUME NEW n \in Macs, c[n] # Base(u)[n]
                   PROVE  \E e \in B : e.uuid = u /\ e.mac = n /\ e.clock[n] = c[n]
        BY DEF Made
      <4>1. CASE n = m
        BY <1>16, <4>1
      <4>2. CASE n # m
        BY <3>7, <3>8, <4>2
      <4> QED BY <4>1, <4>2
    <3>10. c \in Clocks
      BY <1>16, <1>9 DEF OneMore
    <3>11. \A n \in Macs : n # m => e1.clock[n] = c[n]
      BY <1>16
    <3>12. r.clock = e1.clock
      BY <1>16, <3>4
    <3>13. Made(B, u, r.clock) /\ Chosen(E, B, u, r)
      BY <1>13, <1>16, <3>6, <3>9, <3>10, <3>11, <3>12, NewPlaced
    <3> QED BY <2>3, <3>1, <3>13
  <2> QED BY <2>2, <2>3
<1>22. \A n \in Macs : Placed(View(Vn, n), B, E)
  BY <1>10, <1>20, <1>21
<1> QED BY <1>5, <1>14, <1>19, <1>22 DEF DatesInv, AllPlaced

DatesHold == \E D : DatesInv(vault, seen, files, Len(files), time, D)

\* The vaults after the merge of a sync.
LEMMA MergedDates ==
  ASSUME ItemsAreNoCopies, TwoMacs, ShapeInv, SyncHolds, ContentHolds, ~DeleteRaced,
         NEW D, DatesInv(vault, seen, files, Len(files), time, D),
         NEW m \in Macs, NEW i \in 0..Len(files),
         NEW v, v = Merged(m, i), NEW known, known = SeenMerged(m, i),
         NEW Vn, Replaced(Vn, vault, m, v), NEW Sn, Replaced(Sn, seen, m, known)
  PROVE  DatesInv(Vn, Sn, files, Len(files), time, D)
<1>1. PICK W : W = Timely(time)
  OBVIOUS
<1>2. PICK len \in Nat : len = Len(files)
  BY ShapeGives
<1>3. /\ ShapeOf(vault, seen, files, W, len) /\ SyncInv(vault, seen, files, len)
      /\ Causal(AllKnown(vault, seen)) /\ DatesInv(vault, seen, files, len, time, D)
      /\ ~Raced(AllKnown(vault, seen)) /\ KnownBy(vault, seen, m) = Known(m)
  BY <1>1, <1>2, ShapeGives DEF SyncHolds, ContentHolds, ContentInv, Everything
<1>4. CASE MustMerge(m, i)
  <2>1. i \in 1..len
    BY <1>2, <1>4 DEF MustMerge
  <2>2. v = Merge(vault[m], m, files[i])
    BY <1>4 DEF Merged
  <2>3. known = [changes |-> KnownBy(vault, seen, m) \cup files[i].seen.changes,
                 files |-> seen[m].files \cup files[i].seen.files]
    BY <1>3, <1>4 DEF SeenMerged
  <2>4. DatesInv(Vn, Sn, files, len, time, D)
    BY <1>3, <2>1, <2>2, <2>3, MergeDates
  <2> QED BY <1>2, <2>4
<1>5. CASE ~MustMerge(m, i)
  <2>1. v = vault[m] /\ known = seen[m]
    BY <1>5 DEF Merged, SeenMerged
  <2>2. \A n \in Macs : Vn[n] = vault[n] /\ Sn[n] = seen[n]
    BY <1>3, <2>1 DEF Replaced, ShapeOf
  <2>3. DatesInv(Vn, Sn, files, len, time, D)
    BY <1>3, <2>2, SameDates
  <2> QED BY <1>2, <2>3
<1> QED BY <1>4, <1>5

\* The vault v is written over the file.
LEMMA PushDates ==
  ASSUME ShapeInv, NEW m \in Macs, NEW v, NEW known, Push(m, v, known),
         NEW V, V = [vault EXCEPT ![m] = v], NEW S, S = [seen EXCEPT ![m] = known],
         SyncInv(V, S, files, Len(files)),
         NEW D, DatesInv(V, S, files, Len(files), time, D),
         ShapeOf(V, S, files, Timely(time), Len(files))
  PROVE  DatesHold'
<1>1. PICK len \in Nat : len = Len(files)
  BY ShapeGives
<1>2. PICK W : W = Timely(time)
  OBVIOUS
<1>3. PICK F : F = files
  OBVIOUS
<1>4. PICK P : P = V
  OBVIOUS
<1>5. PICK Q : Q = S
  OBVIOUS
<1>6. PICK Vn : Vn = vault'
  OBVIOUS
<1>7. PICK Sn : Sn = seen'
  OBVIOUS
<1>8. PICK Fn : Fn = files'
  OBVIOUS
<1>9. PICK f : /\ Written(f, P, Q, m, len)
               /\ Replaced(Vn, P, m, Stamp(P[m], m)) /\ Replaced(Sn, Q, m, f.seen)
               /\ Extended(Fn, F, len, f) /\ Len(files') = len + 1
  BY <1>1, <1>3, <1>4, <1>5, <1>6, <1>7, <1>8, PushWrites
<1>10. PICK x : x = Stamp(P[m], m)
  OBVIOUS
<1>11. PICK l : l = f.seen
  OBVIOUS
<1>12. PICK T : T = time
  OBVIOUS
<1>13. /\ SyncInv(P, Q, F, len) /\ DatesInv(P, Q, F, len, T, D) /\ ShapeOf(P, Q, F, W, len)
       /\ Replaced(Vn, P, m, x) /\ Replaced(Sn, Q, m, l)
  BY <1>1, <1>2, <1>3, <1>4, <1>5, <1>9, <1>10, <1>11, <1>12
<1>14. DatesInv(Vn, Sn, Fn, len + 1, T, D)
  BY <1>9, <1>10, <1>11, <1>13, WriteDates
<1>15. time' = T
  BY <1>12 DEF Push, Keep
<1> QED BY <1>6, <1>7, <1>8, <1>9, <1>14, <1>15 DEF DatesHold

\* A sync keeps the versions.
LEMMA SyncKeepsDates ==
  ASSUME ItemsAreNoCopies, TwoMacs, ShapeInv, SyncHolds, ContentHolds, DatesHold,
         ~DeleteRaced, NEW m \in Macs,
         \/ ReplaceSyncedFile(m)
         \/ \E i \in 0..Len(files) : SyncPulls(m, i) \/ SyncStops(m, i) \/ SyncPushes(m, i)
  PROVE  DatesHold'
<1> PICK D : DatesInv(vault, seen, files, Len(files), time, D)
  BY DEF DatesHold
<1>1. ASSUME NEW i \in 0..Len(files), SyncPulls(m, i) \/ SyncStops(m, i)
      PROVE  DatesHold'
  <2>1. PICK v : v = Merged(m, i)
    OBVIOUS
  <2>2. PICK known : known = SeenMerged(m, i)
    OBVIOUS
  <2>3. PICK Vn : Vn = vault'
    OBVIOUS
  <2>4. PICK Sn : Sn = seen'
    OBVIOUS
  <2>5. /\ Replaced(Vn, vault, m, v) /\ Replaced(Sn, seen, m, known)
        /\ UNCHANGED files /\ UNCHANGED time
    BY <1>1, <2>1, <2>2, <2>3, <2>4 DEF SyncPulls, SyncStops, Keep, Replaced
  <2>6. DatesInv(Vn, Sn, files, Len(files), time, D)
    BY <2>1, <2>2, <2>5, MergedDates
  <2> QED BY <2>3, <2>4, <2>5, <2>6 DEF DatesHold
<1>2. ASSUME NEW i \in 0..Len(files), NEW v, v = Merged(m, i),
             NEW known, known = SeenMerged(m, i), Push(m, v, known)
      PROVE  DatesHold'
  <2>1. PICK V : V = [vault EXCEPT ![m] = v]
    OBVIOUS
  <2>2. PICK S : S = [seen EXCEPT ![m] = known]
    OBVIOUS
  <2>3. Replaced(V, vault, m, v) /\ Replaced(S, seen, m, known)
    BY <2>1, <2>2 DEF Replaced
  <2>4. /\ SyncInv(V, S, files, Len(files))
        /\ ShapeOf(V, S, files, Timely(time), Len(files))
    BY <1>2, <2>3, MergedSync
  <2>5. DatesInv(V, S, files, Len(files), time, D)
    BY <1>2, <2>3, MergedDates
  <2> QED BY <1>2, <2>1, <2>2, <2>4, <2>5, PushDates
<1>3. CASE ReplaceSyncedFile(m)
  <2>1. MustMerge(m, 0) = FALSE
    BY DEF MustMerge
  <2>2. PICK v : v = vault[m]
    OBVIOUS
  <2>3. PICK known : known = seen[m]
    OBVIOUS
  <2>4. v = Merged(m, 0) /\ known = SeenMerged(m, 0)
    BY <2>1, <2>2, <2>3 DEF Merged, SeenMerged
  <2>5. 0 \in 0..Len(files) /\ Push(m, v, known)
    BY <1>3, <2>2, <2>3, ShapeGives DEF ReplaceSyncedFile
  <2> QED BY <1>2, <2>4, <2>5
<1>4. ASSUME NEW i \in 0..Len(files), SyncPushes(m, i) PROVE DatesHold'
  <2>1. PICK v : v = Merged(m, i)
    OBVIOUS
  <2>2. PICK known : known = SeenMerged(m, i)
    OBVIOUS
  <2>3. Push(m, v, known)
    BY <1>4, <2>1, <2>2 DEF SyncPushes
  <2> QED BY <1>2, <2>1, <2>2, <2>3
<1> QED BY <1>1, <1>3, <1>4

\* A change of the owner keeps the versions.
LEMMA ChangeKeepsDates ==
  ASSUME ShapeInv, ShapeInv', SyncHolds, ContentHolds, DatesHold,
         NEW m \in Macs, NEW t \in 1..MaxTime, ChangesAt(m, t),
         NEW u, NEW gone \in BOOLEAN, NEW x, x = vault'[m], Changed(vault[m], x, u, gone),
         u \in DOMAIN x.live => x.live[u].version = [at |-> t, by |-> m],
         \A n \in Macs : n # m => vault'[n] = vault[n]
  PROVE  DatesHold'
<1> PICK D : DatesInv(vault, seen, files, Len(files), time, D)
  BY DEF DatesHold
<1>1. seen' = seen /\ files' = files
  BY DEF ChangesAt
<1>2. PICK W : W = Timely(time')
  OBVIOUS
<1>3. /\ \A v : VaultShape(v, time) => VaultShape(v, time')
      /\ \A f, n : FileShape(f, time, n) => FileShape(f, time', n)
  BY NowTimely, TypedLater
<1>4. VaultShape(x, time')
  BY DEF ShapeInv
<1>5. PICK len \in Nat : len = Len(files)
  BY ShapeGives
<1>6. ShapeOf(vault, seen, files, W, len)
  BY <1>2, <1>3, <1>5 DEF ShapeInv, ShapeOf, VaultShape, FileShape, CopyTyped
<1>7. ContentHolds'
  BY ChangeKeepsContent
<1>8. PICK Vn : Vn = vault'
  OBVIOUS
<1>9. PICK V : V = vault
  OBVIOUS
<1>10. PICK S : S = seen
  OBVIOUS
<1>11. PICK F : F = files
  OBVIOUS
<1>12. PICK v : v = V[m]
  OBVIOUS
<1>13. PICK T : T = time
  OBVIOUS
<1>14. PICK U : U = time'
  OBVIOUS
<1>15. /\ ShapeOf(V, S, F, W, len) /\ SyncInv(V, S, F, len) /\ ContentInv(V, S, F, len)
       /\ DatesInv(V, S, F, len, T, D) /\ Changed(v, x, u, gone)
       /\ \A n \in Macs : Vn[n] = IF n = m THEN x ELSE V[n]
  BY <1>5, <1>6, <1>8, <1>9, <1>10, <1>11, <1>12, <1>13 DEF SyncHolds, ContentHolds
<1>16. VaultTyped(x, W) /\ Apart(x)
  BY <1>2, <1>4 DEF VaultShape
<1>17. ContentInv(Vn, S, F, len)
  BY <1>1, <1>5, <1>7, <1>8, <1>10, <1>11 DEF ContentHolds
<1>18. ShapeOf(Vn, S, F, W, len)
  <2>1. \A n \in Macs : VaultTyped(Vn[n], W) /\ Apart(Vn[n])
    BY <1>15, <1>16 DEF ShapeOf
  <2>2. DOMAIN Vn = Macs
    BY <1>8 DEF ShapeInv
  <2> QED BY <1>15, <2>1, <2>2 DEF ShapeOf
<1>19. Passes(T, U, m, t) /\ WrittenAt(x, u, m, t)
  BY <1>13, <1>14 DEF ChangesAt, ShapeInv, Passes, WrittenAt
<1>20. PICK E : DatesInv(Vn, S, F, len, U, E)
  BY <1>12, <1>15, <1>16, <1>17, <1>18, <1>19, ChangeDates
<1>21. DatesInv(vault, seen, files, Len(files), time, E)'
  BY <1>1, <1>5, <1>8, <1>10, <1>11, <1>14, <1>20
<1> QED BY <1>21 DEF DatesHold

\* Every Mac has the credentials of their creator at the start.
LEMMA DatesInit == ASSUME Init PROVE DatesHold
<1>1. PICK v : v = vault[Creator]
  OBVIOUS
<1>2. PICK f : f = files[1]
  OBVIOUS
<1>3. PICK K : K = {Change(v, Creator, u) : u \in Items}
  OBVIOUS
<1>4. PICK c : c = Fresh.clock
  OBVIOUS
<1>5. /\ \A m \in Macs : vault[m] = v
      /\ VaultTyped(v, Timely([m \in Macs |-> 0])) /\ Unstamped(v) = {}
      /\ DOMAIN v.live = Items /\ \A u \in Items : v.live[u] = Fresh
  <2>1. Creator \in Macs
    BY StartTyped
  <2>2. v = [live |-> [u \in Items |-> Fresh], tombs |-> <<>>,
             stamps |-> [u \in Items |-> Fresh.version]]
        /\ \A m \in Macs : vault[m] = v
    BY <1>1, <2>1 DEF Init
  <2> QED BY <2>2, StartVault DEF VaultShape
<1>6. Len(files) = 1 /\ f.live = v.live /\ f.seen.changes = K
  BY <1>1, <1>2, <1>3, StartFile
<1>7. \A m \in Macs : seen[m].changes = K
  BY <1>2, <1>6 DEF Init
<1>8. Creator \in Macs /\ c \in Clocks /\ c[Creator] = 1
      /\ \A n \in Macs : n # Creator => c[n] = ZeroClock[n]
  <2>1. c = [ZeroClock EXCEPT ![Creator] = 1] /\ Creator \in Macs /\ ZeroClock \in Clocks
    BY <1>4, StartTyped
  <2> QED BY <2>1 DEF Clocks, ZeroClock
<1>9. /\ \A e \in K : e.uuid \in Items /\ e.mac = Creator /\ e.clock = c
      /\ \A e, g \in K : e.uuid = g.uuid => e = g
      /\ \A u \in Items : \E e \in K : e.uuid = u
  <2>1. \A u \in Items : /\ Change(v, Creator, u).uuid = u
                         /\ Change(v, Creator, u).mac = Creator
                         /\ Change(v, Creator, u).clock = c
    BY <1>4, <1>5, StartTyped DEF Change
  <2> QED BY <1>3, <2>1
<1>10. ASSUME NEW m \in Macs
       PROVE  /\ KnownBy(vault, seen, m) = K
              /\ DOMAIN View(vault, m).live = Items
              /\ \A u \in Items : View(vault, m).live[u] = Fresh
  <2>1. PICK s : s = Stamp(v, m)
    OBVIOUS
  <2>2. DOMAIN s.live = Items /\ \A u \in Items : s.live[u] = Fresh
    BY <1>5, <2>1, StampFacts
  <2>3. Counted(v, m) = {}
    BY <1>5 DEF Counted
  <2> QED BY <1>5, <1>7, <2>1, <2>2, <2>3 DEF KnownBy, View
<1>11. AllKnown(vault, seen) = K
  <2>1. Macs # {}
    BY MergeAssumption
  <2> QED BY <1>10, <2>1 DEF AllKnown
<1>12. PICK D : D = [e \in K |-> 0]
  OBVIOUS
<1>13. \A e \in K : D[e] = 0
  BY <1>12
<1>14. DatesOf(D, K, time)
  <2>1. \A m \in Macs : time[m] = 0
    BY DEF Init
  <2>2. \A e \in K : D[e] \in Nat /\ D[e] <= time[e.mac]
    BY <1>8, <1>9, <1>13, <2>1
  <2>3. \A e, g \in K : e.uuid = g.uuid => ~(e.clock[e.mac] < g.clock[e.mac])
    BY <1>8, <1>9
  <2> QED BY <2>2, <2>3 DEF DatesOf
<1>15. ASSUME NEW u \in Items PROVE Made(K, u, Fresh.clock) /\ Chosen(D, K, u, Fresh)
  <2>1. PICK e \in K : e.uuid = u
    BY <1>9
  <2>2. e.mac = Creator /\ e.clock = c
    BY <1>9
  <2>3. Made(K, u, c)
    BY <1>8, <2>1, <2>2 DEF Made, Base
  <2>4. e \in LastOf(K, u, c)
    BY <2>1, <2>2 DEF LastOf
  <2>5. \A g \in LastOf(K, u, c) : g = e
    BY <1>9, <2>1 DEF LastOf
  <2>6. Fresh.version = Dated(D, e)
    BY <1>13, <2>1, <2>2 DEF Fresh, Dated
  <2>7. OfWinner(D, K, u, c, Fresh.version)
    BY <2>4, <2>5, <2>6 DEF OfWinner
  <2> QED BY <1>4, <2>3, <2>7 DEF Chosen
<1>16. \A X : DOMAIN X.live = Items /\ (\A u \in Items : X.live[u] = Fresh) => Placed(X, K, D)
  BY <1>15 DEF Placed
<1>17. PICK F : F = files
  OBVIOUS
<1>18. \A i \in 1..1 : F[i] = f
  BY <1>2, <1>17
<1>19. AllPlaced(vault, seen, F, 1, D)
  BY <1>5, <1>6, <1>10, <1>11, <1>16, <1>18 DEF AllPlaced
<1>20. DatesInv(vault, seen, F, 1, time, D)
  BY <1>11, <1>14, <1>19 DEF DatesInv
<1> QED BY <1>6, <1>17, <1>20 DEF DatesHold

\* Every step keeps a race, or leaves the versions of two Macs as the changes say.
LEMMA DatesNext ==
  ASSUME ItemsAreNoCopies, TwoMacs, ShapeInv, ShapeInv', [Next]_vars,
         DeleteRaced \/ SyncHolds, DeleteRaced \/ ContentHolds, DeleteRaced \/ DatesHold
  PROVE  (DeleteRaced \/ DatesHold)'
<1>1. ASSUME NEW m \in Macs,
             \/ ReplaceSyncedFile(m)
             \/ \E i \in 0..Len(files) : SyncPulls(m, i) \/ SyncStops(m, i) \/ SyncPushes(m, i)
      PROVE  (DeleteRaced \/ DatesHold)'
  <2>1. CASE DeleteRaced
    BY <1>1, <2>1, SyncRaced
  <2>2. CASE ~DeleteRaced
    BY <1>1, <2>2, SyncKeepsDates
  <2> QED BY <2>1, <2>2
<1>2. ASSUME NEW m \in Macs, NEW t \in 1..MaxTime, ChangesAt(m, t),
             NEW u, NEW gone \in BOOLEAN, NEW x, x = vault'[m], Changed(vault[m], x, u, gone),
             u \in DOMAIN x.live => x.live[u].version = [at |-> t, by |-> m],
             \A n \in Macs : n # m => vault'[n] = vault[n]
      PROVE  (DeleteRaced \/ DatesHold)'
  <2>1. CASE DeleteRaced
    BY <1>2, <2>1, ChangeKeepsRace
  <2>2. CASE ~DeleteRaced
    BY <1>2, <2>2, ChangeKeepsDates
  <2> QED BY <2>1, <2>2
<1>3. ASSUME NEW m \in Macs, NEW t \in 1..MaxTime, NEW u \in DOMAIN vault[m].live,
             Delete(m, u, t)
      PROVE  (DeleteRaced \/ DatesHold)'
  <2>1. PICK x : x = vault'[m]
    OBVIOUS
  <2>2. PICK v : v = vault[m]
    OBVIOUS
  <2>3. /\ Changed(v, x, u, TRUE) /\ Deleted(v, x, u)
        /\ \A n \in Macs : n # m => vault'[n] = vault[n]
        /\ ChangesAt(m, t)
    BY <1>3, <2>1, <2>2, DeleteChanged, DeleteDoes DEF Delete
  <2>4. u \notin DOMAIN x.live
    BY <2>3 DEF Deleted
  <2> QED BY <1>2, <2>1, <2>2, <2>3, <2>4
<1>4. ASSUME NEW m \in Macs, NEW t \in 1..MaxTime, NEW u \in DOMAIN vault[m].live,
             NEW content \in Contents, Edit(m, u, t, content)
      PROVE  (DeleteRaced \/ DatesHold)'
  <2>1. PICK x : x = vault'[m]
    OBVIOUS
  <2>2. PICK v : v = vault[m]
    OBVIOUS
  <2>3. Changed(v, x, u, FALSE)
    BY <1>4, <2>1, <2>2, EditChanged
  <2>4. /\ x.live[u].version = [at |-> t, by |-> m]
        /\ \A n \in Macs : n # m => vault'[n] = vault[n]
    BY <1>4, <2>1, <2>2, EditDoes
  <2>5. ChangesAt(m, t)
    BY <1>4 DEF Edit
  <2> QED BY <1>2, <2>1, <2>2, <2>3, <2>4, <2>5
<1>5. CASE UNCHANGED vars
  BY <1>5 DEF vars, DatesHold, DeleteRaced, Known
<1> QED BY <1>1, <1>3, <1>4, <1>5 DEF Next

\* The version of every credential of two Macs is the one of the change that
\* wins among the last ones that its clock counts, unless a delete raced with
\* another change.
THEOREM DatesInvHolds ==
  ASSUME ItemsAreNoCopies, TwoMacs PROVE Spec => [](DeleteRaced \/ DatesHold)
<1>1. Init => DeleteRaced \/ DatesHold
  BY DatesInit
<1>2. ShapeInv /\ ShapeInv' /\ (DeleteRaced \/ SyncHolds) /\ (DeleteRaced \/ ContentHolds)
        /\ (DeleteRaced \/ DatesHold) /\ [Next]_vars
        => (DeleteRaced \/ DatesHold)'
  BY DatesNext
<1> QED BY <1>1, <1>2, ShapeHolds, SyncInvHolds, ContentInvHolds, PTL DEF Spec

(***************************************************************************)
(* Two Macs merge the vaults of one another.                               *)
(***************************************************************************)

\* f is a function.
IsMap(f) == f = [k \in DOMAIN f |-> f[k]]

\* The tombstones after the merge of X and Y.
TombsMerged(x, X, Y) ==
  /\ IsMap(x.tombs)
  /\ \A u \in DOMAIN x.tombs :
       x.tombs[u] = IF u \in DOMAIN Y.tombs
                      THEN IF u \in DOMAIN X.tombs
                             THEN JoinTombs(X.tombs[u], Y.tombs[u])
                             ELSE Y.tombs[u]
                      ELSE X.tombs[u]

\* The tombstones are a function of the UUIDs.
LEMMA TombsAreMap ==
  ASSUME NEW v, IsCopy(v), NEW local, NEW remote
  PROVE  IsMap(MergeTombs(v, local, remote).tombs)
<1>1. PICK taken : taken = DOMAIN remote.tombs \ DOMAIN v.live
  OBVIOUS
<1>2. PICK tombs : tombs = [u \in taken |->
                  IF u \in DOMAIN local.tombs
                    THEN JoinTombs(local.tombs[u], remote.tombs[u])
                    ELSE remote.tombs[u]]
  OBVIOUS
<1>3. PICK all : all = Drop(Over(tombs, v.tombs), DOMAIN v.live)
  OBVIOUS
<1>4. PICK stamps : stamps = Over([u \in taken |-> tombs[u].version], v.stamps)
  OBVIOUS
<1>5. MergeTombs(v, local, remote) = [v EXCEPT !.tombs = all, !.stamps = stamps]
  BY <1>1, <1>2, <1>3, <1>4 DEF MergeTombs
<1>6. [v EXCEPT !.tombs = all, !.stamps = stamps].tombs = all
  BY DEF IsCopy
<1>7. IsMap(all)
  BY <1>3 DEF Drop, Restrict, IsMap
<1> QED BY <1>5, <1>6, <1>7

\* The tombstones of a merge.
LEMMA MergeTombstones ==
  ASSUME NEW W, NEW v, VaultTyped(v, W), Apart(v), NEW mac \in Macs,
         NEW Y, Typed(Y, W), Apart(Y),
         NEW X, X = Stamp(v, mac), CopiesNew(X, Y),
         NEW x, x = Merge(v, mac, Y)
  PROVE  TombsMerged(x, X, Y)
<1>1. VaultTyped(X, W) /\ Stamped(X) /\ Apart(X)
  BY StampFacts DEF Apart
<1>2. PICK S : S = DOMAIN X.live \cup DOMAIN Y.live
  OBVIOUS
<1>3. IsFiniteSet(S)
  BY <1>1, <1>2, FS_Union DEF VaultTyped, Typed
<1>4. PICK f : MergesTo(f, S, X, Y) /\ x = MergeTombs(f[S], X, Y)
  BY <1>2, <1>3, MergeUnfolds
<1>5. PICK y : y = f[S]
  OBVIOUS
<1>6. Halfway(W, y, {}, X)
  BY <1>1, <1>2, <1>4, <1>5, MergesMidway
<1>7. IsCopy(y) /\ x = MergeTombs(y, X, Y)
  BY <1>4, <1>5, <1>6 DEF Halfway, VaultTyped
<1>8. /\ DOMAIN x.tombs = (DOMAIN y.tombs \cup DOMAIN Y.tombs) \ DOMAIN y.live
      /\ \A u \in DOMAIN x.tombs :
           x.tombs[u] = IF u \in DOMAIN Y.tombs
                          THEN IF u \in DOMAIN X.tombs
                                 THEN JoinTombs(X.tombs[u], Y.tombs[u])
                                 ELSE Y.tombs[u]
                          ELSE y.tombs[u]
  BY <1>7, MergeTombsFacts
<1>9. \A u \in DOMAIN y.tombs : y.tombs[u] = X.tombs[u]
  BY <1>6 DEF Halfway
<1>10. IsMap(x.tombs)
  BY <1>7, TombsAreMap
<1> QED BY <1>8, <1>9, <1>10 DEF TombsMerged

\* The joined tombstone has all of the two already.
LEMMA JoinTombsAgain ==
  ASSUME NEW W, W \subseteq VersionsOf, NEW a \in TombsOf(W), NEW b \in TombsOf(W)
  PROVE  JoinTombs(b, b) = b /\ JoinTombs(b, JoinTombs(a, b)) = JoinTombs(a, b)
<1>1. /\ a.clock \in Clocks /\ b.clock \in Clocks
      /\ a.version \in VersionsOf /\ b.version \in VersionsOf
      /\ b = [version |-> b.version, clock |-> b.clock]
  BY DEF TombsOf
<1>2. Joined(b.clock, b.clock) = b.clock
  BY <1>1, JoinedFacts, CoversFacts
<1>3. Joined(b.clock, Joined(a.clock, b.clock)) = Joined(a.clock, b.clock)
  BY <1>1, JoinedFacts
<1>4. LaterOf(b.version, b.version) = b.version
  BY DEF LaterOf
<1>5. LaterOf(b.version, LaterOf(a.version, b.version)) = LaterOf(a.version, b.version)
  <2>1. /\ a.version.at \in Int /\ a.version.by \in Int
        /\ b.version.at \in Int /\ b.version.by \in Int
    BY <1>1, MergeAssumption DEF VersionsOf
  <2>2. ~(Later(a.version, b.version) /\ Later(b.version, a.version))
    BY <2>1 DEF Later
  <2> QED BY <2>2 DEF LaterOf
<1>6. JoinTombs(b, b) = b
  BY <1>1, <1>2, <1>4 DEF JoinTombs
<1>7. JoinTombs(b, JoinTombs(a, b)) = JoinTombs(a, b)
  BY <1>3, <1>5 DEF JoinTombs
<1> QED BY <1>6, <1>7

\* The merge of a good copy into a vault.
GoodMerge(W, x, X, Y, K, A) ==
  /\ VaultTyped(x, W) /\ CopyTyped(x, W)
  /\ Union(x, X, Y) /\ RecordsMerged(x, X, Y) /\ TombsMerged(x, X, Y)
  /\ Good(x, K) /\ Fits(x, A)

\* The merge of good copies is a good merge.
LEMMA GoodMerges ==
  ASSUME ItemsAreNoCopies, NEW W, NEW v, VaultTyped(v, W), Apart(v), NEW mac \in Macs,
         NEW X, X = Stamp(v, mac), NEW Y, CopyTyped(Y, W),
         NEW A, ChangesTyped(A), ~Raced(A), CountsNew(A),
         NEW K \in SUBSET A, NEW L \in SUBSET A,
         Good(X, K), Fits(X, A), Good(Y, L), Fits(Y, A),
         NEW x, x = Merge(v, mac, Y)
  PROVE  GoodMerge(W, x, X, Y, K \cup L, A)
<1>1. CopyTyped(X, W) /\ ChangesTyped(K) /\ ChangesTyped(L)
  <2>1. CopyTyped(X, W)
    BY ViewKnows
  <2> QED BY <2>1 DEF ChangesTyped
<1>2. VaultTyped(x, W) /\ CopyTyped(x, W)
  BY MergeTyped DEF CopyTyped, VaultTyped
<1>3. CopiesNew(X, Y)
  BY <1>1, GoodCopiesNew DEF Good
<1>4. MergeOf(x, X, Y) /\ RecordsMerged(x, X, Y) /\ TombsMerged(x, X, Y)
  BY <1>3, MergeGives, MergeRecords, MergeTombstones DEF CopyTyped
<1>5. \A u \in DOMAIN X.tombs \cap DOMAIN Y.live : Deletes(X, u, Y.live[u])
  BY <1>1, TombCovers
<1>6. \A u \in DOMAIN Y.tombs \cap DOMAIN X.live : Deletes(Y, u, X.live[u])
  BY <1>1, TombCovers
<1>7. Union(x, X, Y)
  BY <1>1, <1>2, <1>4, <1>5, <1>6, MergeUnion
<1>8. Good(x, K \cup L)
  BY <1>1, <1>2, <1>7, UnionGood
<1>9. Fits(x, A)
  BY <1>1, <1>2, <1>7, UnionFits
<1> QED BY <1>2, <1>4, <1>7, <1>8, <1>9 DEF GoodMerge

\* What a copy publishes is like it.
LEMMA SyncedSame ==
  ASSUME NEW Y, NEW R, R = Synced(Y)
  PROVE  /\ \A W : CopyTyped(Y, W) => CopyTyped(R, W)
         /\ \A K : Good(Y, K) => Good(R, K)
         /\ \A A : Fits(Y, A) => Fits(R, A)
         /\ \A W, x, X, K, A : GoodMerge(W, x, X, R, K, A) => GoodMerge(W, x, X, Y, K, A)
<1>1. R.live = Y.live /\ R.tombs = Y.tombs
  BY DEF Synced
<1>2. Uuids(R) = Uuids(Y) /\ \A u : ClockIn(R, u) = ClockIn(Y, u)
  BY <1>1 DEF Uuids, ClockIn
<1>3. ASSUME NEW W, CopyTyped(Y, W) PROVE CopyTyped(R, W)
  BY <1>1, <1>3 DEF CopyTyped, Typed, Apart
<1>4. ASSUME NEW K, Good(Y, K) PROVE Good(R, K)
  BY <1>1, <1>2, <1>4 DEF Good, ClocksHave, DeletesHave, CountsFrom, TombsFrom, CopiesFrom,
                          BasesBelow
<1>5. ASSUME NEW A, Fits(Y, A) PROVE Fits(R, A)
  BY <1>1, <1>5 DEF Fits
<1>6. ASSUME NEW W, NEW x, NEW X, NEW K, NEW A, GoodMerge(W, x, X, R, K, A)
      PROVE  GoodMerge(W, x, X, Y, K, A)
  <2>1. \A u, w, loser : CopiedFrom(u, w, loser, X, R) <=> CopiedFrom(u, w, loser, X, Y)
    BY <1>1 DEF CopiedFrom
  <2>2. Union(x, X, Y)
    BY <1>1, <1>2, <1>6, <2>1 DEF GoodMerge, Union, Knows
  <2>3. \A u : Settled(x, u, X, R) <=> Settled(x, u, X, Y)
    BY <1>1 DEF Settled
  <2>4. RecordsMerged(x, X, Y)
    BY <1>1, <1>6, <2>1, <2>3 DEF GoodMerge, RecordsMerged, GivesRecord
  <2>5. TombsMerged(x, X, Y)
    BY <1>1, <1>6 DEF GoodMerge, TombsMerged
  <2> QED BY <1>6, <2>2, <2>4, <2>5 DEF GoodMerge
<1> QED BY <1>3, <1>4, <1>5, <1>6

\* P comes of X and Y, and Q of Y and P.
LEMMA ExchangedValues ==
  ASSUME NEW W, W \subseteq VersionsOf, NEW X, CopyTyped(X, W), NEW Y, CopyTyped(Y, W),
         NEW P, NEW Q, NEW K, NEW L, NEW A, NEW D, NEW T,
         GoodMerge(W, P, X, Y, K, A), GoodMerge(W, Q, Y, P, L, A),
         Ordered(A, D, T), Placed(Y, A, D), Placed(P, A, D), SameValues(Y, P)
  PROVE  ValuesOf(Q) = ValuesOf(P)
<1>1. /\ CopyTyped(P, W) /\ Union(P, X, Y) /\ TombsMerged(P, X, Y)
      /\ CopyTyped(Q, W) /\ Union(Q, Y, P) /\ TombsMerged(Q, Y, P) /\ RecordsMerged(Q, Y, P)
  BY DEF GoodMerge
<1>2. Knows(P, Y) /\ Knows(Q, P)
  BY <1>1 DEF Union
<1>3. DOMAIN Q.tombs = DOMAIN P.tombs
  BY <1>1 DEF Union
<1>4. \A u \in DOMAIN Y.live \cap DOMAIN P.live :
        /\ Y.live[u].clock \in Clocks /\ P.live[u].clock \in Clocks
        /\ Covers(P.live[u].clock, Y.live[u].clock)
  BY <1>1, <1>2, ClockInTyped DEF Knows, Uuids
<1>5. DOMAIN Q.live = DOMAIN P.live
  <2>1. ASSUME NEW u \in DOMAIN P.live PROVE u \in DOMAIN Q.live
    <3>1. u \in Uuids(Q) /\ u \notin DOMAIN P.tombs
      BY <1>1, <1>2 DEF Knows, Uuids, CopyTyped, Apart
    <3> QED BY <1>3, <3>1 DEF Uuids
  <2>2. ASSUME NEW u \in DOMAIN Q.live PROVE u \in DOMAIN P.live
    <3>1. \A w, loser : ~CopiedFrom(u, w, loser, Y, P)
      BY <1>4 DEF CopiedFrom, Concurrent
    <3>2. u \in Uuids(Y) => u \in Uuids(P)
      BY <1>2 DEF Knows
    <3> QED BY <1>1, <3>1, <3>2 DEF Union, Uuids
  <2> QED BY <2>1, <2>2
<1>6. ASSUME NEW u \in DOMAIN Q.live
      PROVE  /\ Q.live[u].value = P.live[u].value
             /\ Q.live[u].version = P.live[u].version
             /\ Q.live[u].clock = P.live[u].clock
  <2>1. u \in DOMAIN P.live /\ GivesRecord(Q, u, Y, P)
    BY <1>1, <1>5 DEF RecordsMerged
  <2>2. CASE u \notin DOMAIN Y.live
    BY <1>6, <2>1, <2>2 DEF GivesRecord, Alike
  <2>3. CASE u \in DOMAIN Y.live /\ ~Covers(Y.live[u].clock, P.live[u].clock)
    <3>1. ~Concurrent(Y.live[u].clock, P.live[u].clock)
      BY <1>4, <2>1, <2>3 DEF Concurrent
    <3>2. Settled(Q, u, Y, P)
      BY <1>6, <2>1, <2>3 DEF GivesRecord
    <3> QED BY <2>3, <3>1, <3>2 DEF Settled, Alike
  <2>4. CASE u \in DOMAIN Y.live /\ Covers(Y.live[u].clock, P.live[u].clock)
    <3>1. PICK r : r = Y.live[u]
      OBVIOUS
    <3>2. PICK s : s = P.live[u]
      OBVIOUS
    <3>3. ~Concurrent(r.clock, s.clock) /\ Covers(r.clock, s.clock)
      BY <2>4, <3>1, <3>2 DEF Concurrent
    <3>4. Settled(Q, u, Y, P)
      BY <1>6, <2>1, <2>4 DEF GivesRecord
    <3>5. Q.live[u] = r
      BY <3>1, <3>2, <3>3, <3>4 DEF Settled
    <3>6. r.clock \in Clocks /\ s.clock \in Clocks /\ Covers(s.clock, r.clock)
      BY <1>4, <2>1, <2>4, <3>1, <3>2
    <3>7. r.clock = s.clock
      BY <3>3, <3>6 DEF Covers, Clocks
    <3>8. Chosen(D, A, u, r) /\ Chosen(D, A, u, s)
      BY <2>1, <2>4, <3>1, <3>2 DEF Placed
    <3>9. r.version = s.version
      BY <3>7, <3>8, SamePlace
    <3>10. r.value = s.value
      BY <2>1, <2>4, <3>1, <3>2, <3>9 DEF SameValues
    <3> QED BY <3>2, <3>5, <3>7, <3>9, <3>10
  <2> QED BY <2>2, <2>3, <2>4
<1>7. ASSUME NEW u \in DOMAIN Q.tombs PROVE Q.tombs[u] = P.tombs[u]
  <2>1. u \in DOMAIN P.tombs
    BY <1>3
  <2>2. CASE u \notin DOMAIN Y.tombs
    BY <1>1, <2>1, <2>2 DEF TombsMerged
  <2>3. CASE u \in DOMAIN Y.tombs
    <3>1. Q.tombs[u] = JoinTombs(Y.tombs[u], P.tombs[u])
      BY <1>1, <2>1, <2>3 DEF TombsMerged
    <3>2. P.tombs[u] = IF u \in DOMAIN X.tombs THEN JoinTombs(X.tombs[u], Y.tombs[u])
                                               ELSE Y.tombs[u]
      BY <1>1, <2>1, <2>3 DEF TombsMerged
    <3>3. Y.tombs[u] \in TombsOf(W) /\ (u \in DOMAIN X.tombs => X.tombs[u] \in TombsOf(W))
      BY <2>3 DEF CopyTyped, Typed
    <3> QED BY <3>1, <3>2, <3>3, JoinTombsAgain
  <2> QED BY <2>2, <2>3
<1>8. Q.tombs = P.tombs
  BY <1>1, <1>3, <1>7 DEF TombsMerged, IsMap
<1> QED BY <1>5, <1>6, <1>8 DEF ValuesOf

\* Two Macs with good vaults.
LEMMA ExchangeAgrees ==
  ASSUME ItemsAreNoCopies, TwoMacs, ShapeInv, SyncHolds, ContentHolds, DatesHold,
         ~DeleteRaced, NEW m \in Macs, NEW n \in Macs
  PROVE  ValuesOf(PulledBack(m, n)) = ValuesOf(Pulled(m, n))
<1>1. PICK V : V = vault
  OBVIOUS
<1>2. PICK S : S = seen
  OBVIOUS
<1>3. PICK F : F = files
  OBVIOUS
<1>4. PICK len \in Nat : len = Len(files)
  BY ShapeGives
<1>5. PICK W : W = Timely(time)
  OBVIOUS
<1>6. PICK T : T = time
  OBVIOUS
<1>7. PICK D : DatesInv(V, S, F, len, T, D)
  BY <1>1, <1>2, <1>3, <1>4, <1>6 DEF DatesHold
<1>8. /\ ShapeOf(V, S, F, W, len) /\ SyncInv(V, S, F, len) /\ ContentInv(V, S, F, len)
      /\ ~Raced(AllKnown(V, S))
  BY <1>1, <1>2, <1>3, <1>4, <1>5, ShapeGives DEF SyncHolds, ContentHolds, Everything
<1>9. PICK A : A = AllKnown(V, S)
  OBVIOUS
<1>10. PICK K : K = KnownBy(V, S, m)
  OBVIOUS
<1>11. PICK L : L = KnownBy(V, S, n)
  OBVIOUS
<1>12. PICK v : v = V[m]
  OBVIOUS
<1>13. PICK w : w = V[n]
  OBVIOUS
<1>14. PICK X : X = View(V, m)
  OBVIOUS
<1>15. PICK Y : Y = View(V, n)
  OBVIOUS
<1>16. /\ VaultTyped(v, W) /\ Apart(v) /\ VaultTyped(w, W) /\ Apart(w)
       /\ X = Stamp(v, m) /\ Y = Stamp(w, n)
  BY <1>8, <1>12, <1>13, <1>14, <1>15 DEF ShapeOf, View
<1>17. CopyTyped(X, W) /\ CopyTyped(Y, W)
  BY <1>16, ViewKnows
<1>18. /\ ChangesTyped(A) /\ ~Raced(A) /\ CountsNew(A) /\ K \in SUBSET A /\ L \in SUBSET A
       /\ Good(X, K) /\ Fits(X, A) /\ Good(Y, L) /\ Fits(Y, A)
       /\ BasesBelow(X) /\ BasesBelow(Y)
  BY <1>8, <1>9, <1>10, <1>11, <1>14, <1>15, KnownFacts DEF SyncInv, VaultsGood, Good
<1>19. PICK R : R = Synced(Y)
  OBVIOUS
<1>20. PICK P : P = Merge(v, m, R)
  OBVIOUS
<1>21. GoodMerge(W, P, X, Y, K \cup L, A)
  <2>1. CopyTyped(R, W) /\ Good(R, L) /\ Fits(R, A)
    BY <1>17, <1>18, <1>19, SyncedSame
  <2>2. GoodMerge(W, P, X, R, K \cup L, A)
    BY <1>16, <1>18, <1>20, <2>1, GoodMerges
  <2> QED BY <1>19, <2>2, SyncedSame
<1>22. PICK M : M = K \cup L
  OBVIOUS
<1>23. CopyTyped(P, W) /\ Good(P, M) /\ Fits(P, A) /\ M \in SUBSET A
  BY <1>18, <1>21, <1>22 DEF GoodMerge
<1>24. PICK Z : Z = Synced(P)
  OBVIOUS
<1>25. PICK Q : Q = Merge(w, n, Z)
  OBVIOUS
<1>26. GoodMerge(W, Q, Y, P, L \cup M, A)
  <2>1. CopyTyped(Z, W) /\ Good(Z, M) /\ Fits(Z, A)
    BY <1>23, <1>24, SyncedSame
  <2>2. GoodMerge(W, Q, Y, Z, L \cup M, A)
    BY <1>16, <1>18, <1>23, <1>25, <2>1, GoodMerges
  <2> QED BY <1>24, <2>2, SyncedSame
<1>27. Ordered(A, D, T)
  BY <1>7, <1>8, <1>9, <1>18 DEF Ordered, ContentInv, DatesInv
<1>28. Placed(X, A, D) /\ Placed(Y, A, D)
  BY <1>7, <1>9, <1>14, <1>15 DEF DatesInv, AllPlaced
<1>29. Placed(P, A, D)
  BY <1>17, <1>18, <1>21, <1>27, <1>28, UnionPlaced DEF GoodMerge
<1>30. SameValues(Y, P)
  <2>1. PICK C : C = Copies(V, F, len)
    OBVIOUS
  <2>2. Agree(C) /\ v \in C /\ w \in C
    BY <1>8, <1>12, <1>13, <2>1 DEF ContentInv, Copies
  <2>3. \A B \in {v, w} : TwinsIn(B, C)
    BY <2>2 DEF TwinsIn, Twins
  <2>4. TwinsIn(X, {v}) /\ TwinsIn(Y, {w})
    BY <1>8, <1>12, <1>13, <1>14, <1>15, ViewTwins
  <2>5. TwinsIn(X, C) /\ TwinsIn(Y, C)
    <3>1. \A B \in {v} : TwinsIn(B, C)
      BY <2>3
    <3>2. \A B \in {w} : TwinsIn(B, C)
      BY <2>3
    <3> QED BY <2>4, <3>1, <3>2, TwinsThrough
  <2>6. TwinsIn(P, C)
    <3>1. TwinsIn(P, {X, Y})
      BY <1>21, MergedTwins DEF GoodMerge
    <3>2. \A B \in {X, Y} : TwinsIn(B, C)
      BY <2>5
    <3> QED BY <3>1, <3>2, TwinsThrough
  <2>7. Agree({Y, P})
    <3>1. \A B \in {Y, P} : B \in C \/ TwinsIn(B, C)
      BY <2>5, <2>6
    <3> QED BY <2>2, <3>1, AgreeMore
  <2> QED BY <2>7 DEF Agree, SameValues
<1>31. W \subseteq VersionsOf
  BY <1>5 DEF Timely
<1>32. ValuesOf(Q) = ValuesOf(P)
  BY <1>17, <1>21, <1>26, <1>27, <1>28, <1>29, <1>30, <1>31, ExchangedValues
<1>33. P = Pulled(m, n)
  BY <1>1, <1>12, <1>13, <1>16, <1>19, <1>20 DEF Pulled
<1>34. Q = PulledBack(m, n)
  BY <1>1, <1>13, <1>24, <1>25, <1>33 DEF PulledBack
<1> QED BY <1>32, <1>33, <1>34

\* Two Macs that merge the vaults of one another have the same credentials,
\* values, versions, clocks and tombstones, unless a delete raced with another
\* change (merge.rs, merge_attached: the version that wins is the same on both).
THEOREM ValuesAgree ==
  ASSUME ItemsAreNoCopies, TwoMacs PROVE Spec => [](DeleteRaced \/ ValuesConverge)
<1>1. ShapeInv /\ (DeleteRaced \/ SyncHolds) /\ (DeleteRaced \/ ContentHolds)
        /\ (DeleteRaced \/ DatesHold)
        => DeleteRaced \/ ValuesConverge
  BY ExchangeAgrees DEF ValuesConverge
<1> QED BY <1>1, ShapeHolds, SyncInvHolds, ContentInvHolds, DatesInvHolds, PTL

\* Macs that know the same changes have the same of the credentials that both
\* have had live, with the same clocks.
SameOfSame ==
  \A m, n \in Macs : Known(m) = Known(n) =>
    \A u \in Uuids(vault[m]) \cap Uuids(vault[n]) :
      /\ u \in DOMAIN vault[m].live <=> u \in DOMAIN vault[n].live
      /\ u \in DOMAIN vault[m].live =>
           Stamp(vault[m], m).live[u].clock = Stamp(vault[n], n).live[u].clock

\* A clock of X has no count that Y, with the same changes, does not have.
LEMMA SameChanges ==
  ASSUME NEW W, NEW X, CopyTyped(X, W), NEW Y, CopyTyped(Y, W),
         NEW K, ChangesTyped(K), Good(X, K), Good(Y, K),
         NEW u \in DOMAIN X.live, u \in Uuids(Y)
  PROVE  u \in DOMAIN Y.live /\ Covers(Y.live[u].clock, X.live[u].clock)
<1>1. X.live[u].clock \in Clocks /\ u \notin DOMAIN X.tombs
  BY ClockInTyped DEF CopyTyped, Apart
<1>2. u \in DOMAIN Y.live
  <2>1. ASSUME u \in DOMAIN Y.tombs PROVE FALSE
    <3>1. PICK e \in K : e.gone /\ e.uuid = u
      BY <2>1 DEF Good, TombsFrom
    <3> QED BY <1>1, <3>1 DEF Good, DeletesHave
  <2> QED BY <2>1 DEF Uuids
<1>3. /\ Y.live[u].clock \in Clocks /\ ClockIn(Y, u) = Y.live[u].clock
      /\ Base(u) \in Clocks /\ Covers(Y.live[u].clock, Base(u))
  BY <1>2, ClockInTyped DEF Good, BasesBelow
<1>4. ASSUME NEW n \in Macs PROVE Y.live[u].clock[n] >= X.live[u].clock[n]
  <2>1. CASE X.live[u].clock[n] = Base(u)[n]
    BY <1>3, <2>1 DEF Covers
  <2>2. CASE \E e \in K : e.uuid = u /\ e.clock[n] = X.live[u].clock[n]
    <3>1. PICK e \in K : e.uuid = u /\ e.clock[n] = X.live[u].clock[n]
      BY <2>2
    <3>2. Covers(Y.live[u].clock, e.clock)
      BY <1>3, <3>1 DEF Good, ClocksHave
    <3> QED BY <3>1, <3>2 DEF Covers
  <2> QED BY <2>1, <2>2 DEF Good, CountsFrom
<1> QED BY <1>2, <1>4 DEF Covers

\* However many Macs there are, and in whatever order they merged the files,
\* those that know the same changes have the same credentials live, with the
\* same clocks, unless a delete raced with another change (merge.rs,
\* merge_attached: the clocks alone say what wins).
THEOREM ClocksAgree ==
  ASSUME ItemsAreNoCopies PROVE Spec => [](DeleteRaced \/ SameOfSame)
<1>1. ASSUME ShapeInv, SyncHolds PROVE SameOfSame
  <2> SUFFICES ASSUME NEW m \in Macs, NEW n \in Macs, Known(m) = Known(n),
                      NEW u \in Uuids(vault[m]) \cap Uuids(vault[n])
               PROVE  /\ u \in DOMAIN vault[m].live <=> u \in DOMAIN vault[n].live
                      /\ u \in DOMAIN vault[m].live =>
                           Stamp(vault[m], m).live[u].clock = Stamp(vault[n], n).live[u].clock
    BY DEF SameOfSame
  <2>1. PICK W : W = Timely(time)
    OBVIOUS
  <2>2. PICK v : v = vault[m]
    OBVIOUS
  <2>3. PICK w : w = vault[n]
    OBVIOUS
  <2>4. PICK X : X = Stamp(v, m)
    OBVIOUS
  <2>5. PICK Y : Y = Stamp(w, n)
    OBVIOUS
  <2>6. PICK K : K = Known(m)
    OBVIOUS
  <2>7. VaultTyped(v, W) /\ Apart(v) /\ VaultTyped(w, W) /\ Apart(w)
    BY <1>1, <2>1, <2>2, <2>3 DEF ShapeInv, VaultShape
  <2>8. /\ CopyTyped(X, W) /\ DOMAIN X.live = DOMAIN v.live /\ Uuids(X) = Uuids(v)
        /\ CopyTyped(Y, W) /\ DOMAIN Y.live = DOMAIN w.live /\ Uuids(Y) = Uuids(w)
    BY <2>4, <2>5, <2>7, ViewKnows
  <2>9. X = View(vault, m) /\ Y = View(vault, n)
    BY <2>2, <2>3, <2>4, <2>5 DEF View
  <2>10. K = KnownBy(vault, seen, m) /\ K = KnownBy(vault, seen, n)
    BY <1>1, <2>6, ShapeGives
  <2>11. Good(X, K) /\ Good(Y, K)
    BY <1>1, <2>9, <2>10 DEF SyncHolds, SyncInv, VaultsGood
  <2>12. ChangesTyped(K)
    BY <1>1, <2>10, KnownFacts, ShapeGives
  <2>13. u \in DOMAIN X.live =>
           u \in DOMAIN Y.live /\ Covers(Y.live[u].clock, X.live[u].clock)
    BY <2>2, <2>3, <2>8, <2>11, <2>12, SameChanges
  <2>14. u \in DOMAIN Y.live =>
           u \in DOMAIN X.live /\ Covers(X.live[u].clock, Y.live[u].clock)
    BY <2>2, <2>3, <2>8, <2>11, <2>12, SameChanges
  <2>15. u \in DOMAIN X.live => X.live[u].clock = Y.live[u].clock
    <3> SUFFICES ASSUME u \in DOMAIN X.live PROVE X.live[u].clock = Y.live[u].clock
      OBVIOUS
    <3>1. X.live[u].clock \in Clocks /\ Y.live[u].clock \in Clocks
      BY <2>8, <2>13, ClockInTyped
    <3> QED BY <2>13, <2>14, <3>1 DEF Covers, Clocks
  <2> QED BY <2>2, <2>3, <2>4, <2>5, <2>8, <2>13, <2>14, <2>15
<1>2. ShapeInv /\ (DeleteRaced \/ SyncHolds) => DeleteRaced \/ SameOfSame
  BY <1>1
<1> QED BY <1>2, ShapeHolds, SyncInvHolds, PTL
=============================================================================
