-------------------------- MODULE RelaySyncProofs ---------------------------
(***************************************************************************)
(* Proofs about the relay sync for any number of Macs, changes, rounds and *)
(* faults.                                                                 *)
(***************************************************************************)
EXTENDS RelaySync, SequenceTheorems, TLAPS

(***************************************************************************)
(* Heads.                                                                  *)
(***************************************************************************)

\* Two heads that link to one another are one.
LEMMA LinksEqual ==
  ASSUME NEW s \in Seq(Entries), NEW t \in Seq(Entries),
         LinksTo(s, t), Len(s) <= Len(t)
  PROVE  s = t
<1>1. Len(s) \in Nat /\ Len(t) \in Nat
  BY LenProperties
<1>2. Len(s) = Len(t) /\ \A i \in 1..Len(s) : s[i] = t[i]
  BY <1>1 DEF LinksTo
<1> QED BY <1>2, SeqEqual

\* A head links to the ones that the heads it links to link to.
LEMMA LinksTransitive ==
  ASSUME NEW s \in Seq(Entries), NEW t \in Seq(Entries), NEW u \in Seq(Entries),
         LinksTo(s, t), LinksTo(t, u)
  PROVE  LinksTo(s, u)
<1>1. Len(s) \in Nat /\ Len(t) \in Nat /\ Len(u) \in Nat
  BY LenProperties
<1> QED BY <1>1 DEF LinksTo

\* Every head links to itself and to no head at all.
LEMMA LinksReflexive ==
  ASSUME NEW s \in Seq(Entries)
  PROVE  LinksTo(s, s) /\ LinksTo(s, NoHead)
<1>1. Len(s) \in Nat /\ Len(NoHead) = 0
  BY LenProperties, EmptySeq DEF NoHead
<1> QED BY <1>1 DEF LinksTo

\* What Append makes.
LEMMA AppendFacts ==
  ASSUME NEW s \in Seq(Entries), NEW e \in Entries
  PROVE  /\ Append(s, e) \in Seq(Entries)
         /\ Append(s, e) # NoHead
         /\ Len(Append(s, e)) = Len(s) + 1
         /\ \A i \in 1..Len(s) : Append(s, e)[i] = s[i]
         /\ Top(Append(s, e)) = e
         /\ Before(Append(s, e)) = s
         /\ LinksTo(Append(s, e), s)
<1>1. Len(s) \in Nat
  BY LenProperties
<1>2. /\ Append(s, e) \in Seq(Entries)
      /\ Len(Append(s, e)) = Len(s) + 1
      /\ \A i \in 1..Len(s) : Append(s, e)[i] = s[i]
      /\ Append(s, e)[Len(s) + 1] = e
  BY AppendProperties
<1>3. Append(s, e) # NoHead
  BY <1>1, <1>2, EmptySeq DEF NoHead
<1>4. Top(Append(s, e)) = e
  BY <1>2 DEF Top
<1>5. LinksTo(Append(s, e), s)
  BY <1>1, <1>2 DEF LinksTo
<1>6. Before(Append(s, e)) = s
  <2>1. Before(Append(s, e)) = SubSeq(Append(s, e), 1, Len(s))
    BY <1>1, <1>2 DEF Before
  <2>2. \A i \in 1..Len(s) : Append(s, e)[i] \in Entries
    BY <1>2, ElementOfSeq
  <2>3. /\ SubSeq(Append(s, e), 1, Len(s)) \in Seq(Entries)
        /\ Len(SubSeq(Append(s, e), 1, Len(s))) =
             IF 1 <= Len(s) THEN Len(s) - 1 + 1 ELSE 0
        /\ \A i \in 1..(Len(s) - 1 + 1) :
             SubSeq(Append(s, e), 1, Len(s))[i] = Append(s, e)[1 + i - 1]
    BY <1>1, <2>2, SubSeqProperties
  <2>4. Len(SubSeq(Append(s, e), 1, Len(s))) = Len(s)
    BY <1>1, <2>3
  <2>5. \A i \in 1..Len(s) : SubSeq(Append(s, e), 1, Len(s))[i] = s[i]
    BY <1>1, <1>2, <2>3
  <2> QED BY <2>1, <2>3, <2>4, <2>5, SeqEqual
<1> QED BY <1>2, <1>3, <1>4, <1>5, <1>6

\* The top of a head is an entry.
LEMMA TopType ==
  ASSUME NEW s \in Seq(Entries), s # NoHead
  PROVE  Top(s) \in Entries
<1>1. Len(s) \in Nat \ {0}
  BY EmptySeq DEF NoHead
<1> QED BY <1>1, ElementOfSeq DEF Top

\* A head is the head before it with its entry.
LEMMA BeforeAndTop ==
  ASSUME NEW s \in Seq(Entries), s # NoHead
  PROVE  /\ Before(s) \in Seq(Entries)
         /\ Append(Before(s), Top(s)) = s
<1>1. Len(s) \in Nat \ {0}
  BY EmptySeq DEF NoHead
<1>2. \A i \in 1..(Len(s) - 1) : s[i] \in Entries
  BY <1>1, ElementOfSeq
<1> DEFINE n == Len(s) - 1
<1>3. /\ n \in Nat
      /\ Before(s) \in Seq(Entries)
      /\ Len(Before(s)) = IF 1 <= n THEN n - 1 + 1 ELSE 0
      /\ \A i \in 1..(n - 1 + 1) : Before(s)[i] = s[1 + i - 1]
  BY <1>1, <1>2, SubSeqProperties DEF Before
<1>4. Len(Before(s)) = Len(s) - 1
  <2>1. Len(Before(s)) = n
    <3> HIDE DEF n
    <3> QED BY <1>3
  <2> QED BY <2>1
<1>5. \A i \in 1..Len(Before(s)) : Before(s)[i] = s[i]
  BY <1>1, <1>3, <1>4
<1>6. Top(s) \in Entries
  BY TopType
<1>7. /\ Append(Before(s), Top(s)) \in Seq(Entries)
      /\ Len(Append(Before(s), Top(s))) = Len(Before(s)) + 1
      /\ \A i \in 1..Len(Before(s)) : Append(Before(s), Top(s))[i]
                                   = Before(s)[i]
      /\ Append(Before(s), Top(s))[Len(Before(s)) + 1] = Top(s)
  BY <1>3, <1>6, AppendProperties
<1>8. \A i \in 1..Len(s) : Append(Before(s), Top(s))[i] = s[i]
  BY <1>1, <1>4, <1>5, <1>7 DEF Top
<1> QED BY <1>1, <1>3, <1>4, <1>7, <1>8, SeqEqual

\* The heads of an earlier state of the relay have grown too.
LEMMA GrowsPrefix ==
  ASSUME NEW s \in Seq(Entries), Grows(s), NEW n \in 0..Len(s)
  PROVE  SubSeq(s, 1, n) \in Seq(Entries) /\ Grows(SubSeq(s, 1, n))
<1>1. Len(s) \in Nat /\ n \in Nat /\ n <= Len(s)
  BY LenProperties
<1>2. \A i \in 1..n : s[i] \in Entries
  BY <1>1, ElementOfSeq
<1>3. /\ SubSeq(s, 1, n) \in Seq(Entries)
      /\ Len(SubSeq(s, 1, n)) = IF 1 <= n THEN n - 1 + 1 ELSE 0
      /\ \A i \in 1..(n - 1 + 1) : SubSeq(s, 1, n)[i] = s[1 + i - 1]
  BY <1>1, <1>2, SubSeqProperties
<1>4. Len(SubSeq(s, 1, n)) = n /\ \A i \in 1..n : SubSeq(s, 1, n)[i] = s[i]
  BY <1>1, <1>3
<1>5. \A i \in 2..n : i \in 2..Len(s) /\ i \in 1..n /\ i - 1 \in 1..n
  BY <1>1
<1>6. Grows(SubSeq(s, 1, n))
  BY <1>4, <1>5 DEF Grows
<1> QED BY <1>3, <1>6

\* A version that has more than the one before it, or that the owner put over
\* it, keeps the chain growing.
LEMMA GrowsAppend ==
  ASSUME NEW s \in Seq(Entries), Grows(s), NEW e \in Entries,
         s # NoHead => e.replaced \/ (/\ Top(s).content \subseteq e.content
                                      /\ Top(s).content # e.content)
  PROVE  Grows(Append(s, e))
<1>1. Len(s) \in Nat
  BY LenProperties
<1>2. /\ Len(Append(s, e)) = Len(s) + 1
      /\ \A i \in 1..Len(s) : Append(s, e)[i] = s[i]
      /\ Append(s, e)[Len(s) + 1] = e
  BY AppendProperties
<1>3. SUFFICES ASSUME NEW i \in 2..(Len(s) + 1)
               PROVE  \/ Append(s, e)[i].replaced
                      \/ /\ Append(s, e)[i - 1].content
                              \subseteq Append(s, e)[i].content
                         /\ Append(s, e)[i - 1].content
                               # Append(s, e)[i].content
  BY <1>2 DEF Grows
<1>4. CASE i \in 2..Len(s)
  <2>1. Append(s, e)[i] = s[i] /\ Append(s, e)[i - 1] = s[i - 1]
    BY <1>1, <1>2, <1>4
  <2> QED BY <1>4, <2>1 DEF Grows
<1>5. CASE i = Len(s) + 1
  <2>1. s # NoHead /\ i - 1 = Len(s) /\ Len(s) \in 1..Len(s)
    BY <1>1, <1>3, <1>5, EmptySeq DEF NoHead
  <2>2. Append(s, e)[i - 1] = Top(s) /\ Append(s, e)[i] = e
    BY <1>2, <1>5, <2>1 DEF Top
  <2> QED BY <2>1, <2>2
<1> QED BY <1>1, <1>3, <1>4, <1>5

(***************************************************************************)
(* The inductive invariant.  The state in the data folder is true because  *)
(* the state that a run carries is, from the look at the head to the push. *)
(***************************************************************************)

\* A vault with these changes merged the copy of the anchor, and told is what
\* that copy has.
StateOK(vault, anchor, told) ==
  anchor # NoHead => /\ Top(anchor).content \subseteq vault
                     /\ told = Top(anchor).content

\* The copy of a run has more than the head that it goes on.
CopyOK(r) ==
  r.kind # "replace" =>
    /\ r.anchor = r.head
    /\ r.head # NoHead => /\ Top(r.head).content \subseteq r.copy
                          /\ Top(r.head).content # r.copy

RunOK(vault, d, r) ==
  /\ StateOK(vault, r.anchor, r.told)
  /\ Grows(r.head)
  /\ r.pc # "idle" /\ r.kind = "sync" => LinksTo(r.anchor, d.anchor)
  /\ r.pc = "fetch" => r.head # NoHead /\ LinksTo(r.head, r.anchor)
  /\ r.pc \in {"merged", "compare"} => r.anchor = r.head
  /\ r.pc \in {"put", "ask"} => r.copy \subseteq vault /\ CopyOK(r)

MacOK(m) ==
  /\ StateOK(content[m], disk[m].anchor, disk[m].told)
  /\ RunOK(content[m], disk[m], run[m])

IInv ==
  /\ TypeOK
  /\ Grows(relay)
  /\ \A head \in flight : head # NoHead /\ Grows(head)
  /\ \A m \in Macs : MacOK(m)

\* The relay and the Macs start in sync.
LEMMA InvInit == Init => IInv
<1> SUFFICES ASSUME Init PROVE IInv
  OBVIOUS
<1> DEFINE e == [content |-> {}, by |-> Creator, replaced |-> FALSE]
<1>1. e \in Entries
  BY RelayAssumption DEF Entries
<1>2. First \in Seq(Entries) /\ Len(First) = 1 /\ First[1] = e
  BY <1>1 DEF First
<1>3. NoHead \in Seq(Entries) /\ Len(NoHead) = 0
  BY EmptySeq DEF NoHead
<1>4. Grows(First) /\ Grows(NoHead)
  BY <1>2, <1>3 DEF Grows
<1>5. Top(First).content = {}
  BY <1>2 DEF Top
<1>6. TypeOK
  BY <1>2, <1>3, RelayAssumption
     DEF Init, TypeOK, States, Runs, NoRun, Steps, Kinds
<1>7. ASSUME NEW m \in Macs PROVE MacOK(m)
  BY <1>4, <1>5 DEF Init, MacOK, StateOK, RunOK, NoRun
<1> QED BY <1>4, <1>6, <1>7 DEF Init, IInv

\* What a step does to one Mac at most: its vault keeps what it has, and the
\* other Macs keep their vault, state and run.
LEMMA OneMac ==
  ASSUME IInv, NEW m \in Macs,
         \A n \in Macs \ {m} :
           content'[n] = content[n] /\ disk'[n] = disk[n] /\ run'[n] = run[n],
         MacOK(m)'
  PROVE  \A n \in Macs : MacOK(n)'
<1> SUFFICES ASSUME NEW n \in Macs PROVE MacOK(n)'
  OBVIOUS
<1>1. CASE n = m
  BY <1>1
<1>2. CASE n # m
  <2>1. MacOK(n)
    BY DEF IInv
  <2>2. content'[n] = content[n] /\ disk'[n] = disk[n] /\ run'[n] = run[n]
    BY <1>2
  <2> QED BY <2>1, <2>2 DEF MacOK
<1> QED BY <1>1, <1>2

\* A step of one run keeps the invariant when its own run, state and vault do.
LEMMA StepOf ==
  ASSUME IInv, NEW m \in Macs,
         NEW c \in SUBSET Changes, content[m] \subseteq c,
         NEW d \in States, NEW r \in Runs,
         content' = [content EXCEPT ![m] = c],
         disk' = [disk EXCEPT ![m] = d],
         run' = [run EXCEPT ![m] = r],
         relay' \in Seq(Entries), Grows(relay'),
         flight' \subseteq Seq(Entries),
         \A head \in flight' : head # NoHead /\ Grows(head),
         damaged' \subseteq Seq(Entries),
         faults' \in 0..MaxFaults,
         StateOK(c, d.anchor, d.told),
         RunOK(c, d, r)
  PROVE  IInv'
<1>1. /\ content \in [Macs -> SUBSET Changes]
      /\ disk \in [Macs -> States]
      /\ run \in [Macs -> Runs]
  BY DEF IInv, TypeOK
<1>2. content'[m] = c /\ disk'[m] = d /\ run'[m] = r
  BY <1>1
<1>3. TypeOK'
  BY <1>1 DEF TypeOK
<1>4. MacOK(m)'
  BY <1>2 DEF MacOK
<1>5. \A n \in Macs \ {m} :
        content'[n] = content[n] /\ disk'[n] = disk[n] /\ run'[n] = run[n]
  BY <1>1
<1>6. \A n \in Macs : MacOK(n)'
  BY <1>4, <1>5, OneMac
<1> QED BY <1>3, <1>6 DEF IInv

\* What the invariant says of one Mac.
LEMMA Facts ==
  ASSUME IInv, NEW m \in Macs
  PROVE  /\ content[m] \in SUBSET Changes
         /\ disk[m] \in States
         /\ run[m] \in Runs
         /\ StateOK(content[m], disk[m].anchor, disk[m].told)
         /\ RunOK(content[m], disk[m], run[m])
         /\ content = [content EXCEPT ![m] = content[m]]
         /\ disk = [disk EXCEPT ![m] = disk[m]]
         /\ run = [run EXCEPT ![m] = run[m]]
         /\ relay \in Seq(Entries) /\ Grows(relay)
         /\ flight \subseteq Seq(Entries)
         /\ \A head \in flight : head # NoHead /\ Grows(head)
         /\ damaged \subseteq Seq(Entries)
         /\ faults \in 0..MaxFaults
BY DEF IInv, TypeOK, MacOK

\* The run that is over.
LEMMA NoRunFacts ==
  ASSUME NEW vault, NEW d
  PROVE  NoRun \in Runs /\ RunOK(vault, d, NoRun)
<1>1. NoHead \in Seq(Entries) /\ Len(NoHead) = 0
  BY EmptySeq DEF NoHead
<1>2. NoRun \in Runs
  BY <1>1, RelayAssumption DEF NoRun, Runs, Kinds, Steps
<1>3. Grows(NoHead)
  BY <1>1 DEF Grows
<1> QED BY <1>2, <1>3 DEF NoRun, RunOK, StateOK

\* A run that ends, with this state in the data folder.
LEMMA EndsKeeps ==
  ASSUME IInv, NEW m \in Macs, Ends(m), NEW d \in States,
         disk' = [disk EXCEPT ![m] = d],
         StateOK(content[m], d.anchor, d.told),
         UNCHANGED <<relay, damaged, flight, content>>,
         faults' \in 0..MaxFaults
  PROVE  IInv'
<1>1. NoRun \in Runs /\ RunOK(content[m], d, NoRun)
  BY NoRunFacts
<1> QED BY <1>1, Facts, StepOf DEF Ends, Goes

\* A fault is counted.
LEMMA FaultType ==
  ASSUME IInv, Fault
  PROVE  faults' \in 0..MaxFaults
BY RelayAssumption DEF IInv, TypeOK, Fault

\* A run starts from the state in the data folder, or without an anchor.
LEMMA StartKeeps ==
  ASSUME IInv, NEW m \in Macs, NEW kind \in Kinds, NEW anchor \in Seq(Entries),
         StartRun(m, kind, anchor), faults' \in 0..MaxFaults,
         anchor = disk[m].anchor \/ (anchor = NoHead /\ kind # "sync")
  PROVE  IInv'
<1> DEFINE r == [NoRun EXCEPT !.pc = "head", !.kind = kind, !.anchor = anchor,
                              !.told = disk[m].told]
<1>1. /\ r \in Runs /\ r.pc = "head" /\ r.kind = kind /\ r.anchor = anchor
      /\ r.told = disk[m].told /\ r.head = NoHead
  BY Facts, NoRunFacts DEF NoRun, Runs, Steps, States
<1>2. Grows(NoHead)
  BY EmptySeq DEF NoHead, Grows
<1>3. StateOK(content[m], r.anchor, r.told)
  BY <1>1, Facts DEF StateOK
<1>4. kind = "sync" => LinksTo(anchor, disk[m].anchor)
  BY LinksReflexive
<1>5. RunOK(content[m], disk[m], r)
  <2> HIDE DEF r
  <2> QED BY <1>1, <1>2, <1>3, <1>4 DEF RunOK
<1> QED BY <1>1, <1>5, Facts, StepOf DEF StartRun, Goes

\* The owner changes a credential.
LEMMA EditKeeps ==
  ASSUME IInv, NEW m \in Macs, Edit(m)
  PROVE  IInv'
<1>1. PICK c \in Changes : content' = [content EXCEPT ![m] = @ \cup {c}]
  BY DEF Edit
<1> DEFINE v == content[m] \cup {c}
<1>2. v \in SUBSET Changes /\ content[m] \subseteq v
  BY Facts
<1>3. content' = [content EXCEPT ![m] = v]
  BY <1>1
<1>4. /\ StateOK(v, disk[m].anchor, disk[m].told)
      /\ RunOK(v, disk[m], run[m])
  BY <1>2, Facts DEF StateOK, RunOK
<1> QED BY <1>2, <1>3, <1>4, Facts, StepOf DEF Edit

\* The look at the head: what is not newer than the anchor is the anchor.
LEMMA LookKeeps ==
  ASSUME IInv, NEW m \in Macs, LookAtHead(m)
  PROVE  IInv'
<1> DEFINE old == run[m]
           newer == IsNewer(relay, old.anchor)
           r == [old EXCEPT !.head = relay,
                            !.pc = IF newer THEN "fetch" ELSE "compare"]
<1>1. old \in Runs /\ relay \in Seq(Entries) /\ old.anchor \in Seq(Entries)
  BY Facts DEF Runs
<1>2. /\ r \in Runs /\ r.head = relay /\ r.anchor = old.anchor
      /\ r.told = old.told /\ r.kind = old.kind
      /\ r.pc = IF newer THEN "fetch" ELSE "compare"
  BY <1>1 DEF Runs, Steps
<1>3. run' = [run EXCEPT ![m] = r]
  BY DEF LookAtHead, Goes
<1>4. LinksTo(relay, old.anchor)
  BY <1>1, LinksReflexive DEF LookAtHead, Accepts
<1>5. newer => relay # NoHead
  <2>1. Len(relay) \in Nat /\ Len(old.anchor) \in Nat
    BY <1>1, LenProperties
  <2>2. Len(NoHead) = 0
    BY EmptySeq DEF NoHead
  <2> QED BY <2>1, <2>2 DEF IsNewer
<1>6. ~newer => old.anchor = relay
  <2>1. Len(relay) \in Nat /\ Len(old.anchor) \in Nat
    BY <1>1, LenProperties
  <2> QED BY <1>1, <1>4, <2>1, LinksEqual DEF IsNewer
<1>7. RunOK(content[m], disk[m], old) /\ Grows(relay) /\ old.pc = "head"
  BY Facts DEF LookAtHead, At
<1>8. RunOK(content[m], disk[m], r)
  <2> HIDE DEF r, old, newer
  <2> QED BY <1>2, <1>4, <1>5, <1>6, <1>7 DEF RunOK
<1> QED BY <1>2, <1>3, <1>8, Facts, StepOf DEF LookAtHead

\* A merge: the vault has what the copy has, and the run goes on from there.
LEMMA FetchKeeps ==
  ASSUME IInv, NEW m \in Macs, Fetch(m)
  PROVE  IInv'
<1> DEFINE old == run[m]
           top == Top(old.head).content
           v == content[m] \cup top
           r == [old EXCEPT !.pc = "merged", !.anchor = old.head, !.told = top]
<1>1. /\ old \in Runs
      /\ old.head \in Seq(Entries) /\ old.anchor \in Seq(Entries)
      /\ disk[m].anchor \in Seq(Entries)
  BY Facts DEF Runs, States
<1>2. RunOK(content[m], disk[m], old) /\ old.pc = "fetch" /\ old.head # NoHead
  BY Facts DEF Fetch, At, RunOK
<1>3. top \in SUBSET Changes
  BY <1>1, <1>2, TopType DEF Entries
<1>4. /\ r \in Runs /\ r.head = old.head /\ r.anchor = old.head
      /\ r.told = top /\ r.kind = old.kind /\ r.pc = "merged"
  BY <1>1, <1>3 DEF Runs, Steps
<1>5. run' = [run EXCEPT ![m] = r] /\ content' = [content EXCEPT ![m] = v]
  BY DEF Fetch, Goes
<1>6. v \in SUBSET Changes /\ content[m] \subseteq v
  BY <1>3, Facts
<1>7. StateOK(v, disk[m].anchor, disk[m].told)
  BY <1>6, Facts DEF StateOK
<1>8. old.kind = "sync" => LinksTo(old.head, disk[m].anchor)
  BY <1>1, <1>2, LinksTransitive DEF RunOK
<1>9. RunOK(v, disk[m], r)
  <2>1. StateOK(v, r.anchor, r.told)
    BY <1>4 DEF StateOK
  <2> HIDE DEF r, old, v
  <2> QED BY <1>2, <1>4, <1>8, <2>1 DEF RunOK
<1>10. /\ disk' = [disk EXCEPT ![m] = disk[m]]
       /\ UNCHANGED <<relay, damaged, flight, faults>>
  BY Facts DEF Fetch
<1> HIDE DEF r, v
<1> QED BY <1>4, <1>5, <1>6, <1>7, <1>9, <1>10, Facts, StepOf

\* A run whose next step writes the state: it is true, and an anchor of a
\* sync links to the one in the data folder.
LEMMA WriteFacts ==
  ASSUME IInv, NEW m \in Macs, WriteState(m)
  PROVE  \E d \in States :
           /\ d.anchor = run[m].anchor /\ d.told = run[m].told
           /\ disk' = [disk EXCEPT ![m] = d]
           /\ StateOK(content[m], d.anchor, d.told)
<1> DEFINE d == [anchor |-> run[m].anchor, told |-> run[m].told]
<1>1. d \in States
  BY Facts DEF States, Runs
<1>2. StateOK(content[m], d.anchor, d.told)
  BY Facts DEF RunOK
<1> QED BY <1>1, <1>2 DEF WriteState

\* A run writes its state and ends.
LEMMA WriteEndsKeeps ==
  ASSUME IInv, NEW m \in Macs, WriteState(m), Ends(m),
         UNCHANGED <<relay, damaged, flight, content, faults>>
  PROVE  IInv'
<1>1. PICK d \in States :
        /\ disk' = [disk EXCEPT ![m] = d]
        /\ StateOK(content[m], d.anchor, d.told)
  BY WriteFacts
<1>2. faults' \in 0..MaxFaults
  BY Facts
<1> QED BY <1>1, <1>2, EndsKeeps

\* A run ends and the state in the data folder stays.
LEMMA OnlyEndsKeeps ==
  ASSUME IInv, NEW m \in Macs, Ends(m), faults' \in 0..MaxFaults,
         UNCHANGED <<relay, damaged, flight, content, disk>>
  PROVE  IInv'
BY Facts, EndsKeeps

\* A copy that cannot be read ends the run.
LEMMA FetchFailsKeeps ==
  ASSUME IInv, NEW m \in Macs, FetchFails(m)
  PROVE  IInv'
<1>1. CASE WriteState(m)
  BY <1>1, WriteEndsKeeps DEF FetchFails
<1>2. CASE UNCHANGED disk
  BY <1>2, Facts, OnlyEndsKeeps DEF FetchFails
<1> QED BY <1>1, <1>2 DEF FetchFails

\* After the merge the state is written, with the head as its anchor.
LEMMA SaveMergeKeeps ==
  ASSUME IInv, NEW m \in Macs, SaveMerge(m)
  PROVE  IInv'
<1> DEFINE old == run[m]
           r == [old EXCEPT !.pc = "compare"]
<1>1. PICK d \in States :
        /\ d.anchor = old.anchor
        /\ disk' = [disk EXCEPT ![m] = d]
        /\ StateOK(content[m], d.anchor, d.told)
  BY WriteFacts DEF SaveMerge
<1>2. old \in Runs /\ RunOK(content[m], disk[m], old) /\ old.pc = "merged"
  BY Facts DEF SaveMerge, At
<1>3. /\ r \in Runs /\ r.pc = "compare" /\ r.kind = old.kind
      /\ r.anchor = old.anchor /\ r.told = old.told /\ r.head = old.head
  BY <1>2 DEF Runs, Steps
<1>4. LinksTo(old.anchor, old.anchor)
  BY <1>2, LinksReflexive DEF Runs
<1>5. RunOK(content[m], d, r)
  <2> HIDE DEF r, old
  <2> QED BY <1>1, <1>2, <1>3, <1>4 DEF RunOK
<1>6. /\ run' = [run EXCEPT ![m] = r]
      /\ content' = [content EXCEPT ![m] = content[m]]
  BY Facts DEF SaveMerge, Goto, Goes
<1>7. UNCHANGED <<relay, damaged, flight, faults>>
  BY DEF SaveMerge
<1> HIDE DEF r
<1> QED BY <1>1, <1>3, <1>5, <1>6, <1>7, Facts, StepOf

\* The copy has what the vault has, which is more than the head has.
LEMMA WriteCopyKeeps ==
  ASSUME IInv, NEW m \in Macs, WriteCopy(m)
  PROVE  IInv'
<1> DEFINE old == run[m]
           r == [old EXCEPT !.copy = content[m], !.pc = "put"]
<1>1. old \in Runs /\ RunOK(content[m], disk[m], old) /\ old.pc = "compare"
  BY Facts DEF WriteCopy, At
<1>2. content[m] \in SUBSET Changes
  BY Facts
<1>3. /\ r \in Runs /\ r.pc = "put" /\ r.kind = old.kind
      /\ r.anchor = old.anchor /\ r.told = old.told /\ r.head = old.head
      /\ r.copy = content[m]
  BY <1>1, <1>2 DEF Runs, Steps
<1>4. old.head = NoHead \/ old.told # content[m]
  BY DEF WriteCopy
<1>5. CopyOK(r)
  <2> HIDE DEF r, old
  <2> QED BY <1>1, <1>3, <1>4 DEF CopyOK, RunOK, StateOK
<1>6. RunOK(content[m], disk[m], r)
  <2> HIDE DEF r, old
  <2> QED BY <1>1, <1>3, <1>5 DEF RunOK
<1>7. /\ run' = [run EXCEPT ![m] = r]
      /\ content' = [content EXCEPT ![m] = content[m]]
      /\ disk' = [disk EXCEPT ![m] = disk[m]]
  BY Facts DEF WriteCopy, Goes
<1>8. UNCHANGED <<relay, damaged, flight, faults>>
  BY DEF WriteCopy
<1> HIDE DEF r
<1> QED BY <1>2, <1>3, <1>6, <1>7, <1>8, Facts, StepOf

\* The owner's copy goes over whatever head the relay has.
LEMMA ReplaceHeadKeeps ==
  ASSUME IInv, NEW m \in Macs, ReplaceHead(m)
  PROVE  IInv'
<1> DEFINE old == run[m]
           r == [old EXCEPT !.head = relay, !.copy = content[m], !.pc = "put"]
<1>1. /\ old \in Runs /\ RunOK(content[m], disk[m], old)
      /\ old.pc = "head" /\ old.kind = "replace"
  BY Facts DEF ReplaceHead, At
<1>2. content[m] \in SUBSET Changes /\ relay \in Seq(Entries) /\ Grows(relay)
  BY Facts
<1>3. /\ r \in Runs /\ r.pc = "put" /\ r.kind = "replace"
      /\ r.anchor = old.anchor /\ r.told = old.told /\ r.head = relay
      /\ r.copy = content[m]
  BY <1>1, <1>2 DEF Runs, Steps
<1>4. RunOK(content[m], disk[m], r)
  <2> HIDE DEF r, old
  <2> QED BY <1>1, <1>2, <1>3 DEF RunOK, CopyOK
<1>5. /\ run' = [run EXCEPT ![m] = r]
      /\ content' = [content EXCEPT ![m] = content[m]]
      /\ disk' = [disk EXCEPT ![m] = disk[m]]
  BY Facts DEF ReplaceHead, Goes
<1>6. UNCHANGED <<relay, damaged, flight, faults>>
  BY DEF ReplaceHead
<1> HIDE DEF r
<1> QED BY <1>2, <1>3, <1>4, <1>5, <1>6, Facts, StepOf

(***************************************************************************)
(* Pushes.                                                                 *)
(***************************************************************************)

\* The head that a run signs has grown from the head that the run saw.
LEMMA PushedFacts ==
  ASSUME IInv, NEW m \in Macs, run[m].pc \in {"put", "ask"}
  PROVE  /\ Pushed(m) \in Seq(Entries)
         /\ Pushed(m) # NoHead
         /\ Grows(Pushed(m))
         /\ Top(Pushed(m)).content = run[m].copy
         /\ run[m].copy \subseteq content[m]
         /\ run[m].kind # "replace" => LinksTo(Pushed(m), run[m].anchor)
         /\ Append(Before(Pushed(m)), Top(Pushed(m))) = Pushed(m)
<1> DEFINE e == [content |-> run[m].copy, by |-> m,
                 replaced |-> run[m].kind = "replace"]
           head == run[m].head
<1>1. head \in Seq(Entries) /\ e \in Entries /\ run[m] \in Runs
  BY Facts DEF Runs, Entries
<1>2. /\ Grows(head) /\ CopyOK(run[m])
      /\ run[m].copy \subseteq content[m]
  BY Facts DEF RunOK
<1>3. head # NoHead => e.replaced \/ (/\ Top(head).content \subseteq e.content
                                      /\ Top(head).content # e.content)
  BY <1>2 DEF CopyOK
<1>4. Pushed(m) = Append(head, e)
  BY DEF Pushed
<1>5. Grows(Pushed(m))
  BY <1>1, <1>2, <1>3, <1>4, GrowsAppend
<1>6. /\ Pushed(m) \in Seq(Entries) /\ Pushed(m) # NoHead
      /\ Top(Pushed(m)) = e /\ LinksTo(Pushed(m), head)
  BY <1>1, <1>4, AppendFacts
<1>7. run[m].kind # "replace" => LinksTo(Pushed(m), run[m].anchor)
  BY <1>2, <1>6 DEF CopyOK
<1> QED BY <1>2, <1>5, <1>6, <1>7, BeforeAndTop

\* A run whose push landed goes on from its own head.
LEMMA LandedKeeps ==
  ASSUME IInv, NEW m \in Macs, run[m].pc \in {"put", "ask"}, Landed(m),
         relay' \in Seq(Entries), Grows(relay'),
         UNCHANGED <<damaged, flight, content, disk, faults>>
  PROVE  IInv'
<1> DEFINE old == run[m]
           head == Pushed(m)
           r == [old EXCEPT !.pc = "pushed", !.anchor = head, !.told = old.copy]
<1>1. old \in Runs /\ RunOK(content[m], disk[m], old)
  BY Facts
<1>2. /\ head \in Seq(Entries) /\ head # NoHead
      /\ Top(head).content = old.copy /\ old.copy \subseteq content[m]
      /\ old.kind # "replace" => LinksTo(head, old.anchor)
  BY PushedFacts
<1>3. disk[m].anchor \in Seq(Entries) /\ old.anchor \in Seq(Entries)
  BY Facts DEF States, Runs
<1>4. /\ r \in Runs /\ r.pc = "pushed" /\ r.kind = old.kind
      /\ r.anchor = head /\ r.told = old.copy /\ r.head = old.head
  <2> HIDE DEF head
  <2> QED BY <1>1, <1>2 DEF Runs, Steps
<1>5. old.kind = "sync" => LinksTo(head, disk[m].anchor)
  <2> HIDE DEF head
  <2> QED BY <1>1, <1>2, <1>3, LinksTransitive DEF RunOK
<1>6. RunOK(content[m], disk[m], r)
  <2> HIDE DEF r, head, old
  <2> QED BY <1>1, <1>2, <1>4, <1>5 DEF RunOK, StateOK
<1>7. /\ run' = [run EXCEPT ![m] = r]
      /\ content' = [content EXCEPT ![m] = content[m]]
      /\ disk' = [disk EXCEPT ![m] = disk[m]]
  BY Facts DEF Landed, Goes
<1>8. UNCHANGED <<damaged, flight, faults>>
  OBVIOUS
<1> HIDE DEF r
<1> QED BY <1>4, <1>6, <1>7, <1>8, Facts, StepOf

\* A push that commits.
LEMMA PutKeeps ==
  ASSUME IInv, NEW m \in Macs, Put(m)
  PROVE  IInv'
<1>1. run[m].pc \in {"put", "ask"}
  BY DEF Put, At
<1>2. relay' = Pushed(m)
  BY <1>1, PushedFacts DEF Put, Commits, Commit
<1>3. relay' \in Seq(Entries) /\ Grows(relay')
  BY <1>1, <1>2, PushedFacts
<1> QED BY <1>1, <1>3, LandedKeeps DEF Put

\* A push whose answer was lost, and that is on the relay.
LEMMA AskLandedKeeps ==
  ASSUME IInv, NEW m \in Macs, AskLanded(m)
  PROVE  IInv'
<1>1. run[m].pc \in {"put", "ask"}
  BY DEF AskLanded, At
<1>2. relay' \in Seq(Entries) /\ Grows(relay')
  BY Facts DEF AskLanded
<1> QED BY <1>1, <1>2, LandedKeeps DEF AskLanded

\* A step of a run that changes only its place.
LEMMA PlaceKeeps ==
  ASSUME IInv, NEW m \in Macs, NEW r \in Runs, Goes(m, r),
         RunOK(content[m], disk[m], r),
         UNCHANGED <<relay, damaged, content, disk>>,
         flight' \subseteq Seq(Entries),
         \A head \in flight' : head # NoHead /\ Grows(head),
         faults' \in 0..MaxFaults
  PROVE  IInv'
<1>1. run' = [run EXCEPT ![m] = r]
  BY DEF Goes
<1> QED BY <1>1, Facts, StepOf

\* A run that goes around once more.
LEMMA NextRound ==
  ASSUME NEW q \in Runs, q.round < MaxRounds
  PROVE  LET r == [q EXCEPT !.pc = "head", !.round = @ + 1]
         IN  /\ r \in Runs /\ r.pc = "head" /\ r.kind = q.kind
             /\ r.anchor = q.anchor /\ r.told = q.told /\ r.head = q.head
<1>1. q.round \in 1..MaxRounds
  BY DEF Runs
<1>2. q.round + 1 \in 1..MaxRounds
  BY <1>1, RelayAssumption
<1> QED BY <1>2 DEF Runs, Steps

\* A push that the relay refuses.
LEMMA PutRefusedKeeps ==
  ASSUME IInv, NEW m \in Macs, PutRefused(m)
  PROVE  IInv'
<1> DEFINE old == run[m]
           r == [old EXCEPT !.pc = "head", !.round = @ + 1]
<1>1. old \in Runs /\ RunOK(content[m], disk[m], old) /\ old.pc = "put"
  BY Facts DEF PutRefused, At
<1>2. CASE old.round < MaxRounds
  <2>1. /\ r \in Runs /\ r.pc = "head" /\ r.kind = old.kind
        /\ r.anchor = old.anchor /\ r.told = old.told /\ r.head = old.head
    <3> HIDE DEF old
    <3> QED BY <1>1, <1>2, NextRound
  <2>2. RunOK(content[m], disk[m], r)
    <3> HIDE DEF r, old
    <3> QED BY <1>1, <2>1 DEF RunOK
  <2>3. Goes(m, r)
    BY <1>2 DEF PutRefused
  <2> HIDE DEF r
  <2> QED BY <2>1, <2>2, <2>3, Facts, PlaceKeeps DEF PutRefused
<1>3. CASE ~(old.round < MaxRounds)
  BY <1>3, Facts, OnlyEndsKeeps DEF PutRefused
<1> QED BY <1>2, <1>3

\* A push whose answer did not come is on its way.
LEMMA PutBrokenKeeps ==
  ASSUME IInv, NEW m \in Macs, PutBroken(m)
  PROVE  IInv'
<1> DEFINE old == run[m]
           r == [old EXCEPT !.pc = "ask"]
<1>1. old \in Runs /\ RunOK(content[m], disk[m], old) /\ old.pc = "put"
  BY Facts DEF PutBroken, At
<1>2. /\ r \in Runs /\ r.pc = "ask" /\ r.kind = old.kind /\ r.copy = old.copy
      /\ r.anchor = old.anchor /\ r.told = old.told /\ r.head = old.head
  BY <1>1 DEF Runs, Steps
<1>3. RunOK(content[m], disk[m], r)
  <2> HIDE DEF r, old
  <2> QED BY <1>1, <1>2 DEF RunOK, CopyOK
<1>4. Goes(m, r)
  BY DEF PutBroken, Goto
<1>5. Pushed(m) \in Seq(Entries) /\ Pushed(m) # NoHead /\ Grows(Pushed(m))
  BY <1>1, PushedFacts
<1>6. /\ flight' \subseteq Seq(Entries)
      /\ \A head \in flight' : head # NoHead /\ Grows(head)
  BY <1>5, Facts DEF PutBroken
<1>7. faults' \in 0..MaxFaults
  BY FaultType DEF PutBroken
<1>8. UNCHANGED <<relay, damaged, content, disk>>
  BY DEF PutBroken
<1> HIDE DEF r
<1> QED BY <1>2, <1>3, <1>4, <1>6, <1>7, <1>8, PlaceKeeps

(***************************************************************************)
(* The relay.                                                              *)
(***************************************************************************)

\* A step of the relay alone.
LEMMA RelayKeeps ==
  ASSUME IInv, relay' \in Seq(Entries), Grows(relay'),
         flight' \subseteq flight, damaged' \subseteq Seq(Entries),
         faults' \in 0..MaxFaults, UNCHANGED <<content, disk, run>>
  PROVE  IInv'
<1>1. \A m \in Macs : MacOK(m)'
  BY DEF IInv, MacOK
<1> QED BY <1>1 DEF IInv, TypeOK

\* A push that comes late.
LEMMA LateCommitKeeps ==
  ASSUME IInv, NEW head \in flight, LateCommit(head)
  PROVE  IInv'
<1>1. head \in Seq(Entries) /\ head # NoHead /\ Grows(head)
  BY DEF IInv, TypeOK
<1>2. relay' = head
  BY <1>1, BeforeAndTop DEF LateCommit, Commits, Commit
<1>3. /\ flight' \subseteq flight /\ damaged' \subseteq Seq(Entries)
      /\ faults' \in 0..MaxFaults
  BY DEF LateCommit, IInv, TypeOK
<1> QED BY <1>1, <1>2, <1>3, RelayKeeps DEF LateCommit

\* A relay that comes back from a backup.
LEMMA GoesBackKeeps ==
  ASSUME IInv, RelayGoesBack
  PROVE  IInv'
<1>1. PICK n \in 0..(Len(relay) - 1) : relay' = SubSeq(relay, 1, n)
  BY DEF RelayGoesBack
<1>2. relay \in Seq(Entries) /\ Grows(relay) /\ Len(relay) \in Nat
  BY LenProperties DEF IInv, TypeOK
<1>3. n \in 0..Len(relay)
  BY <1>1, <1>2
<1>4. relay' \in Seq(Entries) /\ Grows(relay')
  BY <1>1, <1>2, <1>3, GrowsPrefix
<1>5. faults' \in 0..MaxFaults
  BY FaultType DEF RelayGoesBack
<1>6. flight' \subseteq flight /\ damaged' \subseteq Seq(Entries)
  BY DEF RelayGoesBack, IInv, TypeOK
<1> QED BY <1>4, <1>5, <1>6, RelayKeeps DEF RelayGoesBack

\* A copy on the relay that is damaged.
LEMMA DamageKeeps ==
  ASSUME IInv, CopyIsDamaged
  PROVE  IInv'
<1>1. faults' \in 0..MaxFaults
  BY FaultType DEF CopyIsDamaged
<1>2. /\ relay' \in Seq(Entries) /\ Grows(relay')
      /\ flight' \subseteq flight /\ damaged' \subseteq Seq(Entries)
  BY DEF CopyIsDamaged, IInv, TypeOK
<1> QED BY <1>1, <1>2, RelayKeeps DEF CopyIsDamaged

(***************************************************************************)
(* The theorems.                                                           *)
(***************************************************************************)

\* A step of one Mac keeps the invariant.
LEMMA MacStepKeeps ==
  ASSUME IInv, NEW m \in Macs,
         \/ Step(m)
         \/ Edit(m) \/ UseRelayCopy(m) \/ ReplaceRelayCopy(m)
         \/ PutBroken(m) \/ Stop(m)
  PROVE  IInv'
<1>a. disk[m].anchor \in Seq(Entries) /\ NoHead \in Seq(Entries)
  BY Facts, EmptySeq DEF States, NoHead
<1>f. UNCHANGED faults => faults' \in 0..MaxFaults
  BY Facts
<1>1. CASE Sync(m)
  BY <1>1, <1>a, <1>f, StartKeeps DEF Sync, Kinds
<1>2. CASE LookAtHead(m)
  BY <1>2, LookKeeps
<1>3. CASE LookRefused(m)
  BY <1>3, <1>f, OnlyEndsKeeps DEF LookRefused
<1>4. CASE ReplaceHead(m)
  BY <1>4, ReplaceHeadKeeps
<1>5. CASE Fetch(m)
  BY <1>5, FetchKeeps
<1>6. CASE FetchFails(m)
  BY <1>6, FetchFailsKeeps
<1>7. CASE SaveMerge(m)
  BY <1>7, SaveMergeKeeps
<1>8. CASE InSync(m)
  BY <1>8, WriteEndsKeeps DEF InSync
<1>9. CASE WriteCopy(m)
  BY <1>9, WriteCopyKeeps
<1>10. CASE Put(m)
  BY <1>10, PutKeeps
<1>11. CASE PutRefused(m)
  BY <1>11, PutRefusedKeeps
<1>12. CASE AskLanded(m)
  BY <1>12, AskLandedKeeps
<1>13. CASE AskUnknown(m)
  BY <1>13, <1>f, OnlyEndsKeeps DEF AskUnknown
<1>14. CASE SavePush(m)
  BY <1>14, WriteEndsKeeps DEF SavePush
<1>15. CASE Edit(m)
  BY <1>15, EditKeeps
<1>16. CASE UseRelayCopy(m)
  BY <1>16, <1>a, FaultType, StartKeeps DEF UseRelayCopy, Kinds
<1>17. CASE ReplaceRelayCopy(m)
  BY <1>17, <1>a, FaultType, StartKeeps DEF ReplaceRelayCopy, Kinds
<1>18. CASE PutBroken(m)
  BY <1>18, PutBrokenKeeps
<1>19. CASE Stop(m)
  BY <1>19, FaultType, OnlyEndsKeeps DEF Stop
<1> QED BY <1>1, <1>2, <1>3, <1>4, <1>5, <1>6, <1>7, <1>8, <1>9, <1>10,
           <1>11, <1>12, <1>13, <1>14, <1>15, <1>16, <1>17, <1>18, <1>19
        DEF Step

\* Every step keeps the invariant.
LEMMA InvStep ==
  ASSUME IInv, [Next]_vars
  PROVE  IInv'
<1>1. CASE UNCHANGED vars
  BY <1>1 DEF vars, IInv, TypeOK, MacOK
<1>2. CASE \E m \in Macs :
             \/ Step(m)
             \/ Edit(m) \/ UseRelayCopy(m) \/ ReplaceRelayCopy(m)
             \/ PutBroken(m) \/ Stop(m)
  BY <1>2, MacStepKeeps
<1>3. CASE \E head \in flight : LateCommit(head)
  BY <1>3, LateCommitKeeps
<1>4. CASE RelayGoesBack
  BY <1>4, GoesBackKeeps
<1>5. CASE CopyIsDamaged
  BY <1>5, DamageKeeps
<1> QED BY <1>1, <1>2, <1>3, <1>4, <1>5 DEF Next

\* The invariant holds from the start and at every step (RelaySync::rounds).
THEOREM Invariant == Spec => []IInv
<1>1. Init => IInv
  BY InvInit
<1>2. IInv /\ [Next]_vars => IInv'
  BY InvStep
<1> QED BY <1>1, <1>2, PTL DEF Spec

\* Every state of the relay, the Macs and the runs has its type
\* (SyncState, Anchor).
THEOREM TypeCorrect == Spec => []TypeOK
<1>1. IInv => TypeOK
  BY DEF IInv
<1> QED BY <1>1, Invariant, PTL

\* No push drops a change that the relay has, or makes a version with nothing
\* new: the If-Match of put and of the relay, with the merge before it.
THEOREM UpdatesStay == Spec => []NoUpdateLost
<1>1. IInv => NoUpdateLost
  BY DEF IInv, NoUpdateLost
<1> QED BY <1>1, Invariant, PTL

\* The state in the data folder never runs ahead of the vault (write_state).
THEOREM AnchorsMerged == Spec => []AnchorMerged
<1>1. IInv => AnchorMerged
  BY DEF IInv, MacOK, StateOK, AnchorMerged
<1> QED BY <1>1, Invariant, PTL

\* A change that the copy of the anchor does not have is pushed
\* (last_content).
THEOREM StatesTruthful == Spec => []StateTruthful
<1>1. IInv => StateTruthful
  BY DEF IInv, MacOK, StateOK, StateTruthful
<1> QED BY <1>1, Invariant, PTL

\* A write of the state of a run that the owner did not start around a copy.
LEMMA WriteDescends ==
  ASSUME IInv, NEW m \in Macs, WriteState(m), ~At(m, "idle"),
         NEW n \in Macs, run[n].kind = "sync"
  PROVE  LinksTo(disk'[n].anchor, disk[n].anchor)
<1>1. disk[n].anchor \in Seq(Entries) /\ disk \in [Macs -> States]
  BY Facts DEF States, IInv, TypeOK
<1>2. CASE n = m
  <2>1. disk'[m].anchor = run[m].anchor
    BY <1>1 DEF WriteState
  <2>2. LinksTo(run[m].anchor, disk[m].anchor)
    BY <1>2 DEF IInv, MacOK, RunOK, At
  <2> QED BY <1>2, <2>1, <2>2
<1>3. CASE n # m
  <2>1. disk'[n] = disk[n]
    BY <1>1, <1>3 DEF WriteState
  <2> QED BY <1>1, <2>1, LinksReflexive
<1> QED BY <1>2, <1>3

\* No step of a sync leaves the head that the Mac had.
LEMMA DescendStep ==
  ASSUME IInv, [Next]_vars, NEW n \in Macs, run[n].kind = "sync"
  PROVE  LinksTo(disk'[n].anchor, disk[n].anchor)
<1>1. disk[n].anchor \in Seq(Entries)
  BY Facts DEF States
<1>2. CASE UNCHANGED disk
  BY <1>1, <1>2, LinksReflexive
<1>3. CASE \E m \in Macs : SaveMerge(m) \/ InSync(m) \/ SavePush(m)
  BY <1>3, WriteDescends DEF SaveMerge, InSync, SavePush, At
<1>4. ASSUME NEW m \in Macs, FetchFails(m), disk' # disk
      PROVE  LinksTo(disk'[n].anchor, disk[n].anchor)
  BY <1>4, WriteDescends DEF FetchFails, At
<1>5. \/ UNCHANGED disk
      \/ \E m \in Macs : SaveMerge(m) \/ InSync(m) \/ SavePush(m)
      \/ \E m \in Macs : FetchFails(m) /\ disk' # disk
  BY DEF Next, vars, Step, Sync, UseRelayCopy, ReplaceRelayCopy, StartRun,
         LookAtHead, LookRefused, ReplaceHead, Fetch, FetchFails, WriteCopy,
         Put, PutRefused, PutBroken, AskLanded, AskUnknown, Edit, Stop,
         LateCommit, RelayGoesBack, CopyIsDamaged
<1> QED BY <1>2, <1>3, <1>4, <1>5

\* A sync never takes a rollback or a fork of the relay (Anchor::accept).
THEOREM AnchorsDescend == Spec => AnchorDescends
<1>1. IInv /\ [Next]_vars
        => [\A m \in Macs : run[m].kind = "sync"
              => LinksTo(disk'[m].anchor, disk[m].anchor)]_vars
  BY DescendStep
<1> QED BY <1>1, Invariant, PTL DEF Spec, AnchorDescends
=============================================================================
