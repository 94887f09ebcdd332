----------------------------- MODULE LinksProofs -----------------------------
(***************************************************************************)
(* Proofs about the dashboard, for any numbers of links, headings,         *)
(* passphrases, requests and faults.                                       *)
(*                                                                         *)
(* IInv is inductive.  What is written about a link is about one that is   *)
(* listed or is being forgotten (LeftSound), and everything that outlives  *)
(* a list, the checker's results too, is about ids handed out already      *)
(* (CheckSound), so a new link's id is clean.  The index of the logins in  *)
(* memory misses only logins a reset left behind (IndexSound), so that a   *)
(* change of passphrase rewrites the others, each of which is under the    *)
(* key its place in the work says (VaultSound).                            *)
(***************************************************************************)
EXTENDS Links, FiniteSetTheorems, WellFoundedInduction, TLAPS

(* A list: no two links have one id, ids are handed out in order, and a     *)
(* link is under a heading there is.                                        *)
Lists == [links : Seq([id : Nat, group : Nat]), groups : Seq(Nat),
          nextId : 1..MaxBorn + 1, nextGroup : 1..LastGroup]

IdsOf(l) == {l.links[i].id : i \in DOMAIN l.links}

SoundList(l) ==
    /\ l \in Lists /\ Len(l.links) <= MaxLinks /\ Len(l.groups) <= MaxGroups
    /\ \A i, k \in DOMAIN l.links : l.links[i].id = l.links[k].id => i = k
    /\ \A i \in DOMAIN l.links : /\ l.links[i].id \in 1..l.nextId - 1
                                 /\ l.links[i].group \in {None} \cup ToSet(l.groups)

ListsSound == SoundList(list) /\ SoundList(saved)

(* The request at hand; what it has left to forget was a link, and what it  *)
(* has left to rewrite or to erase is a login.                              *)
Jobs == [what : {"idle", "note", "login", "result", "rotate", "reset"}, todo : SUBSET Ids,
         at : {None} \cup Ids]

JobSound ==
    /\ job \in Jobs
    /\ job.what = "idle" => job = Idle
    /\ Forgets => job.todo \subseteq 1..list.nextId - 1
    /\ job.at = None \/ (job.what \in {"login", "result"} /\ job.at \in job.todo)
    /\ job.what \in {"rotate", "reset"} => job.todo \subseteq Held

(* What the checker holds is of links that were added already.              *)
CheckSound ==
    /\ chk \in [pc : {"rest", "walk", "probe"}, i : 1..MaxLinks + 1, n : Nat, id : Nat]
    /\ recs \in [Ids -> {"none", "unknown", "result"}]
    /\ Cardinality({id \in Ids : recs[id] # "none"}) <= MaxLinks
    /\ online \in BOOLEAN
    /\ chk.pc = "probe" => chk.i <= MaxLinks /\ chk.id \in 1..list.nextId - 1
    /\ \A id \in Ids : recs[id] # "none" => id < list.nextId

(* As long as the list is saved it is the same in flash, and what is        *)
(* written is about links there are, or were and are being forgotten, or    *)
(* were when the power went or an erasure failed; of the link at hand, what *)
(* was erased already is gone.                                              *)
Forgetting == IF Forgets THEN job.todo ELSE {}

LeftSound ==
    /\ notes \subseteq Ids /\ left \subseteq Ids
    /\ left # Ids => /\ saved = list
                     /\ left \subseteq 1..list.nextId - 1
                     /\ notes \cup Held \subseteq Listed \cup left \cup Forgetting
    /\ job.what \in {"login", "result"} => job.at \notin notes \ left
    /\ job.what = "result" => job.at \notin Held \ left

(* The index in memory is of logins there are, but while a reset erases     *)
(* them, and has them all but those a reset left.                           *)
IndexSound ==
    /\ known \subseteq Ids /\ lost \subseteq Ids
    /\ job.what # "reset" => known \subseteq Held
    /\ Held \ lost \subseteq known

(* Every login is under the key in force, or, while the passphrase changes, *)
(* under the new one once it is rewritten; but for those a reset left.      *)
VaultSound ==
    /\ keys \in 0..MaxKeys /\ secrets \in [Ids -> 0..keys]
    /\ meta \in 0..keys /\ session \in {None, meta} /\ torn \in BOOLEAN
    /\ job.what = "rotate" => keys # None
    /\ ~torn => \A id \in Held \ lost :
         secrets[id] = IF job.what = "rotate" /\ id \notin job.todo THEN keys ELSE meta

IInv == ListsSound /\ JobSound /\ CheckSound /\ LeftSound /\ IndexSound /\ VaultSound

-----------------------------------------------------------------------------
(* Sequences and finite sets.                                              *)

(* A nonempty set of naturals has a least element.                          *)
LEMMA LeastNatural ==
    ASSUME NEW I \in SUBSET Nat, I # {}
    PROVE  \E n \in I : \A m \in I : n <= m
<1> DEFINE R == {mn \in Nat \X Nat : mn[1] < mn[2]}
<1>1. IsWellFoundedOn(R, Nat)
  BY NatLessThanWellFounded DEF OpToRel
<1>2. PICK n \in I : \A m \in I : <<m, n>> \notin R
  <2> HIDE DEF R
  <2> QED
    BY <1>1, WFMin
<1>3. \A m \in I : ~(m < n)
  BY <1>2
<1> QED
  BY <1>3

(* A sequence without one of its elements.                                  *)
LEMMA RemovedAt ==
    ASSUME NEW S, NEW s \in Seq(S), NEW i \in 1..Len(s)
    PROVE  /\ RemoveAt(s, i) \in Seq(S) /\ Len(RemoveAt(s, i)) = Len(s) - 1
           /\ \A k \in 1..Len(s) - 1 :
                RemoveAt(s, i)[k] = IF k < i THEN s[k] ELSE s[k + 1]
<1>1. /\ SubSeq(s, 1, i - 1) \in Seq(S) /\ Len(SubSeq(s, 1, i - 1)) = i - 1
      /\ \A k \in 1..i - 1 : SubSeq(s, 1, i - 1)[k] = s[k]
  OBVIOUS
<1>2. /\ SubSeq(s, i + 1, Len(s)) \in Seq(S) /\ Len(SubSeq(s, i + 1, Len(s))) = Len(s) - i
      /\ \A k \in 1..Len(s) - i : SubSeq(s, i + 1, Len(s))[k] = s[i + k]
  OBVIOUS
<1> DEFINE a == SubSeq(s, 1, i - 1)
           b == SubSeq(s, i + 1, Len(s))
<1>3. /\ a \o b \in Seq(S) /\ Len(a \o b) = Len(a) + Len(b)
      /\ \A k \in 1..Len(a) + Len(b) :
           (a \o b)[k] = IF k <= Len(a) THEN a[k] ELSE b[k - Len(a)]
  <2> HIDE DEF a, b
  <2>1. a \in Seq(S) /\ b \in Seq(S)
    BY <1>1, <1>2 DEF a, b
  <2> QED
    BY <2>1
<1>4. RemoveAt(s, i) = a \o b
  BY DEF RemoveAt
<1>5. /\ a \in Seq(S) /\ Len(a) = i - 1 /\ \A k \in 1..i - 1 : a[k] = s[k]
      /\ b \in Seq(S) /\ Len(b) = Len(s) - i /\ \A k \in 1..Len(s) - i : b[k] = s[i + k]
  BY <1>1, <1>2
<1>6. Len(s) \in Nat /\ i \in 1..Len(s)
  OBVIOUS
<1> HIDE DEF a, b
<1>7. \A k \in 1..Len(s) - 1 : (a \o b)[k] = IF k < i THEN s[k] ELSE s[k + 1]
  <2> SUFFICES ASSUME NEW k \in 1..Len(s) - 1
               PROVE  (a \o b)[k] = IF k < i THEN s[k] ELSE s[k + 1]
    OBVIOUS
  <2>1. (a \o b)[k] = IF k <= i - 1 THEN a[k] ELSE b[k - (i - 1)]
    BY <1>3, <1>5, <1>6
  <2>2. k < i => a[k] = s[k]
    BY <1>5, <1>6
  <2>3. ~(k < i) => b[k - (i - 1)] = s[i + (k - (i - 1))] /\ i + (k - (i - 1)) = k + 1
    BY <1>5, <1>6
  <2>4. k <= i - 1 <=> k < i
    BY <1>6
  <2> QED
    BY <2>1, <2>2, <2>3, <2>4
<1>8. (i - 1) + (Len(s) - i) = Len(s) - 1
  BY <1>6
<1>9. a \o b \in Seq(S) /\ Len(a \o b) = Len(s) - 1
  BY <1>3, <1>5, <1>8
<1> QED
  BY <1>7, <1>4, <1>9

(* A sequence without the first of an element.                              *)
LEMMA RemovedFirst ==
    ASSUME NEW S, NEW s \in Seq(S), NEW e
    PROVE  RemoveFirst(s, e) \in Seq(S) /\ Len(RemoveFirst(s, e)) <= Len(s)
<1>1. CASE \E i \in 1..Len(s) : s[i] = e
  <2> DEFINE I == {i \in 1..Len(s) : s[i] = e}
  <2>1. PICK n \in I : \A m \in I : n <= m
    <3>1. I \in SUBSET Nat /\ I # {}
      BY <1>1
    <3> HIDE DEF I
    <3> QED
      BY <3>1, LeastNatural
  <2>2. Min(I) \in I
    BY <2>1 DEF Min
  <2>3. RemoveFirst(s, e) = RemoveAt(s, Min(I))
    BY <1>1 DEF RemoveFirst, SelectInSeq
  <2> QED
    BY <2>2, <2>3, RemovedAt
<1>2. CASE ~\E i \in 1..Len(s) : s[i] = e
  BY <1>2 DEF RemoveFirst
<1> QED
  BY <1>1, <1>2

(* The elements of a sequence are finitely many.                            *)
LEMMA ElementsAreFinite ==
    ASSUME NEW S, NEW s \in Seq(S)
    PROVE  IsFiniteSet(ToSet(s)) /\ Cardinality(ToSet(s)) <= Len(s)
           /\ Cardinality(ToSet(s)) \in Nat
<1>1. IsFiniteSet(1..Len(s)) /\ Cardinality(1..Len(s)) = Len(s)
  <2>1. 1 \in Int /\ Len(s) \in Int /\ Len(s) \in Nat
    OBVIOUS
  <2>2. IsFiniteSet(1..Len(s)) /\ Cardinality(1..Len(s)) = IF 1 > Len(s) THEN 0 ELSE Len(s) - 1 + 1
    BY <2>1, FS_Interval
  <2> QED
    BY <2>1, <2>2
<1>2. s \in Surjection(1..Len(s), ToSet(s))
  BY DEF Surjection, ToSet
<1> QED
  BY <1>1, <1>2, FS_Surjection, FS_CardinalityType

(* An order of all elements leaves none out.                                *)
LEMMA OrdersAreOnto ==
    ASSUME NEW S, NEW s \in Seq(S), NEW t \in SetToSeqs(ToSet(s))
    PROVE  t \in Seq(S) /\ ToSet(t) = ToSet(s)
<1>1. IsFiniteSet(ToSet(s)) /\ Cardinality(ToSet(s)) \in Nat
  BY ElementsAreFinite
<1> DEFINE D == 1..Cardinality(ToSet(s))
<1>2. t \in [D -> ToSet(s)] /\ \A i, j \in D : i # j => t[i] # t[j]
  BY DEF SetToSeqs
<1>3. Cardinality(D) = Cardinality(ToSet(s))
  BY <1>1, FS_Interval
<1>4. t \in Injection(D, ToSet(s))
  BY <1>2 DEF Injection, IsInjective
<1>5. t \in Surjection(D, ToSet(s))
  BY <1>1, <1>3, <1>4, FS_Injection
<1>6. ToSet(t) = ToSet(s)
  BY <1>5 DEF Surjection, ToSet
<1>7. ToSet(s) \subseteq S
  BY DEF ToSet
<1> QED
  BY <1>1, <1>2, <1>6, <1>7

-----------------------------------------------------------------------------
(* Requests about links and headings.                                      *)

(* What ids a list may hand out.                                            *)
LEMMA IdFacts ==
    ASSUME IInv
    PROVE  /\ list.nextId \in 1..MaxBorn + 1 /\ MaxBorn \in Nat /\ MaxLinks \in Nat
           /\ MaxGroups \in Nat /\ LastGroup \in Nat \ {0} /\ Listed = IdsOf(list)
           /\ Listed \subseteq 1..list.nextId - 1 /\ Listed \subseteq Ids
<1>1. MaxBorn \in Nat /\ MaxLinks \in Nat /\ MaxGroups \in Nat /\ LastGroup \in Nat \ {0}
  BY LinksAssumption
<1>2. list.nextId \in 1..MaxBorn + 1
  BY DEF IInv, ListsSound, SoundList, Lists
<1>3. Listed = IdsOf(list)
  BY DEF Listed, IdsOf
<1>4. Listed \subseteq 1..list.nextId - 1
  BY DEF IInv, ListsSound, SoundList, Listed
<1> QED
  BY <1>1, <1>2, <1>3, <1>4 DEF Ids

(* The links of the list, one by one.                                       *)
LEMMA LinkFacts ==
    ASSUME IInv
    PROVE  /\ list \in Lists /\ list.links \in Seq([id : Nat, group : Nat])
           /\ list.groups \in Seq(Nat) /\ Len(list.groups) <= MaxGroups
           /\ DOMAIN list.links = 1..Len(list.links) /\ Len(list.links) \in 0..MaxLinks
           /\ \A i \in 1..Len(list.links) :
                /\ list.links[i] \in [id : Nat, group : Nat]
                /\ list.links[i].id \in 1..list.nextId - 1
                /\ list.links[i].group \in {None} \cup ToSet(list.groups)
           /\ \A i, k \in 1..Len(list.links) : list.links[i].id = list.links[k].id => i = k
<1> DEFINE S == [id : Nat, group : Nat]
           s == list.links
<1>1. SoundList(list) /\ list \in Lists /\ s \in Seq(S) /\ list.groups \in Seq(Nat)
  BY DEF IInv, ListsSound, SoundList, Lists
<1> HIDE DEF S, s
<1>2. DOMAIN s = 1..Len(s) /\ Len(s) \in Nat /\ \A i \in 1..Len(s) : s[i] \in S
  BY <1>1
<1>3. MaxLinks \in Nat /\ Len(s) \in 0..MaxLinks /\ Len(list.groups) <= MaxGroups
  BY <1>1, <1>2, LinksAssumption DEF SoundList, s
<1>4. \A i \in 1..Len(s) : /\ s[i].id \in 1..list.nextId - 1
                           /\ s[i].group \in {None} \cup ToSet(list.groups)
  BY <1>1, <1>2 DEF SoundList, s
<1>5. \A i, k \in 1..Len(s) : s[i].id = s[k].id => i = k
  BY <1>1, <1>2 DEF SoundList, s
<1> QED
  BY <1>1, <1>2, <1>3, <1>4, <1>5 DEF S, s

(* A request that changes the list keeps the invariant, saved or not, if    *)
(* the links that go are to be forgotten.                                   *)
LEMMA ListKeeps ==
    ASSUME IInv, job = Idle, NEW l, SoundList(l), Save(l), OnlyList,
           l.nextId >= list.nextId,
           \/ job' = Idle /\ Listed \subseteq IdsOf(l)
           \/ /\ job'.what = "note" /\ job' \in Jobs /\ job'.at = None
              /\ job'.todo \subseteq Listed /\ Listed \subseteq IdsOf(l) \cup job'.todo
    PROVE  IInv'
<1> USE DEF OnlyList, checker
<1>1. /\ list' = l
      /\ \/ saved' = l /\ left' = left
         \/ saved' = saved /\ left' = Ids
  BY DEF Save
<1>2. ListsSound'
  BY <1>1 DEF IInv, ListsSound, SoundList, Lists
<1>3. /\ list.nextId \in Nat /\ l.nextId \in Nat /\ Listed \subseteq 1..list.nextId - 1
      /\ Listed = IdsOf(list)
  BY IdFacts DEF SoundList, Lists
<1>4. /\ job' \in Jobs /\ job'.what \in {"idle", "note"} /\ job'.at = None
      /\ (job'.what = "idle" => job' = Idle)
  BY DEF Idle, Jobs
<1>5. 1..list.nextId - 1 \subseteq 1..l.nextId - 1
  BY <1>3
<1>6. JobSound'
  BY <1>1, <1>3, <1>4, <1>5 DEF JobSound, Idle, Forgets
<1>7. CheckSound'
  <2>1. UNCHANGED <<chk, recs, online>> /\ list'.nextId = l.nextId /\ CheckSound
    BY <1>1 DEF IInv
  <2>2. \A id \in Ids : recs'[id] # "none" => id < list'.nextId
    BY <1>3, <2>1 DEF CheckSound, Ids
  <2>3. chk'.pc = "probe" => chk'.i <= MaxLinks /\ chk'.id \in 1..list'.nextId - 1
    BY <1>1, <1>5, <2>1 DEF CheckSound
  <2> QED
    BY <2>1, <2>2, <2>3 DEF CheckSound
<1>8. LeftSound'
  <2>1. notes' \subseteq Ids /\ left' \subseteq Ids
    BY <1>1 DEF IInv, LeftSound
  <2>2. SUFFICES ASSUME left' # Ids
                 PROVE  /\ saved' = list' /\ left' \subseteq 1..list'.nextId - 1
                        /\ notes' \cup Held' \subseteq Listed' \cup left' \cup Forgetting'
    BY <1>4, <2>1 DEF LeftSound
  <2>3. saved' = l /\ left' = left /\ left # Ids
    BY <1>1, <2>2
  <2>4. notes \cup Held \subseteq Listed \cup left
    BY <2>3 DEF IInv, LeftSound, Forgetting, Forgets, Idle
  <2>5. Listed' = IdsOf(l) /\ Held' = Held /\ notes' = notes
    BY <1>1 DEF Listed, IdsOf, Held
  <2>6. Listed \subseteq IdsOf(l) \cup Forgetting'
    BY DEF Forgetting, Forgets
  <2> QED
    BY <1>1, <1>5, <2>3, <2>4, <2>5, <2>6 DEF IInv, LeftSound
<1>9. VaultSound'
  <2>1. Held' = Held
    BY DEF Held
  <2> QED
    BY <1>4, <2>1 DEF IInv, VaultSound, Idle
<1>10. IndexSound'
  <2>1. Held' = Held /\ known' = known /\ lost' = lost /\ job.what # "reset"
    BY DEF Held, Idle
  <2> QED
    BY <1>4, <2>1 DEF IInv, IndexSound
<1> QED
  BY <1>2, <1>6, <1>7, <1>8, <1>9, <1>10 DEF IInv

(* Adding a link keeps it.                                                  *)
LEMMA AddKeeps ==
    ASSUME IInv, Add
    PROVE  IInv'
<1> DEFINE new == [id |-> list.nextId, group |-> None]
           l == [list EXCEPT !.links = Append(@, new), !.nextId = @ + 1]
<1>1. /\ job = Idle /\ job' = Idle /\ Save(l) /\ OnlyList
      /\ Len(list.links) < MaxLinks /\ list.nextId <= MaxBorn
  BY DEF Add, Edits
<1>2. SoundList(list) /\ list \in Lists
  BY DEF IInv, ListsSound, SoundList
<1>3. /\ list.links \in Seq([id : Nat, group : Nat]) /\ new \in [id : Nat, group : Nat]
      /\ list.nextId \in 1..MaxBorn + 1 /\ MaxBorn \in Nat /\ MaxLinks \in Nat
  BY <1>2, IdFacts DEF Lists, None
<1> HIDE DEF new
<1> DEFINE ls == Append(list.links, new)
<1>4. /\ ls \in Seq([id : Nat, group : Nat]) /\ Len(ls) = Len(list.links) + 1
      /\ \A i \in 1..Len(list.links) : ls[i] = list.links[i]
      /\ ls[Len(list.links) + 1] = new /\ Len(list.links) \in Nat
      /\ DOMAIN ls = 1..Len(list.links) + 1 /\ DOMAIN list.links = 1..Len(list.links)
  BY <1>3
<1> HIDE DEF ls
<1>5. l = [list EXCEPT !.links = ls, !.nextId = list.nextId + 1]
  BY DEF ls
<1>6. list.nextId + 1 \in 1..MaxBorn + 1
  BY <1>1, <1>3
<1> HIDE DEF l
<1>7. l \in Lists /\ l.links = ls /\ l.groups = list.groups /\ l.nextId = list.nextId + 1
  BY <1>2, <1>4, <1>5, <1>6 DEF Lists
<1>8. new.id = list.nextId /\ new.group = None
  BY DEF new
<1>9. SoundList(l)
  <2>1. Len(l.links) <= MaxLinks /\ Len(l.groups) <= MaxGroups
    BY <1>1, <1>2, <1>3, <1>4, <1>7 DEF SoundList
  <2>2. \A i \in 1..Len(list.links) : /\ list.links[i].id \in 1..list.nextId - 1
                                      /\ list.links[i].group \in {None} \cup ToSet(list.groups)
    BY <1>2, <1>4 DEF SoundList
  <2>3. \A i, k \in 1..Len(list.links) : list.links[i].id = list.links[k].id => i = k
    BY <1>2, <1>4 DEF SoundList
  <2>4. \A i \in 1..Len(list.links) + 1 : i \in 1..Len(list.links) \/ i = Len(list.links) + 1
    BY <1>4
  <2>5. \A i \in 1..Len(list.links) : /\ ls[i].id \in 1..list.nextId - 1
                                      /\ ls[i].group \in {None} \cup ToSet(list.groups)
    BY <1>4, <2>2
  <2>6. ls[Len(list.links) + 1].id = list.nextId /\ ls[Len(list.links) + 1].group = None
    BY <1>4, <1>8
  <2>7. \A i, k \in 1..Len(list.links) + 1 : ls[i].id = ls[k].id => i = k
    <3> SUFFICES ASSUME NEW i \in 1..Len(list.links) + 1, NEW k \in 1..Len(list.links) + 1,
                        ls[i].id = ls[k].id
                 PROVE  i = k
      OBVIOUS
    <3>1. \A m : m \in 1..list.nextId - 1 => m # list.nextId
      BY <1>3
    <3>2. CASE i \in 1..Len(list.links) /\ k \in 1..Len(list.links)
      BY <1>4, <2>3, <3>2
    <3>3. CASE i = Len(list.links) + 1 \/ k = Len(list.links) + 1
      BY <2>4, <2>5, <2>6, <3>1, <3>3
    <3> QED
      BY <2>4, <3>2, <3>3
  <2>8. \A i \in 1..Len(list.links) + 1 :
          ls[i].id \in 1..list.nextId /\ ls[i].group \in {None} \cup ToSet(list.groups)
    <3>1. \A m : m \in 1..list.nextId - 1 \/ m = list.nextId => m \in 1..list.nextId
      BY <1>3
    <3>2. None \in {None} \cup ToSet(list.groups)
      OBVIOUS
    <3> QED
      BY <2>4, <2>5, <2>6, <3>1, <3>2
  <2>9. list.nextId = l.nextId - 1
    BY <1>3, <1>7
  <2> QED
    BY <1>4, <1>7, <2>1, <2>7, <2>8, <2>9 DEF SoundList
<1>10. Listed \subseteq IdsOf(l)
  <2>1. \A i \in 1..Len(list.links) : i \in 1..Len(list.links) + 1
    BY <1>4
  <2> QED
    BY <1>4, <1>7, <2>1 DEF Listed, IdsOf
<1> QED
  BY <1>1, <1>3, <1>7, <1>9, <1>10, ListKeeps

(* Filing a link under a heading keeps it.                                  *)
LEMMA FileKeeps ==
    ASSUME IInv, NEW id \in Ids, NEW g, File(id, g)
    PROVE  IInv'
<1> DEFINE ls == [i \in DOMAIN list.links |-> IF list.links[i].id = id
                                              THEN [list.links[i] EXCEPT !.group = g]
                                              ELSE list.links[i]]
           l == [list EXCEPT !.links = ls]
<1>1. /\ job = Idle /\ job' = Idle /\ Save(l) /\ OnlyList /\ g \in {None} \cup ToSet(list.groups)
  BY DEF File, Edits, Headings
<1>2. SoundList(list) /\ list \in Lists /\ list.links \in Seq([id : Nat, group : Nat])
      /\ list.groups \in Seq(Nat)
  BY DEF IInv, ListsSound, SoundList, Lists
<1>3. g \in Nat
  BY <1>1, <1>2 DEF ToSet, None
<1>4. DOMAIN list.links = 1..Len(list.links) /\ Len(list.links) \in Nat
  BY <1>2
<1>5. \A i \in 1..Len(list.links) : /\ ls[i] \in [id : Nat, group : Nat]
                                    /\ ls[i].id = list.links[i].id
                                    /\ ls[i].group \in {list.links[i].group, g}
  <2> SUFFICES ASSUME NEW i \in 1..Len(list.links)
               PROVE  /\ ls[i] \in [id : Nat, group : Nat] /\ ls[i].id = list.links[i].id
                      /\ ls[i].group \in {list.links[i].group, g}
    OBVIOUS
  <2> DEFINE x == list.links[i]
  <2>1. x \in [id : Nat, group : Nat]
    BY LinkFacts
  <2>2. ls[i] = IF x.id = id THEN [x EXCEPT !.group = g] ELSE x
    BY <1>4
  <2> HIDE DEF x, ls
  <2>3. ls[i] \in [id : Nat, group : Nat] /\ ls[i].id = x.id /\ ls[i].group \in {x.group, g}
    BY <1>3, <2>1, <2>2
  <2> QED
    BY <2>3 DEF x
<1>6. ls = [i \in 1..Len(list.links) |-> ls[i]]
  BY <1>4
<1>7. l = [list EXCEPT !.links = ls]
  OBVIOUS
<1> HIDE DEF l, ls
<1>8. /\ ls \in Seq([id : Nat, group : Nat]) /\ Len(ls) = Len(list.links)
      /\ DOMAIN ls = 1..Len(list.links)
  <2> DEFINE S == [id : Nat, group : Nat]
             n == Len(list.links)
  <2>1. n \in Nat /\ \A i \in 1..n : ls[i] \in S
    BY <1>4, <1>5
  <2>2. ls = [i \in 1..n |-> ls[i]]
    BY <1>6
  <2> HIDE DEF S, n
  <2>3. ls \in Seq(S) /\ Len(ls) = n /\ DOMAIN ls = 1..n
    BY <2>1, <2>2
  <2> QED
    BY <2>3 DEF S, n
<1>9. l \in Lists /\ l.links = ls /\ l.groups = list.groups /\ l.nextId = list.nextId
  BY <1>2, <1>7, <1>8 DEF Lists
<1>10. SoundList(l)
  BY <1>1, <1>2, <1>4, <1>5, <1>8, <1>9 DEF SoundList
<1>11. Listed = IdsOf(l)
  <2>1. IdsOf(l) = {ls[i].id : i \in 1..Len(list.links)}
    BY <1>8, <1>9 DEF IdsOf
  <2>2. Listed = {list.links[i].id : i \in 1..Len(list.links)}
    BY <1>4 DEF Listed
  <2> QED
    BY <1>5, <2>1, <2>2
<1> QED
  BY <1>1, <1>9, <1>10, <1>11, IdFacts, ListKeeps

(* The list of a new dashboard.                                             *)
LEMMA EmptyIsSound == SoundList(Empty)
<1>1. /\ MaxBorn \in Nat /\ MaxLinks \in Nat /\ MaxGroups \in Nat
      /\ LastGroup \in Nat \ {0} /\ Ids = 1..MaxBorn
  BY LinksAssumption DEF Ids
<1>2. Empty.links = <<>> /\ Empty.groups = <<>> /\ Empty \in Lists
  BY <1>1 DEF Empty, Lists
<1> QED
  BY <1>1, <1>2 DEF SoundList

(* There are finitely many ids.                                             *)
LEMMA IdsAreFinite == IsFiniteSet(Ids)
<1>1. 1 \in Int /\ MaxBorn \in Int
  BY LinksAssumption
<1> QED
  BY <1>1, FS_Interval DEF Ids

(* The list with other links, headings and next heading.                    *)
With(ls, gs, next) == [list EXCEPT !.links = ls, !.groups = gs, !.nextGroup = next]

(* A list with some of the links it had, under headings there are.          *)
LEMMA RearrangedIsSound ==
    ASSUME IInv, NEW ls \in Seq([id : Nat, group : Nat]), Len(ls) <= MaxLinks,
           NEW gs \in Seq(Nat), Len(gs) <= MaxGroups, NEW next \in 1..LastGroup,
           \A k \in 1..Len(ls) : /\ ls[k].id \in Listed
                                 /\ ls[k].group \in {None} \cup ToSet(gs),
           \A i, k \in 1..Len(ls) : ls[i].id = ls[k].id => i = k
    PROVE  /\ SoundList(With(ls, gs, next)) /\ With(ls, gs, next).nextId = list.nextId
           /\ IdsOf(With(ls, gs, next)) = {ls[k].id : k \in 1..Len(ls)}
<1> DEFINE l == With(ls, gs, next)
<1>1. list \in Lists
  BY LinkFacts
<1>2. /\ l \in Lists /\ l.links = ls /\ l.groups = gs /\ l.nextId = list.nextId
  BY <1>1 DEF Lists, With
<1> HIDE DEF l
<1>3. DOMAIN ls = 1..Len(ls)
  OBVIOUS
<1>4. SoundList(l)
  BY <1>2, <1>3, IdFacts DEF SoundList
<1> QED
  BY <1>2, <1>3, <1>4 DEF IdsOf, l

(* Removing a link keeps the invariant.                                     *)
LEMMA RemoveKeeps ==
    ASSUME IInv, NEW id \in Ids, RemoveLink(id)
    PROVE  IInv'
<1>1. PICK i \in 1..Len(list.links) : /\ list.links[i].id = id
                                      /\ Save([list EXCEPT !.links = RemoveAt(@, i)])
  BY LinkFacts DEF RemoveLink
<1>2. job = Idle /\ job' = [what |-> "note", todo |-> {id}, at |-> None] /\ OnlyList
  BY DEF RemoveLink, Edits, Forget
<1> DEFINE S == [id : Nat, group : Nat]
           s == list.links
           ls == RemoveAt(s, i)
           n == Len(s)
           l == With(ls, list.groups, list.nextGroup)
<1>3. /\ s \in Seq(S) /\ i \in 1..n /\ n \in 0..MaxLinks /\ MaxLinks \in Nat
      /\ \A k \in 1..n : s[k].id \in Listed /\ s[k].group \in {None} \cup ToSet(list.groups)
      /\ \A j, k \in 1..n : s[j].id = s[k].id => j = k
      /\ Listed = {s[k].id : k \in 1..n}
  BY <1>1, LinkFacts, IdFacts DEF Listed
<1>4. l = [list EXCEPT !.links = ls] /\ list.nextGroup \in 1..LastGroup
  BY LinkFacts DEF Lists, With
<1> HIDE DEF S, s, ls, n, l
<1>5. /\ ls \in Seq(S) /\ Len(ls) = n - 1
      /\ \A k \in 1..n - 1 : ls[k] = IF k < i THEN s[k] ELSE s[k + 1]
  BY <1>3, RemovedAt DEF ls, n
<1>6. \A k \in 1..n - 1 : \E m \in 1..n : m # i /\ ls[k] = s[m] /\ m = IF k < i THEN k ELSE k + 1
  BY <1>3, <1>5
<1>7. \A k \in 1..n - 1 : ls[k].id \in Listed /\ ls[k].group \in {None} \cup ToSet(list.groups)
  BY <1>3, <1>6
<1>8. \A j, k \in 1..n - 1 : ls[j].id = ls[k].id => j = k
  BY <1>3, <1>6
<1>9. n - 1 <= MaxLinks
  BY <1>3
<1>10. SoundList(l) /\ l.nextId = list.nextId /\ IdsOf(l) = {ls[k].id : k \in 1..n - 1}
  <2>1. /\ list.groups \in Seq(Nat) /\ Len(list.groups) <= MaxGroups
        /\ ls \in Seq([id : Nat, group : Nat]) /\ Len(ls) <= MaxLinks
    BY <1>5, <1>9, LinkFacts DEF S
  <2>2. /\ \A k \in 1..Len(ls) : /\ ls[k].id \in Listed
                                 /\ ls[k].group \in {None} \cup ToSet(list.groups)
        /\ \A j, k \in 1..Len(ls) : ls[j].id = ls[k].id => j = k
    BY <1>5, <1>7, <1>8
  <2>3. SoundList(l) /\ l.nextId = list.nextId /\ IdsOf(l) = {ls[k].id : k \in 1..Len(ls)}
    BY <1>4, <2>1, <2>2, RearrangedIsSound DEF l
  <2> QED
    BY <1>5, <2>3
<1>11. Listed \subseteq IdsOf(l) \cup {id}
  <2> SUFFICES ASSUME NEW m \in 1..n, s[m].id # id
               PROVE  s[m].id \in IdsOf(l)
    BY <1>3
  <2>1. m # i
    BY <1>1 DEF s
  <2>2. \E k \in 1..n - 1 : ls[k] = s[m]
    <3>1. CASE m < i
      BY <1>3, <1>5, <3>1
    <3>2. CASE m > i
      <4>1. m - 1 \in 1..n - 1 /\ ~(m - 1 < i) /\ (m - 1) + 1 = m
        BY <1>3, <3>2
      <4> QED
        BY <1>5, <4>1
    <3> QED
      BY <1>3, <2>1, <3>1, <3>2
  <2> QED
    BY <1>10, <2>2
<1>12. Save(l)
  BY <1>1, <1>4 DEF ls, s
<1>13. job' \in Jobs /\ job'.what = "note" /\ job'.at = None /\ job'.todo = {id} /\ id \in Listed
  BY <1>1, <1>2, <1>3 DEF Jobs, s, n
<1>14. l.nextId >= list.nextId
  BY <1>10, IdFacts
<1> QED
  BY <1>2, <1>10, <1>11, <1>12, <1>13, <1>14, ListKeeps

(* A new order keeps the invariant: the links it leaves out are to be       *)
(* forgotten.                                                               *)
LEMMA ReorderKeeps ==
    ASSUME IInv, NEW ids \in Orders(Listed), Reorder(ids)
    PROVE  IInv'
<1> DEFINE S == [id : Nat, group : Nat]
           s == list.links
           n == Len(s)
           Pick(id) == CHOOSE x \in ToSet(s) : x.id = id
           ls == [k \in DOMAIN ids |-> Pick(ids[k])]
           l == With(ls, list.groups, list.nextGroup)
<1>1. /\ s \in Seq(S) /\ n \in 0..MaxLinks /\ MaxLinks \in Nat
      /\ ToSet(s) = {s[k] : k \in 1..n} /\ Listed = {s[k].id : k \in 1..n}
      /\ \A k \in 1..n : s[k] \in S /\ s[k].group \in {None} \cup ToSet(list.groups)
  BY LinkFacts, IdFacts DEF Listed, ToSet
<1>2. l = [list EXCEPT !.links = ls] /\ list.nextGroup \in 1..LastGroup
  BY LinkFacts DEF Lists, With
<1>3. \A id \in Listed : /\ Pick(id) \in S /\ Pick(id).id = id
                         /\ Pick(id).group \in {None} \cup ToSet(list.groups)
  BY <1>1
<1>4. PICK T \in SUBSET Listed : ids \in SetToSeqs(T)
  BY DEF Orders, SetToAllKPermutations
<1>5. IsFiniteSet(T) /\ Cardinality(T) \in Nat /\ Cardinality(T) <= MaxLinks
  <2> DEFINE f == [k \in 1..n |-> s[k].id]
  <2>1. IsFiniteSet(1..n) /\ Cardinality(1..n) = n
    <3>1. 1 \in Int /\ n \in Int /\ n \in Nat
      BY <1>1
    <3> HIDE DEF n
    <3>2. IsFiniteSet(1..n) /\ Cardinality(1..n) = IF 1 > n THEN 0 ELSE n - 1 + 1
      BY <3>1, FS_Interval
    <3> QED
      BY <3>1, <3>2
  <2>2. f \in Surjection(1..n, Listed)
    BY <1>1 DEF Surjection
  <2> HIDE DEF f, n
  <2>3. IsFiniteSet(Listed) /\ Cardinality(Listed) <= n
    BY <2>1, <2>2, FS_Surjection
  <2>4. IsFiniteSet(T) /\ Cardinality(T) <= Cardinality(Listed)
    BY <1>4, <2>3, FS_Subset
  <2> QED
    BY <1>1, <2>3, <2>4, FS_CardinalityType
<1>6. /\ ids \in [1..Cardinality(T) -> T] /\ DOMAIN ids = 1..Cardinality(T)
      /\ \A j, k \in 1..Cardinality(T) : j # k => ids[j] # ids[k]
  BY <1>4 DEF SetToSeqs
<1>7. Save(l) /\ job = Idle /\ OnlyList /\ Forget(Listed \ ToSet(ids))
  BY <1>2 DEF Reorder, Edits
<1> DEFINE m == Cardinality(T)
<1>8. \A k \in 1..m : ls[k] = Pick(ids[k]) /\ ids[k] \in Listed
  BY <1>4, <1>6
<1>9. ls = [k \in 1..m |-> ls[k]]
  BY <1>6
<1> HIDE DEF S, s, n, Pick, ls, l, m
<1>10. /\ ls \in Seq(S) /\ Len(ls) = m /\ m \in Nat /\ m <= MaxLinks
       /\ \A k \in 1..m : /\ ls[k].id = ids[k] /\ ls[k].id \in Listed
                          /\ ls[k].group \in {None} \cup ToSet(list.groups)
  <2>1. m \in Nat /\ m <= MaxLinks
    BY <1>5 DEF m
  <2>2. \A k \in 1..m : ls[k] \in S
    BY <1>3, <1>8
  <2>3. ls \in Seq(S) /\ Len(ls) = m
    BY <1>9, <2>1, <2>2
  <2> QED
    BY <1>3, <1>8, <2>1, <2>3
<1>11. SoundList(l) /\ l.nextId = list.nextId /\ IdsOf(l) = {ls[k].id : k \in 1..m}
  <2>1. /\ list.groups \in Seq(Nat) /\ Len(list.groups) <= MaxGroups
        /\ ls \in Seq([id : Nat, group : Nat]) /\ Len(ls) <= MaxLinks
    BY <1>10, LinkFacts DEF S
  <2>2. /\ \A k \in 1..Len(ls) : /\ ls[k].id \in Listed
                                 /\ ls[k].group \in {None} \cup ToSet(list.groups)
        /\ \A j, k \in 1..Len(ls) : ls[j].id = ls[k].id => j = k
    BY <1>6, <1>10 DEF m
  <2>3. SoundList(l) /\ l.nextId = list.nextId /\ IdsOf(l) = {ls[k].id : k \in 1..Len(ls)}
    BY <1>2, <2>1, <2>2, RearrangedIsSound DEF l
  <2> QED
    BY <1>10, <2>3
<1>12. IdsOf(l) = ToSet(ids)
  BY <1>6, <1>10, <1>11 DEF ToSet, m
<1>13. \/ job' = Idle /\ Listed \subseteq IdsOf(l)
       \/ /\ job'.what = "note" /\ job' \in Jobs /\ job'.at = None
          /\ job'.todo \subseteq Listed /\ Listed \subseteq IdsOf(l) \cup job'.todo
  BY <1>7, <1>12, IdFacts DEF Forget, Jobs
<1>14. l.nextId >= list.nextId
  BY <1>11, IdFacts
<1> QED
  BY <1>7, <1>11, <1>13, <1>14, ListKeeps

(* Requests about headings keep it: a link whose heading goes is under none.*)
LEMMA GroupsKeep ==
    ASSUME IInv, GroupRequests
    PROVE  IInv'
<1> DEFINE S == [id : Nat, group : Nat]
           s == list.links
           n == Len(s)
<1>1. /\ s \in Seq(S) /\ n \in 0..MaxLinks /\ MaxLinks \in Nat
      /\ DOMAIN s = 1..n /\ Listed = {s[k].id : k \in 1..n}
      /\ \A k \in 1..n : s[k] \in S /\ s[k].group \in {None} \cup ToSet(list.groups)
      /\ \A j, k \in 1..n : s[j].id = s[k].id => j = k
  BY LinkFacts, IdFacts DEF Listed
<1>2. /\ list \in Lists /\ list.nextGroup \in 1..LastGroup /\ LastGroup \in Nat \ {0}
      /\ list.groups \in Seq(Nat) /\ Len(list.groups) <= MaxGroups /\ MaxGroups \in Nat
  BY LinkFacts, IdFacts DEF Lists
<1>3. ASSUME NEW ls \in Seq(S), Len(ls) = n,
             NEW gs \in Seq(Nat), Len(gs) <= MaxGroups, NEW next \in 1..LastGroup,
             \A k \in 1..n : /\ ls[k].id = s[k].id
                             /\ ls[k].group \in {None} \cup ToSet(gs),
             Save(With(ls, gs, next)), job = Idle, job' = Idle, OnlyList
      PROVE  IInv'
  <2> DEFINE l == With(ls, gs, next)
  <2>1. /\ \A k \in 1..Len(ls) : ls[k].id \in Listed
        /\ \A j, k \in 1..Len(ls) : ls[j].id = ls[k].id => j = k
        /\ \A k \in 1..Len(ls) : ls[k].group \in {None} \cup ToSet(gs)
        /\ Listed = {ls[k].id : k \in 1..Len(ls)} /\ Len(ls) <= MaxLinks
    <3> HIDE DEF s, n, S
    <3>1. Len(ls) = n /\ \A k \in 1..n : ls[k].id = s[k].id
      BY <1>3
    <3>2. \A k \in 1..n : ls[k].id \in Listed
      BY <1>1, <3>1
    <3>3. \A j, k \in 1..n : ls[j].id = ls[k].id => j = k
      BY <1>1, <3>1
    <3>4. \A k \in 1..n : ls[k].group \in {None} \cup ToSet(gs)
      BY <1>3
    <3>5. Listed = {ls[k].id : k \in 1..n}
      BY <1>1, <3>1
    <3>6. n <= MaxLinks
      BY <1>1
    <3> QED
      BY <3>1, <3>2, <3>3, <3>4, <3>5, <3>6
  <2>2. SoundList(l) /\ l.nextId = list.nextId /\ Listed = IdsOf(l)
    <3> HIDE DEF s, n
    <3> QED
      BY <1>3, <2>1, RearrangedIsSound DEF S
  <2> HIDE DEF l
  <2>3. Save(l)
    BY <1>3 DEF l
  <2>4. job = Idle /\ job' = Idle /\ OnlyList
    BY <1>3
  <2>5. l.nextId >= list.nextId /\ Listed \subseteq IdsOf(l)
    BY <2>2, IdFacts
  <2> HIDE <1>3
  <2> QED
    BY <2>2, <2>3, <2>4, <2>5, ListKeeps
<1>4. CASE AddGroup
  <2> DEFINE gs == Append(list.groups, list.nextGroup)
             next == IF list.nextGroup < LastGroup THEN list.nextGroup + 1 ELSE list.nextGroup
             l == With(s, gs, next)
  <2>1. gs \in Seq(Nat) /\ Len(gs) <= MaxGroups /\ ToSet(list.groups) \subseteq ToSet(gs)
    <3>1. Len(list.groups) < MaxGroups /\ list.nextGroup \in Nat
      BY <1>2, <1>4 DEF AddGroup
    <3>2. /\ gs \in Seq(Nat) /\ Len(gs) = Len(list.groups) + 1
          /\ \A k \in 1..Len(list.groups) : gs[k] = list.groups[k]
      BY <1>2, <3>1
    <3>3. DOMAIN gs = 1..Len(list.groups) + 1 /\ DOMAIN list.groups = 1..Len(list.groups)
      BY <1>2, <3>1
    <3> HIDE DEF gs
    <3>4. \A k \in 1..Len(list.groups) : k \in 1..Len(list.groups) + 1
      BY <1>2
    <3> QED
      BY <1>2, <3>1, <3>2, <3>3, <3>4 DEF ToSet
  <2>2. next \in 1..LastGroup
    BY <1>2
  <2>3. l = [list EXCEPT !.groups = gs, !.nextGroup = next]
    BY <1>2 DEF Lists, With
  <2>4. Save(l) /\ job = Idle /\ job' = Idle /\ OnlyList
    <3> HIDE DEF l
    <3> QED
      BY <1>4, <2>3 DEF AddGroup, Edits
  <2> HIDE DEF gs, next
  <2> QED
    BY <1>1, <1>3, <2>1, <2>2, <2>4
<1>5. ASSUME NEW g \in Headings, RemoveGroup(g)
      PROVE  IInv'
  <2> DEFINE gs == RemoveFirst(list.groups, g)
             ls == [k \in DOMAIN s |-> IF s[k].group \in ToSet(gs) THEN s[k]
                                       ELSE [s[k] EXCEPT !.group = None]]
             l == With(ls, gs, list.nextGroup)
  <2>1. gs \in Seq(Nat) /\ Len(gs) <= MaxGroups
    BY <1>2, RemovedFirst
  <2>2. l = [list EXCEPT !.groups = gs, !.links = ls]
    BY <1>2 DEF Lists, With
  <2>3. Save(l) /\ job = Idle /\ job' = Idle /\ OnlyList
    <3> HIDE DEF l
    <3> QED
      BY <1>5, <2>2 DEF RemoveGroup, Edits
  <2> HIDE DEF gs
  <2>4. \A k \in 1..n : /\ ls[k] \in S /\ ls[k].id = s[k].id
                        /\ ls[k].group \in {None} \cup ToSet(gs)
    <3> SUFFICES ASSUME NEW k \in 1..n
                 PROVE  /\ ls[k] \in S /\ ls[k].id = s[k].id
                        /\ ls[k].group \in {None} \cup ToSet(gs)
      OBVIOUS
    <3> DEFINE x == s[k]
    <3>1. x \in S /\ ls[k] = IF x.group \in ToSet(gs) THEN x ELSE [x EXCEPT !.group = None]
      BY <1>1
    <3> HIDE DEF x, ls
    <3>2. ls[k] \in S /\ ls[k].id = x.id /\ ls[k].group \in {None} \cup ToSet(gs)
      BY <3>1 DEF None
    <3> QED
      BY <3>2 DEF x
  <2>5. ls = [k \in 1..n |-> ls[k]]
    BY <1>1
  <2> HIDE DEF ls, S, n
  <2>6. ls \in Seq(S) /\ Len(ls) = n
    BY <1>1, <2>4, <2>5
  <2> QED
    BY <1>2, <1>3, <2>1, <2>3, <2>4, <2>6
<1>6. ASSUME NEW order \in SetToSeqs(Headings), ReorderGroups(order)
      PROVE  IInv'
  <2> DEFINE l == With(s, order, list.nextGroup)
  <2>1. order \in Seq(Nat) /\ ToSet(order) = ToSet(list.groups) /\ Len(order) <= MaxGroups
    BY <1>2, <1>6, OrdersAreOnto DEF Headings, ReorderGroups
  <2>2. l = [list EXCEPT !.groups = order]
    BY <1>2 DEF Lists, With
  <2>3. Save(l) /\ job = Idle /\ job' = Idle /\ OnlyList
    <3> HIDE DEF l
    <3> QED
      BY <1>6, <2>2 DEF ReorderGroups, Edits
  <2> QED
    BY <1>1, <1>2, <1>3, <2>1, <2>3
<1> QED
  BY <1>4, <1>5, <1>6 DEF GroupRequests

(* The notes and the logins of a link, and the vault: the list stays.       *)
LEMMA NotesKeep ==
    ASSUME IInv, NEW id \in Ids, NEW has \in BOOLEAN, SetNote(id, has) \/ SetSecret(id, has)
    PROVE  IInv'
<1>1. /\ id \in Listed /\ job = Idle /\ job' = Idle
      /\ UNCHANGED <<list, saved, meta, session, checker, keys, faults, torn, left>>
      /\ job.what = "idle" /\ job.at = None
  BY DEF SetNote, SetSecret, Edits, Idle
<1>2. /\ secrets \in [Ids -> 0..keys] /\ meta \in 0..keys /\ session \in {None, meta}
      /\ secrets' = secrets \/ secrets' = [secrets EXCEPT ![id] = IF has THEN session ELSE None]
      /\ secrets' # secrets => session = meta
  BY DEF IInv, VaultSound, SetNote, SetSecret
<1>3. /\ secrets' \in [Ids -> 0..keys]
      /\ \A k \in Ids : secrets'[k] = secrets[k] \/ (k = id /\ secrets'[k] \in {None, meta})
  <2>1. CASE secrets' = secrets
    BY <1>2, <2>1
  <2>2. CASE secrets' # secrets
    <3>1. PICK v \in {None, meta} : secrets' = [secrets EXCEPT ![id] = v]
      BY <1>2, <2>2
    <3>2. v \in 0..keys
      <4>1. keys \in Nat
        BY DEF IInv, VaultSound
      <4> QED
        BY <1>2, <4>1 DEF None
    <3> QED
      BY <1>2, <3>1, <3>2
  <2> QED
    BY <2>1, <2>2
<1>4. notes' \subseteq notes \cup {id} /\ Held' \subseteq Held \cup {id}
  BY <1>3 DEF Held, SetNote, SetSecret
<1>5. ListsSound'
  BY <1>1 DEF IInv, ListsSound
<1>6. JobSound'
  BY <1>1 DEF JobSound, Jobs, Idle, Forgets
<1>7. CheckSound'
  BY <1>1 DEF IInv, CheckSound, checker
<1>8. LeftSound'
  <2>1. Listed' = Listed /\ Forgetting' = {} /\ Forgetting = {}
    BY <1>1 DEF Listed, Forgetting, Forgets, Idle
  <2> QED
    BY <1>1, <1>4, <2>1 DEF IInv, LeftSound
<1>9. VaultSound'
  <2>1. \A k \in Ids : secrets'[k] # None =>
          secrets'[k] = meta \/ (secrets'[k] = secrets[k] /\ k \notin lost)
          \/ k \in lost'
    <3>1. CASE SetNote(id, has)
      BY <3>1 DEF SetNote
    <3>2. CASE SetSecret(id, has)
      <4>1. /\ session = meta /\ lost' = lost \ {id}
            /\ secrets' = [secrets EXCEPT ![id] = IF has THEN session ELSE None]
        BY <1>2, <3>2 DEF SetSecret
      <4> QED
        BY <1>2, <4>1
    <3> QED
      BY <3>1, <3>2
  <2>2. ~torn => \A k \in Held \ lost : secrets[k] = meta
    BY <1>1 DEF IInv, VaultSound
  <2>3. ~torn' => \A k \in Held' \ lost' : secrets'[k] = meta
    BY <1>1, <2>1, <2>2 DEF Held
  <2> QED
    BY <1>1, <1>3, <2>3 DEF IInv, VaultSound
<1>10. IndexSound'
  <2>1. IndexSound /\ known \subseteq Held
    BY <1>1 DEF IInv, IndexSound
  <2>2. CASE SetNote(id, has)
    <3>1. known' = known /\ lost' = lost /\ Held' = Held
      BY <2>2 DEF SetNote, Held
    <3> QED
      BY <1>1, <2>1, <3>1 DEF IndexSound
  <2>3. CASE SetSecret(id, has)
    <3>1. /\ secrets' = [secrets EXCEPT ![id] = IF has THEN session ELSE None]
          /\ known' = (IF has THEN known \cup {id} ELSE known \ {id})
          /\ lost' = lost \ {id} /\ session # None
      BY <2>3 DEF SetSecret
    <3>2. Held' = IF has THEN Held \cup {id} ELSE Held \ {id}
      BY <1>2, <3>1 DEF Held
    <3> QED
      BY <1>1, <2>1, <3>1, <3>2 DEF IndexSound
  <2> QED
    BY <2>2, <2>3
<1> QED
  BY <1>5, <1>6, <1>7, <1>8, <1>9, <1>10 DEF IInv

(* A request about the vault that begins, and a lock or an unlock.          *)
LEMMA VaultKeeps ==
    ASSUME IInv, VaultRequests
    PROVE  IInv'
<1>1. /\ job = Idle /\ job' \in Jobs /\ job'.what \in {"idle", "rotate", "reset"}
      /\ job'.what = "idle" => job' = Idle
      /\ job'.at = None
      /\ job'.what \in {"rotate", "reset"} => job'.todo \subseteq known
      /\ job'.what = "rotate" => /\ keys' # None
                                 /\ job'.todo = IF meta = None THEN {} ELSE known
      /\ UNCHANGED <<store, known, lost, checker, torn, left>>
      /\ keys \in Nat /\ keys' \in Nat /\ keys <= keys' /\ keys' <= MaxKeys
      /\ session' \in {None, meta}
  <2>1. /\ keys \in 0..MaxKeys /\ MaxKeys \in Nat /\ session \in {None, meta}
        /\ known \subseteq Ids
    BY LinksAssumption DEF IInv, VaultSound, IndexSound
  <2>2. CASE Passphrase
    <3>1. /\ keys < MaxKeys /\ keys' = keys + 1 /\ job = Idle
          /\ job' = [what |-> "rotate", todo |-> IF meta = None THEN {} ELSE known, at |-> None]
          /\ UNCHANGED <<store, known, lost, session, checker, torn, left>>
      BY <2>2 DEF Passphrase, Edits
    <3>2. /\ job'.todo = (IF meta = None THEN {} ELSE known) /\ job' \in Jobs
          /\ job'.what = "rotate" /\ job'.at = None
      BY <2>1, <3>1 DEF Jobs
    <3> QED
      BY <2>1, <3>1, <3>2 DEF None
  <2>3. CASE Reset
    <3>1. PICK todo \in {known, {}} : job' = [what |-> "reset", todo |-> todo, at |-> None]
      BY <2>3 DEF Reset
    <3>2. /\ job' \in Jobs /\ job'.what = "reset" /\ job'.at = None
          /\ job'.todo \subseteq known
      BY <2>1, <3>1 DEF Jobs
    <3>3. /\ job = Idle /\ keys' = keys
          /\ UNCHANGED <<store, known, lost, session, checker, torn, left>>
      BY <2>3 DEF Reset, Edits
    <3> QED
      BY <2>1, <3>2, <3>3
  <2>4. CASE Unlock \/ Relock
    BY <2>1, <2>4 DEF Unlock, Relock, Idle, Jobs, bounds
  <2> QED
    BY <2>2, <2>3, <2>4 DEF VaultRequests
<1>2. /\ UNCHANGED <<list, saved, notes, secrets, meta, chk, recs, online>>
      /\ Held' = Held /\ Listed' = Listed /\ Forgetting' = {} /\ Forgetting = {}
      /\ job.what = "idle" /\ known \subseteq Held /\ Held \ lost \subseteq known
  <2>1. job.what = "idle"
    BY <1>1 DEF Idle
  <2> QED
    BY <1>1, <2>1 DEF IInv, IndexSound, store, checker, Held, Listed, Forgetting, Forgets
<1>3. ListsSound'
  BY <1>2 DEF IInv, ListsSound
<1>4. JobSound'
  BY <1>1, <1>2 DEF JobSound, Forgets
<1>5. CheckSound'
  BY <1>2 DEF IInv, CheckSound
<1>6. LeftSound'
  BY <1>1, <1>2 DEF IInv, LeftSound
<1>7. VaultSound'
  <2>1. /\ secrets \in [Ids -> 0..keys] /\ meta \in 0..keys /\ torn \in BOOLEAN
        /\ ~torn => \A id \in Held \ lost : secrets[id] = meta
    BY <1>2 DEF IInv, VaultSound
  <2>2. secrets' \in [Ids -> 0..keys'] /\ meta' \in 0..keys' /\ keys' \in 0..MaxKeys
    <3>1. \A id \in Ids : secrets[id] \in 0..keys'
      BY <1>1, <2>1
    <3> QED
      BY <1>1, <1>2, <2>1, <3>1
  <2>3. ~torn' => \A id \in Held' \ lost' :
          secrets'[id] = IF job'.what = "rotate" /\ id \notin job'.todo THEN keys' ELSE meta'
    <3>1. \A id \in Held : secrets[id] # None
      BY DEF Held
    <3>2. \A id \in Held \ lost : ~torn => meta # None /\ id \in known
      BY <1>2, <2>1, <3>1
    <3> QED
      BY <1>1, <1>2, <2>1, <3>2
  <2> QED
    BY <1>1, <1>2, <2>1, <2>2, <2>3 DEF VaultSound
<1>8. IndexSound'
  BY <1>1, <1>2 DEF IInv, IndexSound
<1> QED
  BY <1>3, <1>4, <1>5, <1>6, <1>7, <1>8 DEF IInv

(* A change of passphrase goes on, ends or is given up.                     *)
LEMMA RotationKeeps ==
    ASSUME IInv, (\E id \in Ids : Rewrite(id)) \/ Rotated \/ RotateFails
    PROVE  IInv'
<1>1. /\ job.what = "rotate" /\ job \in Jobs /\ job.todo \subseteq Held /\ keys # None
      /\ keys \in 0..MaxKeys /\ MaxKeys \in Nat /\ secrets \in [Ids -> 0..keys]
      /\ meta \in 0..keys /\ session \in {None, meta} /\ torn \in BOOLEAN
      /\ ~torn => \A id \in Held \ lost :
           secrets[id] = IF id \notin job.todo THEN keys ELSE meta
      /\ Held \subseteq Ids /\ job.at = None
  <2>1. job.what = "rotate"
    BY DEF Rewrite, Rotated, RotateFails
  <2> QED
    BY <2>1, LinksAssumption DEF IInv, VaultSound, JobSound, Held
<1>2. /\ UNCHANGED <<list, saved, notes, chk, recs, online, keys, left, known, lost>>
      /\ job' \in Jobs /\ job'.what \in {"idle", "rotate"} /\ job'.at = None
      /\ job'.what = "idle" => job' = Idle
      /\ job'.what = "rotate" => job'.todo \subseteq job.todo
      /\ \A id \in Ids : secrets'[id] = secrets[id] \/ (id \in job.todo /\ secrets'[id] = keys)
      /\ secrets' \in [Ids -> 0..keys] /\ meta' \in 0..keys /\ session' \in {None, meta'}
  <2>1. CASE \E id \in Ids : Rewrite(id)
    <3>1. PICK id \in Ids : Rewrite(id)
      BY <2>1
    <3>2. /\ id \in job.todo /\ secrets' = [secrets EXCEPT ![id] = keys]
          /\ job' = [job EXCEPT !.todo = @ \ {id}]
          /\ UNCHANGED <<list, saved, notes, meta, session, checker, bounds>>
      BY <3>1 DEF Rewrite
    <3>3. /\ job' \in Jobs /\ job'.what = "rotate" /\ job'.todo = job.todo \ {id}
          /\ job'.at = None
      BY <1>1, <3>2 DEF Jobs
    <3>4. secrets' \in [Ids -> 0..keys] /\ known' = known
      BY <1>1, <3>1, <3>2 DEF Rewrite
    <3> QED
      BY <1>1, <3>2, <3>3, <3>4 DEF checker, bounds
  <2>2. CASE Rotated
    BY <1>1, <2>2 DEF Rotated, checker, bounds, Idle, Jobs
  <2>3. CASE RotateFails
    BY <1>1, <2>3 DEF RotateFails, checker, store, Fault, Idle, Jobs
  <2> QED
    BY <2>1, <2>2, <2>3
<1>3. Held' = Held /\ Listed' = Listed /\ Forgetting' = {} /\ Forgetting = {}
  BY <1>1, <1>2 DEF Held, Listed, Forgetting, Forgets, Idle, None
<1>4. ListsSound'
  BY <1>2 DEF IInv, ListsSound
<1>5. JobSound'
  BY <1>1, <1>2, <1>3 DEF JobSound, Forgets
<1>6. CheckSound'
  BY <1>2 DEF IInv, CheckSound
<1>7. LeftSound'
  BY <1>2, <1>3 DEF IInv, LeftSound
<1>9. IndexSound'
  BY <1>1, <1>2, <1>3 DEF IInv, IndexSound
<1>8. VaultSound'
  <2>1. CASE \E id \in Ids : Rewrite(id)
    <3>1. PICK k \in Ids : Rewrite(k)
      BY <2>1
    <3>2. /\ torn' = torn /\ meta' = meta /\ job' = [job EXCEPT !.todo = @ \ {k}]
          /\ secrets' = [secrets EXCEPT ![k] = keys]
      BY <3>1 DEF Rewrite, bounds
    <3>3. job'.what = "rotate" /\ job'.todo = job.todo \ {k}
      BY <1>1, <3>2 DEF Jobs
    <3>4. ~torn => \A id \in Held \ lost :
            secrets'[id] = IF id \notin job'.todo THEN keys ELSE meta
      BY <1>1, <3>2, <3>3
    <3> QED
      BY <1>1, <1>2, <1>3, <3>2, <3>3, <3>4 DEF VaultSound
  <2>2. CASE Rotated
    <3>1. /\ torn' = torn /\ meta' = keys /\ secrets' = secrets /\ job'.what = "idle"
          /\ job.todo = {}
      BY <2>2 DEF Rotated, bounds, Idle
    <3> QED
      BY <1>1, <1>2, <1>3, <3>1 DEF VaultSound
  <2>3. CASE RotateFails
    <3>1. /\ torn' = (torn \/ \E id \in Ids : secrets[id] = keys) /\ job'.what = "idle"
          /\ meta' = meta /\ secrets' = secrets
      BY <2>3 DEF RotateFails, store, Idle
    <3>2. torn' \in BOOLEAN /\ (~torn' => ~torn /\ \A id \in Ids : secrets[id] # keys)
      BY <1>1, <3>1
    <3>3. ~torn' => \A id \in Held \ lost : secrets[id] = meta
      BY <1>1, <3>2
    <3> QED
      BY <1>1, <1>2, <1>3, <3>1, <3>2, <3>3 DEF VaultSound
  <2> QED
    BY <2>1, <2>2, <2>3
<1> QED
  BY <1>4, <1>5, <1>6, <1>7, <1>8, <1>9 DEF IInv

(* A reset erases the logins it can, then the key; those it could not are   *)
(* told apart from then on.                                                 *)
LEMMA ResetKeeps ==
    ASSUME IInv, (\E id \in Ids : ResetErase(id)) \/ ResetDone
    PROVE  IInv'
<1>1. /\ job.what = "reset" /\ job \in Jobs /\ job.todo \subseteq Held /\ job.at = None
      /\ keys \in 0..MaxKeys /\ secrets \in [Ids -> 0..keys]
      /\ meta \in 0..keys /\ session \in {None, meta} /\ torn \in BOOLEAN
      /\ ~torn => \A id \in Held \ lost : secrets[id] = meta
      /\ Held \subseteq Ids
  <2>1. job.what = "reset"
    BY DEF ResetErase, ResetDone
  <2> QED
    BY <2>1 DEF IInv, VaultSound, JobSound, Held
<1>2. /\ UNCHANGED <<list, saved, notes, chk, recs, online, keys, left, torn>>
      /\ job' \in Jobs /\ job'.what \in {"idle", "reset"} /\ job'.at = None
      /\ job'.what = "idle" => job' = Idle
      /\ job'.todo \subseteq Held'
      /\ Held' \subseteq Held /\ \A id \in Held' : secrets'[id] = secrets[id]
      /\ Held' \ lost' # {} => meta' = meta /\ lost' = lost
      /\ secrets' \in [Ids -> 0..keys] /\ meta' \in 0..keys /\ session' \in {None, meta'}
      /\ known' \in {known, {}} /\ lost' \subseteq Ids
      /\ Held' \ lost' \subseteq known' /\ (job'.what = "idle" => known' = {})
  <2>0. lost \subseteq Ids /\ Held \ lost \subseteq known
    BY DEF IInv, IndexSound
  <2>1. CASE \E id \in Ids : ResetErase(id)
    <3>1. PICK id \in Ids : ResetErase(id)
      BY <2>1
    <3>2. /\ id \in job.todo
          /\ secrets' = [secrets EXCEPT ![id] = None] \/ secrets' = secrets
          /\ job' = [job EXCEPT !.todo = @ \ {id}]
          /\ UNCHANGED <<list, saved, notes, known, meta, session, checker, keys, torn, lost, left>>
      BY <3>1 DEF ResetErase
    <3>3. /\ job' \in Jobs /\ job'.what = "reset" /\ job'.todo = job.todo \ {id}
          /\ job'.at = None
      BY <1>1, <3>2 DEF Jobs
    <3>4. secrets' \in [Ids -> 0..keys]
      BY <1>1, <3>2 DEF None
    <3>5. Held' \in {Held \ {id}, Held} /\ \A k \in Held' : secrets'[k] = secrets[k]
      BY <1>1, <3>2 DEF Held
    <3> QED
      BY <1>1, <2>0, <3>2, <3>3, <3>4, <3>5 DEF checker
  <2>2. CASE ResetDone
    <3>1. /\ job.todo = {} /\ secrets' = secrets /\ Held' = Held /\ lost' = Held /\ known' = {}
          /\ job' = Idle /\ session' = None /\ meta' \in {None, meta}
          /\ UNCHANGED <<list, saved, notes, chk, recs, online, keys, left, torn>>
      BY <2>2 DEF ResetDone, Held, checker
    <3>2. job' \in Jobs /\ job'.what = "idle" /\ job'.todo = {} /\ job'.at = None
      BY <3>1 DEF Idle, Jobs
    <3> QED
      BY <1>1, <3>1, <3>2 DEF None
  <2> QED
    BY <2>1, <2>2
<1>3. Listed' = Listed /\ Forgetting' = {} /\ Forgetting = {}
  BY <1>1, <1>2 DEF Listed, Forgetting, Forgets, Idle
<1>4. ListsSound'
  BY <1>2 DEF IInv, ListsSound
<1>5. JobSound'
  BY <1>1, <1>2 DEF JobSound, Forgets
<1>6. CheckSound'
  BY <1>2 DEF IInv, CheckSound
<1>7. LeftSound'
  BY <1>1, <1>2, <1>3 DEF IInv, LeftSound
<1>8. VaultSound'
  BY <1>1, <1>2 DEF VaultSound
<1>9. IndexSound'
  BY <1>1, <1>2 DEF IInv, IndexSound
<1> QED
  BY <1>4, <1>5, <1>6, <1>7, <1>8, <1>9 DEF IInv

(* A note or a login of a removed link goes, or stays and the link is one   *)
(* that left something.                                                     *)
LEMMA ErasingKeeps ==
    ASSUME IInv, NEW id \in Ids, ForgetNote(id) \/ ForgetSecret(id)
    PROVE  IInv'
<1>1. /\ Forgets /\ job \in Jobs /\ id \in job.todo /\ job.what \in {"note", "login"}
      /\ job.todo \subseteq 1..list.nextId - 1 /\ job.todo \subseteq Ids
      /\ Forgetting = job.todo
      /\ UNCHANGED <<list, saved, meta, session, chk, recs, online, keys, torn>>
  <2>1. job.what \in {"note", "login"} /\ (job.what = "login" => id = job.at)
        /\ (job.what = "note" => id \in job.todo)
    BY DEF ForgetNote, ForgetSecret
  <2>2. Forgets
    BY <2>1 DEF Forgets
  <2>3. job \in Jobs /\ (job.what = "login" => id \in job.todo)
    BY <2>1 DEF IInv, JobSound, None, Ids
  <2> QED
    BY <2>1, <2>2, <2>3 DEF IInv, JobSound, Jobs, Forgetting, ForgetNote, ForgetSecret, checker
<1>2. /\ secrets \in [Ids -> 0..keys] /\ keys \in 0..MaxKeys
      /\ Held \subseteq Ids /\ notes \subseteq Ids /\ left \subseteq Ids
      /\ known \subseteq Held /\ Held \ lost \subseteq known /\ lost \subseteq Ids
      /\ job.what = "login" => id \notin notes \ left
  <2>1. job.what # "reset" /\ (job.what = "login" => id = job.at)
    BY <1>1 DEF ForgetNote, ForgetSecret
  <2> QED
    BY <2>1 DEF IInv, VaultSound, IndexSound, LeftSound, Held
<1>3. /\ secrets' \in [Ids -> 0..keys] /\ notes' \in {notes, notes \ {id}}
      /\ Held' \in {Held, Held \ {id}} /\ left' \in {left, left \cup {id}}
      /\ \A k \in Held' : secrets'[k] = secrets[k]
      /\ known' \subseteq Held' /\ Held' \ lost' \subseteq known' /\ lost' \subseteq Ids
      /\ Held' \ lost' \subseteq Held \ lost
      /\ job.what = "note" => id \notin notes' \ left' /\ job'.what = "login"
      /\ job.what = "login" =>
           id \notin notes' \ left' /\ id \notin Held' \ left' /\ job'.what = "result"
      /\ job' \in Jobs /\ job'.todo = job.todo /\ job'.at = id
  <2>1. CASE ForgetNote(id)
    <3>1. /\ job.what = "note" /\ secrets' = secrets /\ known' = known /\ lost' = lost
          /\ \/ notes' = notes \ {id} /\ left' = left
             \/ notes' = notes /\ left' = left \cup {id}
          /\ job' = [job EXCEPT !.what = "login", !.at = id]
      BY <2>1 DEF ForgetNote
    <3>2. job' \in Jobs /\ job'.what = "login" /\ job'.todo = job.todo /\ job'.at = id
      BY <1>1, <3>1 DEF Jobs
    <3>3. Held' = Held
      BY <3>1 DEF Held
    <3> QED
      BY <1>2, <3>1, <3>2, <3>3
  <2>2. CASE ForgetSecret(id)
    <3>1. /\ job.what = "login" /\ notes' = notes /\ job.at = id
          /\ \/ /\ secrets' = [secrets EXCEPT ![id] = None] /\ left' = left
                /\ known' = known \ {id} /\ lost' = lost \ {id}
             \/ /\ secrets' = secrets /\ left' = left \cup {id}
                /\ known' = known /\ lost' = lost
          /\ job' = [job EXCEPT !.what = "result"]
      BY <2>2 DEF ForgetSecret
    <3>2. job' \in Jobs /\ job'.what = "result" /\ job'.todo = job.todo /\ job'.at = id
      BY <1>1, <3>1 DEF Jobs
    <3>3. CASE secrets' = secrets /\ left' = left \cup {id} /\ known' = known /\ lost' = lost
      <4>1. Held' = Held
        BY <3>3 DEF Held
      <4> QED
        BY <1>2, <3>1, <3>2, <3>3, <4>1
    <3>4. CASE /\ secrets' = [secrets EXCEPT ![id] = None] /\ left' = left
               /\ known' = known \ {id} /\ lost' = lost \ {id}
      <4>1. Held' = Held \ {id} /\ \A k \in Held' : secrets'[k] = secrets[k]
        BY <1>2, <3>4 DEF Held
      <4>2. secrets' \in [Ids -> 0..keys]
        BY <1>2, <3>4 DEF None
      <4> QED
        BY <1>2, <3>1, <3>2, <3>4, <4>1, <4>2
    <3> QED
      BY <3>1, <3>3, <3>4
  <2> QED
    BY <2>1, <2>2
<1>4. Listed' = Listed /\ Forgets' /\ Forgetting' = Forgetting
  BY <1>1, <1>3 DEF Listed, Forgetting, Forgets
<1>5. ListsSound'
  BY <1>1 DEF IInv, ListsSound
<1>6. JobSound'
  BY <1>1, <1>3, <1>4 DEF JobSound
<1>7. CheckSound'
  BY <1>1 DEF IInv, CheckSound
<1>8. LeftSound'
  <2>1. ASSUME left' # Ids
        PROVE  /\ saved' = list' /\ left' \subseteq 1..list'.nextId - 1
               /\ notes' \cup Held' \subseteq Listed' \cup left' \cup Forgetting'
    <3>1. CASE left # Ids
      <4>1. /\ saved = list /\ left \subseteq 1..list.nextId - 1
            /\ notes \cup Held \subseteq Listed \cup left \cup Forgetting
        BY <3>1 DEF IInv, LeftSound
      <4> QED
        BY <1>1, <1>3, <1>4, <4>1
    <3>2. CASE left = Ids
      BY <1>3, <2>1, <3>2
    <3> QED
      BY <3>1, <3>2
  <2> QED
    BY <1>1, <1>2, <1>3, <2>1 DEF LeftSound
<1>9. IndexSound'
  BY <1>2, <1>3 DEF IndexSound
<1>10. VaultSound'
  <2>1. /\ job'.what \notin {"rotate", "reset"} /\ job.what \notin {"rotate", "reset"}
        /\ meta' = meta /\ keys' = keys /\ session' = session /\ torn' = torn
    BY <1>1, <1>3
  <2>2. VaultSound
    BY DEF IInv
  <2>3. ~torn => \A k \in Held' \ lost' : secrets'[k] = meta
    BY <1>3, <2>1, <2>2 DEF VaultSound
  <2> QED
    BY <1>3, <2>1, <2>2, <2>3 DEF VaultSound
<1> QED
  BY <1>5, <1>6, <1>7, <1>8, <1>9, <1>10 DEF IInv

(* The result about a removed link goes, and its id from what is to be      *)
(* forgotten.                                                               *)
LEMMA ForgottenKeeps ==
    ASSUME IInv, NEW id \in Ids, ForgetCheck(id)
    PROVE  IInv'
<1>1. /\ Forgets /\ job.what = "result" /\ job \in Jobs /\ id = job.at /\ id \in job.todo
      /\ job.todo \subseteq 1..list.nextId - 1
      /\ Forgetting = job.todo
      /\ UNCHANGED <<list, saved, notes, secrets, known, meta, session, chk, online, keys,
                     torn, lost, left>>
      /\ recs' = [recs EXCEPT ![id] = "none"]
      /\ id \notin notes \ left /\ id \notin Held \ left
  <2>1. job.what = "result" /\ id = job.at
    BY DEF ForgetCheck
  <2>2. Forgets
    BY <2>1 DEF Forgets
  <2>3. job \in Jobs /\ id \in job.todo /\ job.todo \subseteq 1..list.nextId - 1
    BY <2>1, <2>2 DEF IInv, JobSound, None, Ids
  <2>4. id \notin notes \ left /\ id \notin Held \ left
    BY <2>1 DEF IInv, LeftSound
  <2> QED
    BY <2>1, <2>2, <2>3, <2>4 DEF Forgetting, ForgetCheck, store, bounds
<1>2. /\ job' \in Jobs /\ job'.what \in {"note", "idle"} /\ job'.at = None
      /\ job'.what = "idle" => job' = Idle
      /\ job'.todo = job.todo \ {id} /\ Forgetting' = job.todo \ {id}
      /\ Forgets' => job'.todo \subseteq job.todo
  <2>1. job' = IF job.todo \ {id} = {} THEN Idle
               ELSE [what |-> "note", todo |-> job.todo \ {id}, at |-> None]
    BY DEF ForgetCheck, Forget
  <2>2. CASE job.todo \ {id} = {}
    <3>1. job' = Idle
      BY <2>1, <2>2
    <3>2. job'.what = "idle" /\ job'.todo = {} /\ job'.at = None /\ job' \in Jobs
      BY <3>1 DEF Idle, Jobs
    <3> QED
      BY <2>2, <3>1, <3>2 DEF Forgetting, Forgets
  <2>3. CASE job.todo \ {id} # {}
    <3>1. job' = [what |-> "note", todo |-> job.todo \ {id}, at |-> None]
      BY <2>1, <2>3
    <3>2. job'.what = "note" /\ job'.todo = job.todo \ {id} /\ job'.at = None /\ job' \in Jobs
      BY <1>1, <3>1 DEF Jobs
    <3> QED
      BY <3>2 DEF Forgetting, Forgets
  <2> QED
    BY <2>2, <2>3
<1>3. Held' = Held /\ Listed' = Listed
  BY <1>1 DEF Held, Listed
<1>4. ListsSound'
  BY <1>1 DEF IInv, ListsSound
<1>5. JobSound'
  BY <1>1, <1>2 DEF JobSound
<1>6. CheckSound'
  <2>1. recs \in [Ids -> {"none", "unknown", "result"}]
    BY DEF IInv, CheckSound
  <2> DEFINE K == {k \in Ids : recs[k] # "none"}
             L == {k \in Ids : recs'[k] # "none"}
  <2>2. L \subseteq K /\ K \subseteq Ids
    BY <1>1, <2>1
  <2>3. Cardinality(L) <= MaxLinks
    <3>1. Cardinality(K) <= MaxLinks /\ MaxLinks \in Nat
      BY LinksAssumption DEF IInv, CheckSound
    <3> HIDE DEF K, L
    <3>2. /\ IsFiniteSet(K) /\ IsFiniteSet(L) /\ Cardinality(L) <= Cardinality(K)
          /\ Cardinality(K) \in Nat /\ Cardinality(L) \in Nat
      BY <2>2, IdsAreFinite, FS_Subset, FS_CardinalityType
    <3> QED
      BY <3>1, <3>2
  <2>4. /\ recs' \in [Ids -> {"none", "unknown", "result"}]
        /\ \A k \in Ids : recs'[k] # "none" => recs[k] # "none"
    BY <1>1, <2>1
  <2> QED
    BY <1>1, <2>3, <2>4 DEF IInv, CheckSound
<1>7. LeftSound'
  <2>1. ASSUME left # Ids
        PROVE  notes \cup Held \subseteq Listed \cup left \cup (job.todo \ {id})
    <3>1. notes \cup Held \subseteq Listed \cup left \cup job.todo
      BY <1>1, <2>1 DEF IInv, LeftSound
    <3> QED
      BY <1>1, <3>1
  <2> QED
    BY <1>1, <1>2, <1>3, <2>1 DEF IInv, LeftSound
<1>8. IndexSound'
  BY <1>1, <1>2, <1>3 DEF IInv, IndexSound
<1>9. VaultSound'
  BY <1>1, <1>2, <1>3 DEF IInv, VaultSound
<1> QED
  BY <1>4, <1>5, <1>6, <1>7, <1>8, <1>9 DEF IInv

(* The checker records the result of a link that was listed when it was     *)
(* looked up, and only if there is room.                                    *)
LEMMA CheckerKeeps ==
    ASSUME IInv, Checker
    PROVE  IInv'
<1>1. /\ UNCHANGED <<store, known, session, job, online, bounds>>
      /\ CheckSound /\ MaxLinks \in Nat /\ list.nextId \in 1..MaxBorn + 1 /\ MaxBorn \in Nat
      /\ Len(list.links) \in 0..MaxLinks
      /\ \A i \in 1..Len(list.links) : list.links[i].id \in 1..list.nextId - 1
  BY IdFacts, LinkFacts DEF Checker, PassStarts, Look, Check, IInv
<1>2. CheckSound'
  <2>1. CASE PassStarts
    <3>1. chk' = [pc |-> "walk", i |-> 1, n |-> Len(list.links), id |-> None] /\ recs' = recs
      BY <2>1 DEF PassStarts, Resting
    <3> QED
      BY <1>1, <3>1 DEF CheckSound, store, None
  <2>2. CASE Look
    <3>1. chk.pc = "walk" /\ recs' = recs /\ chk.i \in 1..MaxLinks + 1
      BY <1>1, <2>2 DEF Look, CheckSound
    <3>2. CASE chk.i > chk.n \/ chk.i > Len(list.links)
      <4>1. chk' = [pc |-> "rest", i |-> 1, n |-> 0, id |-> None]
        BY <2>2, <3>2 DEF Look, Resting
      <4> QED
        BY <1>1, <3>1, <4>1 DEF CheckSound, store, None
    <3>3. CASE ~(chk.i > chk.n \/ chk.i > Len(list.links))
      <4>1. /\ chk' = [chk EXCEPT !.pc = "probe", !.id = list.links[chk.i].id]
            /\ chk.i \in 1..Len(list.links)
        BY <1>1, <2>2, <3>1, <3>3 DEF Look
      <4>2. chk' = [pc |-> "probe", i |-> chk.i, n |-> chk.n, id |-> list.links[chk.i].id]
        BY <1>1, <4>1 DEF CheckSound
      <4>3. /\ list' = list /\ online' = online /\ recs' = recs
            /\ recs \in [Ids -> {"none", "unknown", "result"}] /\ online \in BOOLEAN
            /\ Cardinality({k \in Ids : recs[k] # "none"}) <= MaxLinks
            /\ \A k \in Ids : recs[k] # "none" => k < list.nextId
        BY <1>1, <3>1 DEF CheckSound, store
      <4>4. chk.n \in Nat /\ list.links[chk.i].id \in 1..list.nextId - 1 /\ chk.i <= MaxLinks
        BY <1>1, <4>1 DEF CheckSound
      <4>5. /\ chk'.i = chk.i /\ chk'.id = list.links[chk.i].id
            /\ chk' \in [pc : {"rest", "walk", "probe"}, i : 1..MaxLinks + 1, n : Nat, id : Nat]
        BY <1>1, <3>1, <4>2, <4>4
      <4> QED
        BY <4>3, <4>4, <4>5 DEF CheckSound
    <3> QED
      BY <3>2, <3>3
  <2>3. CASE Check
    <3>1. /\ chk.pc = "probe" /\ chk.i <= MaxLinks /\ chk.id \in 1..list.nextId - 1
          /\ chk.i \in 1..MaxLinks + 1 /\ chk.n \in Nat
          /\ chk' = [pc |-> "walk", i |-> chk.i + 1, n |-> chk.n, id |-> None]
          /\ recs \in [Ids -> {"none", "unknown", "result"}] /\ online \in BOOLEAN
      BY <1>1, <2>3 DEF Check, CheckSound
    <3>2. chk.id \in Ids /\ chk.id < list.nextId
      BY <1>1, <3>1 DEF Ids
    <3>3. CASE recs' = recs
      <4>1. /\ chk'.pc = "walk" /\ online' = online /\ list' = list
            /\ chk' \in [pc : {"rest", "walk", "probe"}, i : 1..MaxLinks + 1, n : Nat, id : Nat]
        BY <1>1, <3>1 DEF store, None
      <4>2. /\ recs \in [Ids -> {"none", "unknown", "result"}] /\ online \in BOOLEAN
            /\ Cardinality({k \in Ids : recs[k] # "none"}) <= MaxLinks
            /\ \A k \in Ids : recs[k] # "none" => k < list.nextId
        BY <1>1 DEF CheckSound
      <4> QED
        BY <3>3, <4>1, <4>2 DEF CheckSound
    <3>4. CASE recs' # recs
      <4> DEFINE K == {k \in Ids : recs[k] # "none"}
                 L == {k \in Ids : recs'[k] # "none"}
      <4>1. PICK v \in {"unknown", "result"} : recs' = [recs EXCEPT ![chk.id] = v]
        BY <2>3, <3>4 DEF Check, Recorded
      <4>2. recs[chk.id] # "none" \/ Cardinality(K) < MaxLinks
        <5>1. ~(recs[chk.id] = "none" /\ Cardinality(K) >= MaxLinks)
          BY <2>3, <3>4 DEF Check, Recorded
        <5>2. Cardinality(K) \in Nat
          <6>1. K \subseteq Ids
            OBVIOUS
          <6> HIDE DEF K
          <6> QED
            BY <6>1, IdsAreFinite, FS_Subset, FS_CardinalityType
        <5> HIDE DEF K
        <5> QED
          BY <1>1, <5>1, <5>2
      <4>3. L = K \cup {chk.id} /\ K \subseteq Ids
        BY <3>1, <3>2, <4>1
      <4>4. recs[chk.id] # "none" <=> chk.id \in K
        BY <3>2
      <4>5. Cardinality(K) <= MaxLinks
        BY <1>1 DEF CheckSound
      <4>6. /\ recs' \in [Ids -> {"none", "unknown", "result"}]
            /\ \A k \in Ids : recs'[k] # "none" => recs[k] # "none" \/ k = chk.id
        BY <3>1, <4>1
      <4>7. Cardinality(L) <= MaxLinks
        <5> HIDE DEF K, L
        <5>1. IsFiniteSet(K) /\ Cardinality(K) \in Nat
          BY <4>3, IdsAreFinite, FS_Subset, FS_CardinalityType
        <5>2. Cardinality(L) = IF chk.id \in K THEN Cardinality(K) ELSE Cardinality(K) + 1
          BY <4>3, <5>1, FS_AddElement
        <5> QED
          BY <1>1, <4>2, <4>4, <4>5, <5>1, <5>2
      <4>8. /\ chk'.pc = "walk" /\ online' = online /\ list' = list
            /\ chk' \in [pc : {"rest", "walk", "probe"}, i : 1..MaxLinks + 1, n : Nat, id : Nat]
        BY <1>1, <3>1 DEF store, None
      <4>9. \A k \in Ids : recs'[k] # "none" => k < list.nextId
        BY <1>1, <3>2, <4>6 DEF CheckSound
      <4> QED
        BY <3>1, <4>6, <4>7, <4>8, <4>9 DEF CheckSound
    <3> QED
      BY <3>3, <3>4
  <2> QED
    BY <2>1, <2>2, <2>3 DEF Checker
<1>3. ListsSound'
  BY <1>1 DEF IInv, ListsSound, store
<1>4. JobSound'
  BY <1>1 DEF IInv, JobSound, store, Held, Forgets
<1>5. LeftSound'
  BY <1>1 DEF IInv, LeftSound, store, bounds, Held, Listed, Forgetting, Forgets
<1>6. VaultSound'
  BY <1>1 DEF IInv, VaultSound, store, bounds, Held
<1>7. IndexSound'
  BY <1>1 DEF IInv, IndexSound, store, bounds, Held
<1> QED
  BY <1>2, <1>3, <1>4, <1>5, <1>6, <1>7 DEF IInv

(* The device answers or not: nothing else changes.                         *)
LEMMA AnswersKeep ==
    ASSUME IInv, Answers
    PROVE  IInv'
<1>1. /\ online' \in BOOLEAN
      /\ UNCHANGED <<list, saved, notes, secrets, known, meta, session, job, chk, recs, keys,
                     torn, lost, left>>
  BY DEF IInv, CheckSound, Answers, store, bounds
<1> QED
  BY <1>1 DEF IInv, ListsSound, JobSound, CheckSound, LeftSound, IndexSound, VaultSound,
              Held, Listed, Forgetting, Forgets

(* The power goes: the list is read back, or taken for empty, and the       *)
(* checker starts afresh; a removal cut short leaves something behind.      *)
LEMMA RestartKeeps ==
    ASSUME IInv, Restart
    PROVE  IInv'
<1>1. /\ \/ list' = saved /\ left' = left \cup Forgetting
         \/ list' = Empty /\ left' = Ids
      /\ session' = None /\ job' = Idle
      /\ chk' = Resting /\ recs' = [id \in Ids |-> "none"]
      /\ torn' = (torn \/ (job.what = "rotate" /\ \E id \in Ids : secrets[id] = keys))
      /\ known' = Held
      /\ UNCHANGED <<saved, notes, secrets, meta, online, keys, edits, lost>>
  BY DEF Restart, Forgetting
<1>2. MaxLinks \in Nat /\ SoundList(saved) /\ SoundList(Empty) /\ online \in BOOLEAN
  BY LinksAssumption, EmptyIsSound DEF IInv, ListsSound, CheckSound
<1>3. ListsSound'
  BY <1>1, <1>2 DEF ListsSound
<1>4. JobSound'
  BY <1>1 DEF JobSound, Jobs, Idle, Forgets
<1>5. CheckSound'
  <2>1. {id \in Ids : recs'[id] # "none"} = {} /\ recs' \in [Ids -> {"none", "unknown", "result"}]
        /\ \A id \in Ids : recs'[id] = "none"
    BY <1>1
  <2>2. Cardinality({id \in Ids : recs'[id] # "none"}) <= MaxLinks
    BY <1>2, <2>1, FS_EmptySet
  <2>3. /\ chk'.pc = "rest"
        /\ chk' \in [pc : {"rest", "walk", "probe"}, i : 1..MaxLinks + 1, n : Nat, id : Nat]
    BY <1>1, <1>2 DEF Resting, None
  <2> QED
    BY <1>1, <1>2, <2>1, <2>2, <2>3 DEF CheckSound
<1>6. LeftSound'
  <2>1. left \subseteq Ids /\ job \in Jobs /\ notes \subseteq Ids
    BY DEF IInv, LeftSound, JobSound
  <2>2. left \subseteq left' /\ left' \subseteq Ids
    BY <1>1, <2>1 DEF Jobs, Forgetting
  <2>3. ASSUME left' # Ids
        PROVE  /\ saved' = list' /\ left' \subseteq 1..list'.nextId - 1
               /\ notes' \cup Held' \subseteq Listed' \cup left' \cup Forgetting'
    <3>1. left # Ids
      BY <2>1, <2>2, <2>3
    <3>2. /\ saved = list /\ left \subseteq 1..list.nextId - 1
          /\ notes \cup Held \subseteq Listed \cup left \cup Forgetting
      BY <3>1 DEF IInv, LeftSound
    <3>3. /\ list' = list /\ Listed' = Listed /\ Held' = Held
          /\ left' = left \cup Forgetting
      BY <1>1, <2>3, <3>2 DEF Listed, Held
    <3>4. Forgetting \subseteq 1..list.nextId - 1
      BY DEF IInv, JobSound, Forgetting
    <3> QED
      BY <1>1, <3>2, <3>3, <3>4
  <2> QED
    BY <1>1, <2>1, <2>2, <2>3 DEF LeftSound, Idle
<1>8. IndexSound'
  <2>1. Held' = Held /\ Held \subseteq Ids /\ job'.what = "idle"
    BY <1>1 DEF Held, Idle
  <2> QED
    BY <1>1, <2>1 DEF IInv, IndexSound
<1>7. VaultSound'
  <2>1. /\ keys \in 0..MaxKeys /\ secrets \in [Ids -> 0..keys] /\ meta \in 0..keys
        /\ torn \in BOOLEAN /\ Held' = Held /\ job'.what = "idle"
    BY <1>1 DEF IInv, VaultSound, Held, Idle
  <2>2. torn' \in BOOLEAN
        /\ (~torn' => ~torn /\ (job.what = "rotate" => \A id \in Ids : secrets[id] # keys))
    BY <1>1, <2>1
  <2>3. ASSUME ~torn'
        PROVE  \A id \in Held \ lost : secrets[id] = meta
    <3>1. \A id \in Held \ lost :
            secrets[id] = IF job.what = "rotate" /\ id \notin job.todo THEN keys ELSE meta
      BY <2>2, <2>3 DEF IInv, VaultSound
    <3>2. Held \subseteq Ids
      BY DEF Held
    <3> QED
      BY <2>2, <2>3, <3>1, <3>2
  <2> QED
    BY <1>1, <2>1, <2>2, <2>3 DEF VaultSound
<1> QED
  BY <1>3, <1>4, <1>5, <1>6, <1>7, <1>8 DEF IInv

LEMMA InitSound == Init => IInv
<1> SUFFICES ASSUME Init
             PROVE  IInv
  OBVIOUS
<1>1. /\ MaxBorn \in Nat /\ MaxLinks \in Nat /\ MaxGroups \in Nat /\ MaxKeys \in Nat
      /\ LastGroup \in Nat \ {0} /\ Ids = 1..MaxBorn
  BY LinksAssumption DEF Ids
<1>2. SoundList(Empty)
  BY EmptyIsSound
<1>3. ListsSound
  BY <1>2 DEF Init, ListsSound
<1>4. JobSound
  BY DEF Init, JobSound, Jobs, Idle, Forgets
<1>5. Held = {} /\ Listed = {}
  BY DEF Init, Held, Listed, Empty
<1>6. CheckSound
  <2>1. {id \in Ids : recs[id] # "none"} = {} /\ recs \in [Ids -> {"none", "unknown", "result"}]
        /\ \A id \in Ids : recs[id] = "none"
    BY DEF Init
  <2>2. Cardinality({id \in Ids : recs[id] # "none"}) <= MaxLinks
    BY <1>1, <2>1, FS_EmptySet
  <2> QED
    BY <1>1, <2>1, <2>2 DEF Init, CheckSound, Resting, None
<1>7. LeftSound
  BY <1>5 DEF Init, LeftSound, Idle
<1>9. IndexSound
  BY <1>5 DEF Init, IndexSound
<1>8. VaultSound
  <2>1. keys = 0 /\ meta = 0 /\ session = 0 /\ torn = FALSE /\ job.what = "idle"
    BY DEF Init, Idle, None
  <2>2. secrets = [id \in Ids |-> 0]
    BY DEF Init, None
  <2>3. secrets \in [Ids -> 0..keys]
    BY <2>1, <2>2
  <2>4. keys \in 0..MaxKeys /\ meta \in 0..keys /\ session \in {None, meta} /\ torn \in BOOLEAN
    <3>1. session \in {None, meta} /\ torn \in BOOLEAN
      BY DEF Init
    <3> QED
      BY <1>1, <2>1, <3>1
  <2>5. job.what # "rotate" /\ \A id \in Held : FALSE
    BY <1>5, <2>1
  <2> QED
    BY <2>3, <2>4, <2>5 DEF VaultSound
<1> QED
  BY <1>3, <1>4, <1>6, <1>7, <1>8, <1>9 DEF IInv

LEMMA NextKeeps == IInv /\ [Next]_vars => IInv'
<1> SUFFICES ASSUME IInv, [Next]_vars
             PROVE  IInv'
  OBVIOUS
<1>1. CASE ListRequests
  BY <1>1, AddKeeps, ReorderKeeps, RemoveKeeps DEF ListRequests
<1>2. CASE PatchLink
  <2>1. PICK id \in Ids : \/ \E has \in BOOLEAN : SetNote(id, has)
                          \/ \E g \in 0..LastGroup : File(id, g)
    BY <1>2 DEF PatchLink
  <2> QED
    BY <2>1, NotesKeep, FileKeeps
<1>3. CASE GroupRequests
  BY <1>3, GroupsKeep
<1>4. CASE VaultRequests
  BY <1>4, VaultKeeps
<1>5. CASE PutSecret
  BY <1>5, NotesKeep DEF PutSecret
<1>6. CASE Continues
  <2>1. CASE Rotated \/ \E id \in Ids : Rewrite(id)
    BY <2>1, RotationKeeps
  <2>2. CASE ResetDone \/ \E id \in Ids : ResetErase(id)
    BY <2>2, ResetKeeps
  <2>3. CASE \E id \in Ids : ForgetNote(id) \/ ForgetSecret(id) \/ ForgetCheck(id)
    BY <2>3, ErasingKeeps, ForgottenKeeps
  <2> QED
    BY <1>6, <2>1, <2>2, <2>3 DEF Continues
<1>7. CASE RotateFails
  BY <1>7, RotationKeeps
<1>8. CASE Checker
  BY <1>8, CheckerKeeps
<1>9. CASE Answers
  BY <1>9, AnswersKeep
<1>10. CASE Restart
  BY <1>10, RestartKeeps
<1>11. CASE UNCHANGED vars
  <2>1. UNCHANGED <<list, saved, notes, secrets, known, meta, session, job, chk, recs, online,
                    keys, edits, faults, torn, lost, left>>
    BY <1>11 DEF vars, store, checker, bounds
  <2> QED
    BY <2>1 DEF IInv, ListsSound, JobSound, CheckSound, LeftSound, IndexSound, VaultSound,
                Held, Listed, Forgetting, Forgets
<1> QED
  BY <1>1, <1>2, <1>3, <1>4, <1>5, <1>6, <1>7, <1>8, <1>9, <1>10, <1>11 DEF Next, Requests

LEMMA AlwaysSound == Spec => []IInv
BY InitSound, NextKeeps, PTL DEF Spec

-----------------------------------------------------------------------------
(* What the program promises.                                               *)

LEMMA SoundIsTyped == IInv => LinksTypeOK
<1> SUFFICES ASSUME IInv
             PROVE  LinksTypeOK
  OBVIOUS
<1>1. ASSUME NEW l \in {list, saved}
      PROVE  /\ Len(l.links) <= MaxLinks /\ Len(l.groups) <= MaxGroups
             /\ IsInjective([i \in DOMAIN l.links |-> l.links[i].id])
             /\ \A i \in DOMAIN l.links : /\ l.links[i].id \in 1..l.nextId - 1
                                          /\ l.links[i].group \in {None} \cup ToSet(l.groups)
             /\ l.nextId \in 1..MaxBorn + 1 /\ l.nextGroup \in 1..LastGroup
  <2>1. SoundList(l) /\ l \in Lists
    BY DEF IInv, ListsSound, SoundList
  <2>2. IsInjective([i \in DOMAIN l.links |-> l.links[i].id])
    <3> DEFINE f == [i \in DOMAIN l.links |-> l.links[i].id]
    <3>1. \A i, k \in DOMAIN f : i # k => f[i] # f[k]
      BY <2>1 DEF SoundList
    <3> HIDE DEF f
    <3>2. IsInjective(f)
      BY <3>1 DEF IsInjective
    <3> QED
      BY <3>2 DEF f
  <2>3. l.nextId \in 1..MaxBorn + 1 /\ l.nextGroup \in 1..LastGroup
    BY <2>1 DEF Lists
  <2> QED
    BY <2>1, <2>2, <2>3 DEF SoundList
<1>2. notes \subseteq Ids /\ secrets \in [Ids -> 0..MaxKeys]
  <2>1. keys \in 0..MaxKeys /\ MaxKeys \in Nat /\ secrets \in [Ids -> 0..keys]
    BY LinksAssumption DEF IInv, VaultSound
  <2>2. \A id \in Ids : secrets[id] \in 0..MaxKeys
    BY <2>1
  <2> QED
    BY <2>1, <2>2 DEF IInv, LeftSound
<1>3. meta \in 0..keys /\ session \in {None, meta} /\ torn \in BOOLEAN /\ left \subseteq Ids
  BY DEF IInv, VaultSound, LeftSound
<1>4. /\ job.what \in {"idle", "note", "login", "result", "rotate", "reset"}
      /\ job.todo \subseteq Ids /\ job.at \in {None} \cup job.todo
      /\ known \cup lost \subseteq Ids
  BY DEF IInv, JobSound, Jobs, IndexSound
<1>5. /\ chk.pc \in {"rest", "walk", "probe"} /\ chk.i \in 1..MaxLinks + 1
      /\ recs \in [Ids -> {"none", "unknown", "result"}]
      /\ Cardinality({id \in Ids : recs[id] # "none"}) <= MaxLinks
      /\ online \in BOOLEAN
  BY DEF IInv, CheckSound
<1> QED
  BY <1>1, <1>2, <1>3, <1>4, <1>5 DEF LinksTypeOK

(* No list, in memory or in flash, is longer than its room, has two links   *)
(* of one id, or a link under a heading there is not; ids are handed out in *)
(* order; and the checker has a result for no more links than it has room   *)
(* for (links.c, linkcheck.c).                                              *)
THEOREM TypesKept == Spec => []LinksTypeOK
BY AlwaysSound, SoundIsTyped, PTL

(* What is kept about a link, its note and its login, goes with it: after   *)
(* every removal and every bulk delete (links_remove(), links_reorder()),   *)
(* unless the power goes halfway, its own erasure fails, or the list is not *)
(* saved or not read back.                                                  *)
THEOREM LinksTakeTheirs == Spec => []NothingLeftBehind
<1>1. IInv => NothingLeftBehind
  <2> SUFFICES ASSUME IInv, ~Forgets, left # Ids
               PROVE  notes \cup Held \subseteq Listed \cup left
    BY DEF NothingLeftBehind
  <2> QED
    BY DEF IInv, LeftSound, Forgetting
<1> QED
  BY <1>1, AlwaysSound, PTL

(* Every login opens under the passphrase in force, while one changes too   *)
(* (vault_set_passphrase()), whatever sessions, resets and new logins there *)
(* are, unless a change fails or loses power halfway, or a reset could not  *)
(* erase the login.                                                         *)
THEOREM LoginsOpen == Spec => []SecretsOpen
<1>1. IInv => SecretsOpen
  <2> SUFFICES ASSUME IInv, ~torn, NEW id \in Held \ lost
               PROVE  \/ secrets[id] = meta
                      \/ job.what = "rotate" /\ secrets[id] = keys /\ id \notin job.todo
    BY DEF SecretsOpen
  <2> QED
    BY DEF IInv, VaultSound
<1> QED
  BY <1>1, AlwaysSound, PTL

(* No step but Add puts an id in the list, unless the list was not saved or *)
(* not read back.                                                           *)
LEMMA OnlyAddLists ==
    ASSUME IInv, IInv', [Next]_vars, left # Ids, ~Add
    PROVE  Listed' \subseteq Listed
<1>1. CASE UNCHANGED list
  BY <1>1 DEF Listed
<1>2. CASE Restart
  <2>1. CASE list' = saved
    BY <1>2, <2>1 DEF IInv, LeftSound, Listed
  <2>2. CASE list' = Empty
    BY <2>2 DEF Empty, Listed
  <2> QED
    BY <1>2, <2>1, <2>2 DEF Restart
<1>3. CASE list' # list /\ ~Restart
  <2>1. ASSUME NEW id \in Ids, NEW g, File(id, g)
        PROVE  Listed' \subseteq Listed
    <3> DEFINE s == list.links
               ls == [i \in DOMAIN s |-> IF s[i].id = id THEN [s[i] EXCEPT !.group = g] ELSE s[i]]
    <3>1. list' = [list EXCEPT !.links = ls] /\ list \in Lists
      BY <2>1, LinkFacts DEF File, Save
    <3>2. list'.links = ls /\ DOMAIN ls = DOMAIN s
      BY <3>1 DEF Lists
    <3>3. \A i \in DOMAIN s : ls[i].id = s[i].id
      BY LinkFacts
    <3> HIDE DEF ls
    <3> QED
      BY <3>2, <3>3 DEF Listed
  <2>2. ASSUME NEW id \in Ids, RemoveLink(id)
        PROVE  Listed' \subseteq Listed
    <3> DEFINE s == list.links
    <3>1. PICK i \in 1..Len(s) : list' = [list EXCEPT !.links = RemoveAt(s, i)]
      BY <2>2, LinkFacts DEF RemoveLink, Save
    <3>2. list'.links = RemoveAt(s, i) /\ s \in Seq([id : Nat, group : Nat]) /\ Len(s) \in Nat
          /\ Listed = {s[k].id : k \in 1..Len(s)}
      <4>1. list'.links = RemoveAt(s, i)
        <5> HIDE DEF s
        <5> QED
          BY <3>1, LinkFacts DEF Lists
      <4>2. /\ s \in Seq([id : Nat, group : Nat]) /\ Len(s) \in Nat
            /\ DOMAIN list.links = 1..Len(s)
        BY LinkFacts
      <4>3. Listed = {s[k].id : k \in 1..Len(s)}
        BY <4>2 DEF Listed
      <4> QED
        BY <4>1, <4>2, <4>3
    <3> DEFINE ls == RemoveAt(s, i)
    <3>3. /\ ls \in Seq([id : Nat, group : Nat]) /\ Len(ls) = Len(s) - 1
          /\ \A k \in 1..Len(s) - 1 : ls[k] = IF k < i THEN s[k] ELSE s[k + 1]
      BY <3>2, RemovedAt
    <3>4. Listed' = {ls[k].id : k \in DOMAIN ls}
      BY <3>2 DEF Listed
    <3> HIDE DEF ls, s
    <3>5. DOMAIN ls = 1..Len(s) - 1
      BY <3>2, <3>3
    <3>6. \A k \in 1..Len(s) - 1 : k \in 1..Len(s) /\ k + 1 \in 1..Len(s)
      BY <3>2
    <3>7. \A k \in 1..Len(s) - 1 : ls[k].id \in Listed
      BY <3>2, <3>3, <3>6
    <3> QED
      BY <3>4, <3>5, <3>7
  <2>3. ASSUME NEW ids \in Orders(Listed), Reorder(ids)
        PROVE  Listed' \subseteq Listed
    <3> DEFINE s == list.links
               ls == [k \in DOMAIN ids |-> CHOOSE x \in ToSet(s) : x.id = ids[k]]
    <3>1. list' = [list EXCEPT !.links = ls] /\ list \in Lists
      BY <2>3, LinkFacts DEF Reorder, Save
    <3>2. list'.links = ls /\ DOMAIN ls = DOMAIN ids
      BY <3>1 DEF Lists
    <3>3. Listed = {x.id : x \in ToSet(s)}
      BY DEF Listed, ToSet
    <3>4. PICK T \in SUBSET Listed : ids \in SetToSeqs(T)
      BY DEF Orders, SetToAllKPermutations
    <3>5. \A k \in DOMAIN ids : ids[k] \in Listed
      BY <3>4 DEF SetToSeqs
    <3>6. \A k \in DOMAIN ids : ls[k].id = ids[k]
      BY <3>3, <3>5
    <3> HIDE DEF ls
    <3> QED
      BY <3>2, <3>5, <3>6 DEF Listed
  <2>4. ASSUME NEW g \in Headings, RemoveGroup(g)
        PROVE  Listed' \subseteq Listed
    <3> DEFINE s == list.links
               rest == RemoveFirst(list.groups, g)
               ls == [i \in DOMAIN s |-> IF s[i].group \in ToSet(rest) THEN s[i]
                                         ELSE [s[i] EXCEPT !.group = None]]
    <3>1. list' = [list EXCEPT !.groups = rest, !.links = ls] /\ list \in Lists
      BY <2>4, LinkFacts DEF RemoveGroup, Save
    <3>2. list'.links = ls /\ DOMAIN ls = DOMAIN s
      BY <3>1 DEF Lists
    <3>3. \A i \in DOMAIN s : ls[i].id = s[i].id
      BY LinkFacts
    <3> HIDE DEF ls
    <3> QED
      BY <3>2, <3>3 DEF Listed
  <2>5. ASSUME AddGroup \/ \E order \in SetToSeqs(Headings) : ReorderGroups(order)
        PROVE  Listed' \subseteq Listed
    <3>1. list'.links = list.links
      BY <2>5, LinkFacts DEF AddGroup, ReorderGroups, Save, Lists
    <3> QED
      BY <3>1 DEF Listed
  <2>6. \/ \E id \in Ids : RemoveLink(id) \/ \E g \in 0..LastGroup : File(id, g)
        \/ \E ids \in Orders(Listed) : Reorder(ids)
        \/ \E g \in Headings : RemoveGroup(g)
        \/ AddGroup \/ \E order \in SetToSeqs(Headings) : ReorderGroups(order)
    <3> USE DEF store
    <3>1. CASE Requests
      <4>1. ~VaultRequests /\ ~PutSecret
        BY <1>3 DEF VaultRequests, PutSecret, SetSecret, Passphrase, Reset, Unlock, Relock
      <4>2. \A id \in Ids, has \in BOOLEAN : ~SetNote(id, has)
        BY <1>3 DEF SetNote
      <4> QED
        BY <3>1, <4>1, <4>2 DEF Requests, ListRequests, PatchLink, GroupRequests
    <3>2. ~Continues
      BY <1>3 DEF Continues, Rotated, ResetDone, Rewrite, ResetErase, ForgetNote,
                  ForgetSecret, ForgetCheck
    <3>3. ~RotateFails /\ ~Checker /\ ~Answers
      BY <1>3 DEF RotateFails, Checker, PassStarts, Look, Check, Answers
    <3> QED
      BY <1>3, <3>1, <3>2, <3>3 DEF Next, vars
  <2> QED
    BY <2>1, <2>2, <2>3, <2>4, <2>5, <2>6
<1> QED
  BY <1>1, <1>2, <1>3

(* A new link starts clean, however removals, probes and power cuts fall:   *)
(* nothing in flash and no result is under the id it gets (links_add()).    *)
THEOREM NewLinksAreClean == Spec => StartsClean
<1>1. ASSUME IInv, IInv', [Next]_vars, NEW id \in Ids, id \in Listed' \ Listed, left # Ids
      PROVE  id \notin notes /\ secrets[id] = None /\ recs[id] = "none"
  <2>1. Add
    BY <1>1, OnlyAddLists
  <2>2. id = list.nextId
    <3> DEFINE s == list.links
               ls == Append(s, [id |-> list.nextId, group |-> None])
    <3>1. list'.links = ls /\ s \in Seq([id : Nat, group : Nat]) /\ Len(s) \in Nat
      BY <1>1, <2>1, LinkFacts DEF Add, Save, Lists
    <3>2. /\ DOMAIN ls = 1..Len(s) + 1 /\ \A k \in 1..Len(s) : ls[k] = s[k]
          /\ ls[Len(s) + 1].id = list.nextId
      BY <3>1
    <3>3. Listed' = {ls[k].id : k \in 1..Len(s) + 1} /\ Listed = {s[k].id : k \in 1..Len(s)}
      <4>1. Listed = {s[k].id : k \in 1..Len(s)}
        BY <1>1, LinkFacts DEF Listed
      <4>2. Listed' = {ls[k].id : k \in DOMAIN ls}
        BY <3>1 DEF Listed
      <4> HIDE DEF ls
      <4> QED
        BY <3>2, <4>1, <4>2
    <3> HIDE DEF ls, s
    <3>4. PICK k \in 1..Len(s) + 1 : id = ls[k].id
      BY <1>1, <3>3
    <3>5. k \notin 1..Len(s)
      BY <1>1, <3>2, <3>3, <3>4
    <3> QED
      BY <3>1, <3>2, <3>4, <3>5
  <2>3. /\ notes \cup Held \subseteq Listed \cup left \cup Forgetting
        /\ left \subseteq 1..list.nextId - 1 /\ Forgetting \subseteq 1..list.nextId - 1
        /\ Listed \subseteq 1..list.nextId - 1 /\ list.nextId \in Nat
    BY <1>1, IdFacts DEF IInv, LeftSound, JobSound, Forgetting
  <2>4. id \notin notes \cup Held
    BY <2>2, <2>3
  <2>5. recs[id] = "none"
    BY <1>1, <2>2, <2>3 DEF IInv, CheckSound
  <2> QED
    BY <2>4, <2>5 DEF Held
<1>2. IInv /\ IInv' /\ [Next]_vars =>
        [ \A id \in Ids :
            (id \in Listed' \ Listed /\ left # Ids) =>
                id \notin notes /\ secrets[id] = None /\ recs[id] = "none" ]_vars
  BY <1>1
<1> QED
  BY <1>2, AlwaysSound, PTL DEF Spec, StartsClean
=============================================================================
