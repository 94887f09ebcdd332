--------------------------- MODULE DeviceDbProofs ---------------------------
(***************************************************************************)
(* Proofs about the device database, for any devices, addresses, sizes of  *)
(* table and register, and requests of users.                              *)
(***************************************************************************)
EXTENDS DeviceDb, FiniteSetTheorems, SequenceTheorems, TLAPS

Good(t) ==
    /\ t \in Seq(Entry)
    /\ Len(t) <= MaxActive
    /\ \A i, j \in DOMAIN t : t[i].key = t[j].key => i = j

(* A device that is around, and the tables that keep all of those.          *)
Online(d) == d.miss = 0 \/ d.seen

Keeps(t, u) ==
    \A i \in DOMAIN t : Online(t[i]) => \E j \in DOMAIN u : u[j].key = t[i].key /\ Online(u[j])

-----------------------------------------------------------------------------
(* Values *)

(* No name, no miss and the most misses are within their ranges.            *)
LEMMA Zeros == 0 \in Name /\ 0 \in 0 .. MaxMiss /\ MaxMiss \in 0 .. MaxMiss
BY SizeAssumption, MissAssumption DEF Name

(* A newcomer is an entry of its key.                                       *)
LEMMA BlankIsEntry ==
    ASSUME NEW k \in Key, NEW b \in BOOLEAN
    PROVE  /\ Blank(k) \in Entry /\ Blank(k).key = k
           /\ [Blank(k) EXCEPT !.shared = b] \in Entry
           /\ [Blank(k) EXCEPT !.shared = b].key = k
<1>1. Hw(k) \in Key
  BY DEF Hw, Key
<1> QED
  BY <1>1, Zeros DEF Blank, Entry

(* A device brought back from its record is an entry of its key.            *)
LEMMA FromRecordIsEntry ==
    ASSUME NEW k \in Key, NEW p \in Payload
    PROVE  FromRecord(k, p) \in Entry /\ FromRecord(k, p).key = k
BY Zeros DEF FromRecord, Entry, Payload

(* A copy taken under the lock is a snapshot of its device.                 *)
LEMMA CopyIsSnapshot ==
    ASSUME NEW d \in Entry
    PROVE  Copy(d) \in Snapshot /\ Copy(d).key = d.key
BY DEF Copy, Entry, Snapshot

(* The end of a sweep leaves an entry one: misses stop at their limit.      *)
LEMMA AgedIsEntry ==
    ASSUME NEW d \in Entry
    PROVE  Aged(d) \in Entry /\ Aged(d).key = d.key
<1>1. d.miss \in 0 .. MaxMiss
  BY DEF Entry
<1>2. CASE d.seen
  BY <1>2 DEF Aged, Entry
<1>3. CASE ~d.seen /\ d.miss < MaxMiss
  <2>1. d.miss + 1 \in 0 .. MaxMiss
    BY <1>1, <1>3, MissAssumption
  <2>2. Aged(d) = [d EXCEPT !.miss = d.miss + 1]
    BY <1>3 DEF Aged
  <2> QED
    BY <2>1, <2>2 DEF Entry
<1> QED
  BY <1>2, <1>3 DEF Aged

(* A device written over its record, or over none, makes a record.          *)
LEMMA MergedIsPayload ==
    ASSUME NEW d \in Snapshot, NEW p \in NoneOr(Payload)
    PROVE  Merged(p, d) \in Payload
BY DEF Merged, Snapshot, Payload, NoneOr

(* So does an import.                                                       *)
LEMMA ImportedIsPayload ==
    ASSUME NEW e \in Imports
    PROVE  e \in [key : Key, hw : Key, ip : Addr \cup {NoAddr}] /\ Imported(e) \in Payload
BY ImportAssumption, Zeros DEF Imported, Payload

(* The register stays a register.                                           *)
LEMMA WriteKeepsType ==
    ASSUME reg \in [Key -> NoneOr(Payload)], NEW k \in Key, NEW p \in Payload,
           Store!Write(k, p) \/ Store!Refuse(k)
    PROVE  reg' \in [Key -> NoneOr(Payload)]
BY DEF NoneOr, Store!Write, Store!Refuse, Store!Replace, Store!Add, Store!AddEvicting,
       Store!Evictable, Store!Remembered

(* Writing a copy back keeps the register a register.                       *)
LEMMA StoreKeepsType ==
    ASSUME reg \in [Key -> NoneOr(Payload)], NEW d \in Snapshot, StoreDevice(d)
    PROVE  reg' \in [Key -> NoneOr(Payload)]
<1>1. d.key \in Key
  BY DEF Snapshot
<1>2. Merged(reg[d.key], d) \in Payload
  BY <1>1, MergedIsPayload
<1> QED
  BY <1>1, <1>2, WriteKeepsType DEF StoreDevice

-----------------------------------------------------------------------------
(* Tables *)

(* The index of an active device is one of the table.                       *)
LEMMA IndexInTable ==
    ASSUME NEW t, NEW k, IsActive(t, k)
    PROVE  IndexIn(t, k) \in DOMAIN t /\ t[IndexIn(t, k)].key = k
BY DEF IsActive, IndexIn

(* What the provers need to know of a table as a sequence.                  *)
LEMMA SeqFacts ==
    ASSUME NEW t \in Seq(Entry)
    PROVE  Len(t) \in Nat /\ DOMAIN t = 1 .. Len(t) /\ \A i \in DOMAIN t : t[i] \in Entry
BY LenProperties

(* An entry replaced by one of the same device.                             *)
LEMMA ReplacedIsGood ==
    ASSUME NEW t, Good(t), NEW i \in DOMAIN t, NEW d \in Entry, d.key = t[i].key
    PROVE  /\ Good([t EXCEPT ![i] = d])
           /\ DOMAIN [t EXCEPT ![i] = d] = DOMAIN t
           /\ \A k : IsActive([t EXCEPT ![i] = d], k) <=> IsActive(t, k)
           /\ (Online(t[i]) => Online(d)) => Keeps(t, [t EXCEPT ![i] = d])
<1> DEFINE u == [t EXCEPT ![i] = d]
<1>1. t \in Seq(Entry) /\ i \in 1 .. Len(t) /\ DOMAIN t = 1 .. Len(t)
  BY SeqFacts DEF Good
<1>2. u \in Seq(Entry) /\ Len(u) = Len(t) /\ \A j \in 1 .. Len(t) : u[j] = IF j = i THEN d ELSE t[j]
  BY <1>1, ExceptSeq
<1>3. DOMAIN u = DOMAIN t
  OBVIOUS
<1>4. \A j \in DOMAIN t : u[j].key = t[j].key
  BY <1>1, <1>2
<1> HIDE DEF u
<1>5. Good(u)
  BY <1>2, <1>3, <1>4 DEF Good
<1>6. \A k : IsActive(u, k) <=> IsActive(t, k)
  BY <1>3, <1>4 DEF IsActive
<1>7. (Online(t[i]) => Online(d)) => Keeps(t, u)
  BY <1>1, <1>2, <1>3, <1>4 DEF Keeps
<1> QED
  BY <1>3, <1>5, <1>6, <1>7 DEF u

(* An entry less.                                                           *)
LEMMA DroppedIsGood ==
    ASSUME NEW t, Good(t), NEW i \in DOMAIN t
    PROVE  /\ Good(Dropped(t, i)) /\ Len(Dropped(t, i)) = Len(t) - 1
           /\ \A k : IsActive(Dropped(t, i), k) => IsActive(t, k)
           /\ \A j \in DOMAIN t \ {i} : \E l \in DOMAIN Dropped(t, i) : Dropped(t, i)[l] = t[j]
<1> DEFINE u == Dropped(t, i)
<1>1. t \in Seq(Entry) /\ Len(t) \in Nat /\ DOMAIN t = 1 .. Len(t) /\ Len(t) <= MaxActive
      /\ \A j \in DOMAIN t : t[j] \in Entry
  BY SeqFacts DEF Good
<1>2. Len(t) - 1 \in Nat /\ i \in 1 .. Len(t) /\ Len(t) \in DOMAIN t
  BY <1>1
<1>3. u \in [1 .. (Len(t) - 1) -> Entry]
  BY <1>1, <1>2 DEF Dropped
<1>4. u \in Seq(Entry) /\ DOMAIN u = 1 .. (Len(t) - 1) /\ Len(u) = Len(t) - 1
  <2>1. u \in Seq(Entry)
    BY <1>2, <1>3, SeqDef
  <2> QED
    BY <1>2, <1>3, <2>1, LenProperties
<1>5. \A j \in DOMAIN u : u[j] = t[IF j = i THEN Len(t) ELSE j]
  BY <1>1, <1>4 DEF Dropped
<1> HIDE DEF u
<1>6. \A j, l \in DOMAIN u : u[j].key = u[l].key => j = l
  <2> SUFFICES ASSUME NEW j \in DOMAIN u, NEW l \in DOMAIN u, u[j].key = u[l].key PROVE j = l
    OBVIOUS
  <2> DEFINE m(x) == IF x = i THEN Len(t) ELSE x
  <2>1. m(j) \in DOMAIN t /\ m(l) \in DOMAIN t /\ u[j] = t[m(j)] /\ u[l] = t[m(l)]
    BY <1>1, <1>2, <1>4, <1>5
  <2>2. m(j) = m(l)
    BY <2>1 DEF Good
  <2> QED
    BY <1>1, <1>2, <1>4, <2>2
<1>7. Good(u)
  BY <1>1, <1>2, <1>4, <1>6, SizeAssumption DEF Good
<1>8. \A k : IsActive(u, k) => IsActive(t, k)
  BY <1>1, <1>2, <1>4, <1>5 DEF IsActive
<1>9. ASSUME NEW j \in DOMAIN t \ {i}
      PROVE  \E l \in DOMAIN u : u[l] = t[j]
  <2>1. CASE j < Len(t)
    BY <1>1, <1>2, <1>4, <1>5, <1>9, <2>1
  <2>2. CASE j = Len(t)
    <3>1. i \in DOMAIN u
      BY <1>1, <1>2, <1>4, <1>9, <2>2
    <3> QED
      BY <1>5, <2>2, <3>1
  <2> QED
    BY <1>1, <1>9, <2>1, <2>2
<1> QED
  BY <1>4, <1>7, <1>8, <1>9 DEF u

(* An entry more.                                                           *)
LEMMA AppendedIsGood ==
    ASSUME NEW t, Good(t), NEW e \in Entry, ~IsActive(t, e.key), Len(t) < MaxActive
    PROVE  /\ Good(Append(t, e))
           /\ Len(Append(t, e)) \in DOMAIN Append(t, e)
           /\ Append(t, e)[Len(Append(t, e))] = e
           /\ \A k : IsActive(Append(t, e), k) <=> k = e.key \/ IsActive(t, k)
           /\ \A i \in DOMAIN t : i \in DOMAIN Append(t, e) /\ Append(t, e)[i] = t[i]
<1> DEFINE u == Append(t, e)
<1>1. t \in Seq(Entry) /\ Len(t) \in Nat /\ DOMAIN t = 1 .. Len(t)
  BY SeqFacts DEF Good
<1>2. u \in Seq(Entry) /\ Len(u) = Len(t) + 1 /\ DOMAIN u = 1 .. (Len(t) + 1)
      /\ u[Len(t) + 1] = e /\ \A i \in 1 .. Len(t) : u[i] = t[i]
  BY <1>1, AppendProperties, LenProperties
<1> HIDE DEF u
<1>3. Good(u)
  BY <1>1, <1>2, SizeAssumption DEF Good, IsActive
<1>4. \A k : IsActive(u, k) <=> k = e.key \/ IsActive(t, k)
  BY <1>1, <1>2 DEF IsActive
<1> QED
  BY <1>1, <1>2, <1>3, <1>4 DEF u

(* Whoever is kept by one change and by the next is kept by both.           *)
LEMMA KeepsTransitive ==
    ASSUME NEW t, NEW u, NEW w, Keeps(t, u), Keeps(u, w)
    PROVE  Keeps(t, w)
BY DEF Keeps

(* A table that does not change keeps everyone.                             *)
LEMMA KeepsItself ==
    ASSUME NEW t
    PROVE  Keeps(t, t)
BY DEF Keeps

(* Room is made without overflow, without a second entry for anyone, and at *)
(* nobody's expense who is around.                                          *)
LEMMA RoomsAreGood ==
    ASSUME NEW t, Good(t), NEW e \in Entry, ~IsActive(t, e.key), NEW r \in Rooms(t, e)
    PROVE  /\ Good(r.tab)
           /\ Len(r.tab) \in DOMAIN r.tab /\ r.tab[Len(r.tab)] = e
           /\ \A k : IsActive(r.tab, k) => k = e.key \/ IsActive(t, k)
           /\ r.demoted \in NoneOr(Snapshot)
           /\ Keeps(t, r.tab)
<1>1. Len(t) \in Nat /\ Len(t) <= MaxActive /\ \A i \in DOMAIN t : t[i] \in Entry
  BY SeqFacts DEF Good
<1>2. CASE Len(t) < MaxActive
  <2>1. r.tab = Append(t, e) /\ r.demoted = NoRec
    BY <1>2 DEF Rooms
  <2>2. Keeps(t, r.tab)
    BY <1>2, <2>1, AppendedIsGood DEF Keeps
  <2> QED
    BY <1>2, <2>1, <2>2, AppendedIsGood DEF NoneOr
<1>3. CASE ~(Len(t) < MaxActive)
  <2>1. PICK i \in Victims(t) : r.tab = Append(Dropped(t, i), e) /\ r.demoted = Copy(t[i])
    BY <1>3 DEF Rooms
  <2>2. i \in DOMAIN t /\ ~Online(t[i])
    BY <1>1 DEF Victims, Absentees, Online
  <2> DEFINE u == Dropped(t, i)
  <2>3. Good(u) /\ Len(u) < MaxActive
    BY <1>1, <2>2, DroppedIsGood, SizeAssumption
  <2>4. \A k : IsActive(u, k) => IsActive(t, k)
    BY <2>2, DroppedIsGood
  <2>5. \A j \in DOMAIN t \ {i} : \E l \in DOMAIN u : u[l] = t[j]
    BY <2>2, DroppedIsGood
  <2> HIDE DEF u
  <2>6. ~IsActive(u, e.key)
    BY <2>4
  <2>7. /\ Good(Append(u, e))
        /\ Len(Append(u, e)) \in DOMAIN Append(u, e)
        /\ Append(u, e)[Len(Append(u, e))] = e
        /\ \A k : IsActive(Append(u, e), k) <=> k = e.key \/ IsActive(u, k)
        /\ \A j \in DOMAIN u : j \in DOMAIN Append(u, e) /\ Append(u, e)[j] = u[j]
    BY <2>3, <2>6, AppendedIsGood
  <2>8. r.tab = Append(u, e)
    BY <2>1 DEF u
  <2>9. Keeps(t, r.tab)
    BY <2>2, <2>5, <2>7, <2>8 DEF Keeps
  <2>10. r.demoted \in NoneOr(Snapshot)
    BY <1>1, <2>1, <2>2, CopyIsSnapshot DEF NoneOr
  <2> QED
    BY <2>4, <2>7, <2>8, <2>9, <2>10
<1> QED
  BY <1>2, <1>3

-----------------------------------------------------------------------------
(* The strengthening: what each task carries from one step to the next *)

Writable ==
    /\ job.full => job.key \in Key /\ job.hw \in Key
    /\ pc = "full" => job.key \in Key /\ job.hw \in Key
    /\ pc = "demoted" => job.demoted \in Snapshot
    /\ pc = "primary" => job.primary \in Snapshot
    /\ pc = "persist" => job.snap \in Snapshot
    /\ pc = "flushWrite" => flush.snap \in Snapshot

Placed == sight.mac \in Mac /\ sight.ip \in Addr

(* The record read ahead is one of the two the sighting can be about.       *)
ReadAheadOK ==
    /\ pc \in {"readId", "readMac", "apply", "full", "demoted"} => Placed
    /\ pre # NoRec => pc = "apply" /\ pre.key \in {Id, sight.mac}

FlushOK == pc \in {"flush", "flushWrite"} => flush.at > 0

UserOK == user # NoRec => (user.op = "write" => user.snap \in Snapshot)

Inv == TypeOK /\ OneEntryPerDevice /\ Writable /\ ReadAheadOK /\ FlushOK /\ UserOK

(* The invariant makes the table a good one.                                *)
LEMMA InvTab == ASSUME TypeOK, OneEntryPerDevice PROVE Good(tab)
BY DEF TypeOK, OneEntryPerDevice, Good

(* The two keys a sighting can be about are different, and both are keys.   *)
LEMMA KeyFacts ==
    ASSUME Placed
    PROVE  /\ Id \in Key /\ sight.mac \in Key /\ Id # sight.mac
           /\ Id # NoRec /\ sight.mac # NoRec
BY KeyAssumption, NothingAssumption DEF Placed, Id, SharedId, Key

-----------------------------------------------------------------------------
(* Apply, piece by piece *)

(* Bringing back a remembered device: a good table, and InHand found in it. *)
LEMMA PromotedFacts ==
    ASSUME Good(tab), TypeOK, Placed, pre # NoRec => pre.key \in {Id, sight.mac},
           NEW s \in Promoted
    PROVE  /\ Good(s.tab) /\ s.demoted \in NoneOr(Snapshot) /\ Keeps(tab, s.tab)
           /\ \/ s.at = NoRec /\ ~IsActive(s.tab, Id) /\ ~IsActive(s.tab, sight.mac)
              \/ s.at = Id /\ IsActive(s.tab, Id)
              \/ s.at = sight.mac /\ IsActive(s.tab, sight.mac) /\ ~IsActive(s.tab, Id)
<1>1. \/ InHand = NoRec /\ ~IsActive(tab, Id) /\ ~IsActive(tab, sight.mac)
      \/ InHand = Id /\ IsActive(tab, Id)
      \/ InHand = sight.mac /\ IsActive(tab, sight.mac) /\ ~IsActive(tab, Id)
  BY DEF InHand
<1> DEFINE rooms == Rooms(tab, FromRecord(pre.key, pre.rec))
<1>2. CASE s = [tab |-> tab, demoted |-> NoRec, at |-> InHand]
  BY <1>1, <1>2, KeepsItself DEF NoneOr
<1>3. CASE InHand = NoRec /\ pre # NoRec
           /\ \E r \in rooms : s = [tab |-> r.tab, demoted |-> r.demoted, at |-> pre.key]
  <2>1. PICK r \in rooms : s = [tab |-> r.tab, demoted |-> r.demoted, at |-> pre.key]
    BY <1>3
  <2>2. ~IsActive(tab, Id) /\ ~IsActive(tab, sight.mac)
    BY <1>1, <1>3, KeyFacts
  <2>3. pre.key \in Key /\ pre.rec \in Payload /\ pre.key \in {Id, sight.mac}
    BY <1>3 DEF TypeOK, NoneOr
  <2> DEFINE e == FromRecord(pre.key, pre.rec)
  <2>4. e \in Entry /\ e.key = pre.key
    BY <2>3, FromRecordIsEntry
  <2>5. ~IsActive(tab, e.key) /\ r \in Rooms(tab, e)
    BY <2>2, <2>3, <2>4
  <2> HIDE DEF e
  <2>6. /\ Good(r.tab)
        /\ Len(r.tab) \in DOMAIN r.tab /\ r.tab[Len(r.tab)] = e
        /\ \A k : IsActive(r.tab, k) => k = e.key \/ IsActive(tab, k)
        /\ r.demoted \in NoneOr(Snapshot)
        /\ Keeps(tab, r.tab)
    BY <2>4, <2>5, RoomsAreGood
  <2>7. IsActive(r.tab, pre.key)
    BY <2>4, <2>6 DEF IsActive
  <2> QED
    BY <2>1, <2>2, <2>3, <2>4, <2>6, <2>7, KeyFacts
<1> QED
  BY <1>2, <1>3 DEF Promoted

(* Declaring a MAC shared changes nothing but its own entry.                *)
LEMMA DeclaredFacts ==
    ASSUME NEW s, Good(s.tab), s.at # NoRec => IsActive(s.tab, s.at), Placed, NEW v \in Verdicts(s)
    PROVE  /\ Good(Declared(s, v)) /\ Keeps(s.tab, Declared(s, v))
           /\ \A k : IsActive(Declared(s, v), k) <=> IsActive(s.tab, k)
           /\ v = "shared" => s.at = sight.mac /\ IsActive(s.tab, s.at)
<1>1. CASE v # "shared"
  BY <1>1, KeepsItself DEF Declared
<1>2. CASE v = "shared"
  <2>1. s.at = sight.mac
    BY <1>2 DEF Verdicts, Judged
  <2>2. IsActive(s.tab, s.at)
    BY <2>1, KeyFacts
  <2> DEFINE i == IndexIn(s.tab, s.at)
             d == [s.tab[i] EXCEPT !.shared = TRUE, !.name = 0, !.src = 0]
  <2>3. i \in DOMAIN s.tab
    BY <2>2, IndexInTable
  <2>4. s.tab[i] \in Entry
    BY <2>3, SeqFacts DEF Good
  <2>5. d \in Entry /\ d.key = s.tab[i].key /\ (Online(s.tab[i]) => Online(d))
    BY <2>4, Zeros DEF Entry, Online
  <2>6. Declared(s, v) = [s.tab EXCEPT ![i] = d]
    BY <1>2 DEF Declared
  <2> HIDE DEF i, d
  <2> QED
    BY <2>1, <2>2, <2>3, <2>5, <2>6, ReplacedIsGood
<1> QED
  BY <1>1, <1>2

(* Whatever is left to be written is there to be written.                   *)
LEMMA LeaveFacts ==
    ASSUME NEW j \in Job, j.key \in Key, j.full => j.hw \in Key, Leave(j)
    PROVE  /\ job' \in Job
           /\ pc' \in {"demoted", "full", "primary", "persist", "announce"}
           /\ Writable'
BY DEF Leave, AfterDemoted, Job, NoneOr, Writable

(* The update of the entry keeps everyone.                                  *)
LEMMA SettleFacts ==
    ASSUME Placed, NEW t, Good(t), NEW k \in Key, IsActive(t, k), NEW v, NEW fresh \in BOOLEAN,
           NEW demoted \in NoneOr(Snapshot), NEW primary \in NoneOr(Snapshot),
           Settle(t, k, demoted, primary, v, fresh)
    PROVE  /\ Good(tab') /\ Keeps(t, tab') /\ job' \in Job
           /\ pc' \in {"demoted", "full", "primary", "persist", "announce"} /\ Writable'
<1> DEFINE i == IndexIn(t, k)
           d == Touched(t[i], v)
<1>1. i \in DOMAIN t /\ t[i].key = k
  BY IndexInTable
<1>2. t[i] \in Entry
  BY <1>1, SeqFacts DEF Good
<1>3. d \in Entry /\ d.key = t[i].key /\ Online(d)
  BY <1>2, Zeros DEF Touched, Entry, Online, Placed
<1> PICK dated \in BOOLEAN :
        /\ tab' = [t EXCEPT ![i] = d]
        /\ Leave([NoJob EXCEPT
                    !.key = k, !.demoted = demoted, !.primary = primary,
                    !.snap = IF fresh \/ dated THEN Copy(d) ELSE NoRec,
                    !.inserted = fresh, !.wasKnown = reg[k] # NoRec])
  BY DEF Settle
<1> DEFINE j == [NoJob EXCEPT
                    !.key = k, !.demoted = demoted, !.primary = primary,
                    !.snap = IF fresh \/ dated THEN Copy(d) ELSE NoRec,
                    !.inserted = fresh, !.wasKnown = reg[k] # NoRec]
<1>4. Copy(d) \in Snapshot
  BY <1>3, CopyIsSnapshot
<1>5. j \in Job /\ j.key = k /\ ~j.full
  BY <1>4 DEF NoJob, Job, NoneOr
<1>6. Leave(j)
  OBVIOUS
<1> HIDE DEF i, d, j
<1>7. tab' = [t EXCEPT ![i] = d]
  BY DEF i, d
<1>8. Good(tab') /\ Keeps(t, tab')
  <2>1. i \in DOMAIN t /\ d \in Entry /\ d.key = t[i].key /\ Online(d)
    BY <1>1, <1>3
  <2>2. Good([t EXCEPT ![i] = d])
    BY <2>1, ReplacedIsGood
  <2>3. (Online(t[i]) => Online(d)) => Keeps(t, [t EXCEPT ![i] = d])
    BY <2>1, ReplacedIsGood
  <2> QED
    BY <1>7, <2>1, <2>2, <2>3
<1>9. /\ job' \in Job
      /\ pc' \in {"demoted", "full", "primary", "persist", "announce"}
      /\ Writable'
  BY <1>5, <1>6, LeaveFacts
<1> QED
  BY <1>8, <1>9

(* A full table is left as it is.                                           *)
LEMMA TableFullFacts ==
    ASSUME Placed, TypeOK, pre # NoRec => pre.key \in {Id, sight.mac}, NEW t,
           NEW split \in BOOLEAN, NEW demoted \in NoneOr(Snapshot), TableFull(t, split, demoted)
    PROVE  /\ tab' = t /\ job' \in Job
           /\ pc' \in {"demoted", "full", "primary", "persist", "announce"} /\ Writable'
<1> DEFINE k == IF pre # NoRec THEN pre.key ELSE IF split THEN Id ELSE sight.mac
           h == IF pre # NoRec THEN pre.rec.hw ELSE sight.mac
           j == [NoJob EXCEPT !.key = k, !.hw = h, !.demoted = demoted, !.full = TRUE,
                              !.split = split]
<1>1. k \in Key /\ h \in Key
  BY KeyFacts DEF TypeOK, NoneOr, Payload
<1> HIDE DEF k, h
<1>2. j \in Job /\ j.key = k /\ j.hw = h
  BY <1>1 DEF NoJob, Job, NoneOr
<1>3. tab' = t /\ Leave(j)
  BY DEF TableFull, k, h
<1> HIDE DEF j
<1> QED
  BY <1>1, <1>2, <1>3, LeaveFacts

(* The whole of the second locked section.                                  *)
LEMMA ApplyFacts ==
    ASSUME Inv, Apply
    PROVE  Inv' /\ Keeps(tab, tab')
<1>1. Placed /\ TypeOK /\ Good(tab) /\ (pre # NoRec => pre.key \in {Id, sight.mac})
  BY InvTab DEF Inv, Apply, ReadAheadOK
<1> PICK s \in Promoted : \E v \in Verdicts(s) :
        /\ Resolve(s, v)
        /\ known' = IF v = "shared" THEN [known EXCEPT ![sight.mac] = 0] ELSE known
        /\ watched' = IF Judged(s) THEN [watched EXCEPT ![sight.mac] = v # "shared"] ELSE watched
  BY DEF Apply
<1> PICK v \in Verdicts(s) :
        /\ Resolve(s, v)
        /\ known' = IF v = "shared" THEN [known EXCEPT ![sight.mac] = 0] ELSE known
        /\ watched' = IF Judged(s) THEN [watched EXCEPT ![sight.mac] = v # "shared"] ELSE watched
  OBVIOUS
<1> DEFINE t     == Declared(s, v)
           split == s.at # NoRec /\ Splits(t, s.at)
           k     == IF split THEN Id ELSE sight.mac
           e     == [Blank(k) EXCEPT !.shared = split]
           prim  == IF v = "shared" THEN Copy(t[IndexIn(t, s.at)]) ELSE NoRec
<1>2. /\ Good(s.tab) /\ s.demoted \in NoneOr(Snapshot) /\ Keeps(tab, s.tab)
      /\ \/ s.at = NoRec /\ ~IsActive(s.tab, Id) /\ ~IsActive(s.tab, sight.mac)
         \/ s.at = Id /\ IsActive(s.tab, Id)
         \/ s.at = sight.mac /\ IsActive(s.tab, sight.mac) /\ ~IsActive(s.tab, Id)
  BY <1>1, PromotedFacts
<1>3. /\ Good(t) /\ Keeps(s.tab, t) /\ \A x : IsActive(t, x) <=> IsActive(s.tab, x)
      /\ v = "shared" => s.at = sight.mac /\ IsActive(s.tab, s.at)
  BY <1>1, <1>2, DeclaredFacts
<1>4. prim \in NoneOr(Snapshot)
  <2>1. CASE v = "shared"
    <3>1. t[IndexIn(t, s.at)] \in Entry
      BY <1>3, <2>1, IndexInTable, SeqFacts DEF Good
    <3> QED
      BY <2>1, <3>1, CopyIsSnapshot DEF NoneOr
  <2> QED
    BY <2>1 DEF NoneOr
<1>5. Keeps(tab, t)
  BY <1>2, <1>3, KeepsTransitive
<1>6. split \in BOOLEAN /\ (split => s.at = sight.mac)
  BY DEF Splits
<1>7. k \in Key
  BY <1>1, KeyFacts
<1>8. known' \in [Key -> Name] /\ watched' \in [Mac -> BOOLEAN]
  BY <1>1, Zeros, KeyFacts DEF TypeOK, Placed
<1>9. /\ Good(tab') /\ Keeps(t, tab') /\ job' \in Job
      /\ pc' \in {"demoted", "full", "primary", "persist", "announce"} /\ Writable'
  <2>1. CASE s.at # NoRec /\ ~split
    <3>1. Settle(t, s.at, s.demoted, prim, v, FALSE)
      BY <2>1 DEF Resolve
    <3>2. s.at \in Key /\ IsActive(t, s.at)
      BY <1>1, <1>2, <1>3, <2>1, KeyFacts
    <3> HIDE DEF t, split, k, e, prim
    <3> QED
      BY <1>1, <1>2, <1>3, <1>4, <3>1, <3>2, SettleFacts
  <2>2. CASE ~(s.at # NoRec /\ ~split) /\ Rooms(t, e) = {}
    <3>1. TableFull(t, split, s.demoted)
      BY <2>2 DEF Resolve
    <3> HIDE DEF t, split, k, e, prim
    <3>2. tab' = t /\ job' \in Job
          /\ pc' \in {"demoted", "full", "primary", "persist", "announce"} /\ Writable'
      BY <1>1, <1>2, <1>6, <3>1, TableFullFacts
    <3> QED
      BY <1>3, <3>2, KeepsItself
  <2>3. CASE ~(s.at # NoRec /\ ~split) /\ Rooms(t, e) # {}
    <3>1. PICK r \in Rooms(t, e) :
             Settle([r.tab EXCEPT ![Len(r.tab)].shared = @ \/ HasSibling(r.tab, k)],
                    k, IF r.demoted # NoRec THEN r.demoted ELSE s.demoted, prim, v, TRUE)
      BY <2>3 DEF Resolve
    <3>2. e \in Entry /\ e.key = k
      BY <1>6, <1>7, BlankIsEntry
    <3>3. ~IsActive(t, k)
      BY <1>1, <1>2, <1>3, <1>6, <2>3, KeyFacts
    <3> DEFINE n == Len(r.tab)
               d == [r.tab[n] EXCEPT !.shared = @ \/ HasSibling(r.tab, k)]
               u == [r.tab EXCEPT ![n] = d]
               moved == IF r.demoted # NoRec THEN r.demoted ELSE s.demoted
    <3>4. Settle(u, k, moved, prim, v, TRUE)
      BY <3>1
    <3> HIDE DEF t, split, k, e, prim
    <3>5. /\ Good(r.tab) /\ n \in DOMAIN r.tab /\ r.tab[n] = e
          /\ r.demoted \in NoneOr(Snapshot) /\ Keeps(t, r.tab)
      BY <1>3, <3>2, <3>3, RoomsAreGood
    <3>6. HasSibling(r.tab, k) \in BOOLEAN
      BY DEF HasSibling
    <3>7. d \in Entry /\ d.key = r.tab[n].key /\ d.key = k /\ (Online(r.tab[n]) => Online(d))
      <4>1. d = [e EXCEPT !.shared = @ \/ HasSibling(r.tab, k)]
        BY <3>5
      <4> QED
        BY <3>2, <3>5, <3>6, <4>1 DEF Entry, Online
    <3>8. moved \in NoneOr(Snapshot)
      BY <1>2, <3>5
    <3> HIDE DEF n, d, moved
    <3>9. Good(u) /\ Keeps(r.tab, u) /\ DOMAIN u = DOMAIN r.tab /\ u[n] = d
      BY <3>5, <3>7, ReplacedIsGood
    <3>10. IsActive(u, k)
      BY <3>5, <3>7, <3>9 DEF IsActive
    <3> HIDE DEF u
    <3>11. /\ Good(tab') /\ Keeps(u, tab') /\ job' \in Job
           /\ pc' \in {"demoted", "full", "primary", "persist", "announce"} /\ Writable'
      BY <1>1, <1>4, <1>7, <3>4, <3>8, <3>9, <3>10, SettleFacts
    <3> QED
      BY <3>5, <3>9, <3>11, KeepsTransitive
  <2> QED
    BY <2>1, <2>2, <2>3
<1> HIDE DEF t, split, k, e, prim
<1>10. Keeps(tab, tab')
  BY <1>5, <1>9, KeepsTransitive
<1>11. pre' = NoRec /\ UNCHANGED <<reg, sight, flush, user>>
  BY DEF Apply
<1>12. TypeOK'
  BY <1>1, <1>8, <1>9, <1>11 DEF TypeOK, Good, NoneOr
<1>13. OneEntryPerDevice'
  BY <1>9 DEF Good, OneEntryPerDevice
<1>14. ReadAheadOK' /\ FlushOK' /\ UserOK'
  BY <1>1, <1>9, <1>11 DEF ReadAheadOK, FlushOK, UserOK, Placed, Inv
<1> QED
  BY <1>9, <1>10, <1>12, <1>13, <1>14 DEF Inv

-----------------------------------------------------------------------------
(* The other steps *)

(* Nobody who is around leaves the table, but by Forget or Restart.         *)
NobodyLeaves ==
    \A i \in DOMAIN tab :
        /\ tab[i].miss = 0 \/ tab[i].seen
        /\ ~IsActive(tab', tab[i].key)
        => Forget(tab[i].key) \/ Restart

(* A table whose devices stay, in their places, is a good one.              *)
LEMMA ChangedIsGood ==
    ASSUME NEW t, Good(t), NEW u \in [DOMAIN t -> Entry],
           \A i \in DOMAIN t : u[i].key = t[i].key
    PROVE  Good(u) /\ \A k : IsActive(u, k) <=> IsActive(t, k)
<1>1. t \in Seq(Entry) /\ Len(t) \in Nat /\ DOMAIN t = 1 .. Len(t) /\ DOMAIN u = DOMAIN t
  BY SeqFacts DEF Good
<1>2. u \in Seq(Entry)
  BY <1>1, SeqDef
<1>3. Len(u) = Len(t)
  BY <1>1, <1>2, LenProperties
<1>4. Good(u)
  BY <1>1, <1>2, <1>3 DEF Good
<1> QED
  BY <1>1, <1>4 DEF IsActive

(* What a step owes the invariant when it leaves the table good and keeps   *)
(* everyone in it.                                                          *)
LEMMA SameDevices ==
    ASSUME Good(tab'), \A k : IsActive(tab, k) => IsActive(tab', k)
    PROVE  tab' \in Seq(Entry) /\ OneEntryPerDevice' /\ NobodyLeaves
BY DEF Good, OneEntryPerDevice, NobodyLeaves, IsActive

(* Nor does a step that leaves the table alone disturb it.                  *)
LEMMA SameTable ==
    ASSUME Inv, UNCHANGED tab
    PROVE  tab' \in Seq(Entry) /\ OneEntryPerDevice' /\ NobodyLeaves
BY SameDevices, InvTab DEF Inv

(* Steps of the scanner between Sighted and Announce, but Apply.            *)
LEMMA SightingStep ==
    ASSUME Inv,
           \/ \E m \in Mac, a \in Addr : Sighted(m, a)
           \/ ReadId \/ ReadMac
    PROVE  Inv' /\ NobodyLeaves
<1>1. CASE \E m \in Mac, a \in Addr : Sighted(m, a)
  <2> PICK m \in Mac, a \in Addr : Sighted(m, a)
    BY <1>1
  <2>1. TypeOK'
    BY SameTable DEF Sighted, Inv, TypeOK, NoneOr
  <2>2. Writable' /\ ReadAheadOK' /\ FlushOK' /\ UserOK'
    BY DEF Sighted, Inv, Writable, ReadAheadOK, FlushOK, UserOK, Placed
  <2> QED
    BY <2>1, <2>2, SameTable DEF Sighted, Inv
<1>2. CASE ReadId
  <2>1. Placed /\ Id \in Key
    BY <1>2, KeyFacts DEF ReadId, ReadAhead, Inv, ReadAheadOK
  <2>2. TypeOK'
    BY <1>2, <2>1, SameTable DEF ReadId, ReadAhead, Inv, TypeOK, NoneOr, Id
  <2>3. Writable' /\ ReadAheadOK' /\ FlushOK' /\ UserOK'
    BY <1>2, <2>1 DEF ReadId, ReadAhead, Inv, Writable, ReadAheadOK, FlushOK, UserOK, Placed, Id
  <2> QED
    BY <1>2, <2>2, <2>3, SameTable DEF ReadId, ReadAhead, Inv
<1>3. CASE ReadMac
  <2>1. Placed /\ sight.mac \in Key
    BY <1>3, KeyFacts DEF ReadMac, ReadAhead, Inv, ReadAheadOK
  <2>2. TypeOK'
    BY <1>3, <2>1, SameTable DEF ReadMac, ReadAhead, Inv, TypeOK, NoneOr
  <2>3. Writable' /\ ReadAheadOK' /\ FlushOK' /\ UserOK'
    BY <1>3, <2>1 DEF ReadMac, ReadAhead, Inv, Writable, ReadAheadOK, FlushOK, UserOK, Placed
  <2> QED
    BY <1>3, <2>2, <2>3, SameTable DEF ReadMac, ReadAhead, Inv
<1> QED
  BY <1>1, <1>2, <1>3

(* The writes that follow a sighting.                                       *)
LEMMA WriteStep ==
    ASSUME Inv, WriteDemoted \/ RegisterOnly \/ WritePrimary \/ Persist \/ Announce
    PROVE  Inv' /\ NobodyLeaves
<1>0. reg \in [Key -> NoneOr(Payload)] /\ job \in Job /\ TypeOK
  BY DEF Inv, TypeOK
<1>1. CASE WriteDemoted
  <2>1. reg' \in [Key -> NoneOr(Payload)]
    BY <1>0, <1>1, StoreKeepsType DEF WriteDemoted, Inv, Writable
  <2>2. job' \in Job /\ pc' \in {"full", "primary", "persist", "announce"} /\ Writable'
    BY <1>0, <1>1 DEF WriteDemoted, AfterDemoted, Job, NoneOr, Inv, Writable
  <2>3. TypeOK'
    BY <1>0, <1>1, <2>1, <2>2, SameTable DEF WriteDemoted, TypeOK
  <2>4. ReadAheadOK' /\ FlushOK' /\ UserOK'
    BY <1>1, <2>2 DEF WriteDemoted, Inv, ReadAheadOK, FlushOK, UserOK, Placed
  <2> QED
    BY <1>1, <2>2, <2>3, <2>4, SameTable DEF WriteDemoted, Inv
<1>2. CASE RegisterOnly
  <2>1. job.key \in Key /\ job.hw \in Key /\ Placed
    BY <1>2 DEF RegisterOnly, Inv, Writable, ReadAheadOK
  <2>2. reg' \in [Key -> NoneOr(Payload)]
    <3> DEFINE seen == IF reg[job.key] # NoRec
                       THEN [reg[job.key] EXCEPT !.ip = sight.ip]
                       ELSE [hw |-> job.hw, nick |-> NoNick, name |-> 0, src |-> 0,
                             ip |-> sight.ip, shared |-> job.split]
    <3>1. seen \in Payload
      BY <1>0, <2>1, Zeros DEF Payload, NoneOr, Placed, Job
    <3>2. Store!Write(job.key, seen) \/ Store!Refuse(job.key)
      BY <1>2 DEF RegisterOnly
    <3> QED
      BY <1>0, <2>1, <3>1, <3>2, WriteKeepsType
  <2>3. TypeOK'
    BY <1>0, <1>2, <2>2, SameTable DEF RegisterOnly, TypeOK
  <2>4. Writable' /\ ReadAheadOK' /\ FlushOK' /\ UserOK'
    BY <1>2 DEF RegisterOnly, Inv, Writable, ReadAheadOK, FlushOK, UserOK, Placed
  <2> QED
    BY <1>2, <2>3, <2>4, SameTable DEF RegisterOnly, Inv
<1>3. CASE WritePrimary
  <2>1. reg' \in [Key -> NoneOr(Payload)]
    BY <1>0, <1>3, StoreKeepsType DEF WritePrimary, Inv, Writable
  <2>2. job' \in Job /\ pc' \in {"persist", "announce"} /\ Writable'
    BY <1>0, <1>3 DEF WritePrimary, AfterPrimary, Job, NoneOr, Inv, Writable
  <2>3. TypeOK'
    BY <1>0, <1>3, <2>1, <2>2, SameTable DEF WritePrimary, TypeOK
  <2>4. ReadAheadOK' /\ FlushOK' /\ UserOK'
    BY <1>3, <2>2 DEF WritePrimary, Inv, ReadAheadOK, FlushOK, UserOK, Placed
  <2> QED
    BY <1>3, <2>2, <2>3, <2>4, SameTable DEF WritePrimary, Inv
<1>4. CASE Persist
  <2>1. reg' \in [Key -> NoneOr(Payload)]
    BY <1>0, <1>4, StoreKeepsType DEF Persist, Inv, Writable
  <2>2. job' \in Job /\ Writable'
    BY <1>0, <1>4 DEF Persist, Job, NoneOr, Inv, Writable
  <2>3. TypeOK'
    BY <1>0, <1>4, <2>1, <2>2, SameTable DEF Persist, TypeOK
  <2>4. ReadAheadOK' /\ FlushOK' /\ UserOK'
    BY <1>4 DEF Persist, Inv, ReadAheadOK, FlushOK, UserOK, Placed
  <2> QED
    BY <1>4, <2>2, <2>3, <2>4, SameTable DEF Persist, Inv
<1>5. CASE Announce
  <2>1. job' \in Job /\ Writable'
    BY <1>5 DEF Announce, NoJob, Job, NoneOr, Writable
  <2>2. TypeOK'
    BY <1>0, <1>5, <2>1, SameTable DEF Announce, TypeOK, NoSight, NoneOr
  <2>3. ReadAheadOK' /\ FlushOK' /\ UserOK'
    BY <1>5 DEF Announce, Inv, ReadAheadOK, FlushOK, UserOK, Placed
  <2> QED
    BY <1>5, <2>1, <2>2, <2>3, SameTable DEF Announce, Inv
<1> QED
  BY <1>1, <1>2, <1>3, <1>4, <1>5

(* An entry changes but for its key.                                        *)
LEMMA ChangedEntry ==
    ASSUME Inv, NEW i \in DOMAIN tab, NEW d \in Entry, d.key = tab[i].key,
           tab' = [tab EXCEPT ![i] = d]
    PROVE  tab' \in Seq(Entry) /\ OneEntryPerDevice' /\ NobodyLeaves
<1>1. Good(tab)
  BY InvTab DEF Inv
<1>2. Good([tab EXCEPT ![i] = d]) /\ \A k : IsActive([tab EXCEPT ![i] = d], k) <=> IsActive(tab, k)
  BY <1>1, ReplacedIsGood
<1>3. Good(tab') /\ \A k : IsActive(tab, k) => IsActive(tab', k)
  BY <1>2
<1> QED
  BY <1>3, SameDevices

(* All entries change but for their keys.                                   *)
LEMMA ChangedEntries ==
    ASSUME Inv, tab' \in [DOMAIN tab -> Entry], \A i \in DOMAIN tab : tab'[i].key = tab[i].key
    PROVE  tab' \in Seq(Entry) /\ OneEntryPerDevice' /\ NobodyLeaves
<1>1. Good(tab)
  BY InvTab DEF Inv
<1>2. Good(tab') /\ \A k : IsActive(tab', k) <=> IsActive(tab, k)
  BY <1>1, ChangedIsGood
<1> QED
  BY <1>2, SameDevices

(* The entries of the table, for the steps that change them in place.       *)
LEMMA EntriesOfTab ==
    ASSUME Inv
    PROVE  Len(tab) \in Nat /\ DOMAIN tab = 1 .. Len(tab) /\ \A i \in DOMAIN tab : tab[i] \in Entry
BY SeqFacts DEF Inv, TypeOK

(* The ends of sightings and sweeps.                                        *)
LEMMA SweepStep ==
    ASSUME Inv, Clean \/ (\E due \in BOOLEAN : SweepEnd(due))
    PROVE  Inv' /\ NobodyLeaves
<1>1. CASE Clean
  <2>1. \A i \in DOMAIN tab : [tab[i] EXCEPT !.dirty = FALSE] \in Entry
                              /\ [tab[i] EXCEPT !.dirty = FALSE].key = tab[i].key
    BY EntriesOfTab DEF Entry
  <2>2. tab' \in [DOMAIN tab -> Entry] /\ \A i \in DOMAIN tab : tab'[i].key = tab[i].key
    BY <1>1, <2>1, EntriesOfTab DEF Clean
  <2>3. tab' \in Seq(Entry) /\ OneEntryPerDevice' /\ NobodyLeaves
    BY <2>2, ChangedEntries
  <2>4. TypeOK'
    BY <1>1, <2>3 DEF Clean, Inv, TypeOK
  <2>5. Writable' /\ ReadAheadOK' /\ FlushOK' /\ UserOK'
    BY <1>1 DEF Clean, Inv, Writable, ReadAheadOK, FlushOK, UserOK, Placed
  <2> QED
    BY <2>3, <2>4, <2>5 DEF Inv
<1>2. ASSUME NEW due \in BOOLEAN, SweepEnd(due)
      PROVE  Inv' /\ NobodyLeaves
  <2>1. \A i \in DOMAIN tab : Aged(tab[i]) \in Entry /\ Aged(tab[i]).key = tab[i].key
    BY EntriesOfTab, AgedIsEntry
  <2>2. tab' \in [DOMAIN tab -> Entry] /\ \A i \in DOMAIN tab : tab'[i].key = tab[i].key
    BY <1>2, <2>1 DEF SweepEnd
  <2>3. tab' \in Seq(Entry) /\ OneEntryPerDevice' /\ NobodyLeaves
    BY <2>2, ChangedEntries
  <2>4. TypeOK'
    BY <1>2, <2>3 DEF SweepEnd, Inv, TypeOK, NoFlush, NoneOr
  <2>5. Writable' /\ ReadAheadOK' /\ FlushOK' /\ UserOK'
    BY <1>2 DEF SweepEnd, Inv, Writable, ReadAheadOK, FlushOK, UserOK, Placed, NoFlush
  <2> QED
    BY <2>3, <2>4, <2>5 DEF Inv
<1> QED
  BY <1>1, <1>2

(* The hourly write-back.                                                   *)
LEMMA FlushStep ==
    ASSUME Inv, FlushTake \/ FlushWrite
    PROVE  Inv' /\ NobodyLeaves
<1>1. CASE FlushTake
  <2>1. CASE flush.at > Len(tab)
    <3>1. UNCHANGED tab /\ pc' = "idle" /\ flush' = NoFlush
      BY <1>1, <2>1 DEF FlushTake
    <3>2. TypeOK'
      BY <1>1, <3>1, SameTable DEF FlushTake, Inv, TypeOK, NoFlush, NoneOr
    <3>3. Writable' /\ ReadAheadOK' /\ FlushOK' /\ UserOK'
      BY <1>1, <3>1 DEF FlushTake, Inv, Writable, ReadAheadOK, FlushOK, UserOK, Placed
    <3> QED
      BY <3>1, <3>2, <3>3, SameTable DEF Inv
  <2>2. CASE ~(flush.at > Len(tab)) /\ tab[flush.at].dirty
    <3>1. flush.at \in DOMAIN tab
      BY <1>1, <2>2, EntriesOfTab DEF FlushTake, Inv, FlushOK, TypeOK
    <3> DEFINE d == [tab[flush.at] EXCEPT !.dirty = FALSE]
    <3>2. d \in Entry /\ d.key = tab[flush.at].key /\ Copy(tab[flush.at]) \in Snapshot
      BY <3>1, EntriesOfTab, CopyIsSnapshot DEF Entry
    <3>3. /\ tab' = [tab EXCEPT ![flush.at] = d] /\ pc' = "flushWrite"
          /\ flush' = [flush EXCEPT !.snap = Copy(tab[flush.at])]
      BY <1>1, <2>2 DEF FlushTake
    <3>4. tab' \in Seq(Entry) /\ OneEntryPerDevice' /\ NobodyLeaves
      <4> HIDE DEF d
      <4> QED
        BY <3>1, <3>2, <3>3, ChangedEntry
    <3>5. TypeOK' /\ flush'.snap \in Snapshot /\ flush'.at = flush.at
      BY <1>1, <3>2, <3>3, <3>4 DEF FlushTake, Inv, TypeOK, NoneOr
    <3>6. Writable' /\ ReadAheadOK' /\ FlushOK' /\ UserOK'
      BY <1>1, <3>3, <3>5 DEF FlushTake, Inv, Writable, ReadAheadOK, FlushOK, UserOK, Placed
    <3> QED
      BY <3>4, <3>5, <3>6 DEF Inv
  <2>3. CASE ~(flush.at > Len(tab)) /\ ~tab[flush.at].dirty
    <3>1. UNCHANGED <<tab, pc>> /\ flush' = [flush EXCEPT !.at = @ + 1]
      BY <1>1, <2>3 DEF FlushTake
    <3>2. TypeOK' /\ flush'.at > 0
      BY <1>1, <3>1, SameTable DEF FlushTake, Inv, TypeOK, FlushOK
    <3>3. Writable' /\ ReadAheadOK' /\ FlushOK' /\ UserOK'
      BY <1>1, <3>1, <3>2 DEF FlushTake, Inv, Writable, ReadAheadOK, FlushOK, UserOK, Placed
    <3> QED
      BY <3>1, <3>2, <3>3, SameTable DEF Inv
  <2> QED
    BY <2>1, <2>2, <2>3
<1>2. CASE FlushWrite
  <2>1. reg' \in [Key -> NoneOr(Payload)]
    BY <1>2, StoreKeepsType DEF FlushWrite, Inv, TypeOK, Writable
  <2>2. TypeOK' /\ flush'.at > 0
    BY <1>2, <2>1, SameTable DEF FlushWrite, Inv, TypeOK, FlushOK, NoneOr
  <2>3. Writable' /\ ReadAheadOK' /\ FlushOK' /\ UserOK'
    BY <1>2, <2>2 DEF FlushWrite, Inv, Writable, ReadAheadOK, FlushOK, UserOK, Placed
  <2> QED
    BY <1>2, <2>2, <2>3, SameTable DEF FlushWrite, Inv
<1> QED
  BY <1>1, <1>2

(* A name is found.                                                         *)
LEMMA DiscoveryStep ==
    ASSUME Inv, NEW k \in Key, NEW r \in Name, SetHostname(k, r)
    PROVE  Inv' /\ NobodyLeaves
<1> DEFINE i == IndexIn(tab, k)
           d == IF r >= tab[i].src THEN [tab[i] EXCEPT !.name = r, !.src = r] ELSE tab[i]
           e == [d EXCEPT !.dirty = TRUE]
<1>1. i \in DOMAIN tab /\ tab[i] \in Entry
  BY IndexInTable, EntriesOfTab DEF SetHostname
<1>2. d \in Entry /\ d.key = tab[i].key
  BY <1>1 DEF Entry
<1>3. e \in Entry /\ e.key = tab[i].key /\ d.name \in Name
  <2> HIDE DEF d
  <2> QED
    BY <1>2 DEF Entry
<1>4. /\ tab' = [tab EXCEPT ![i] = e]
      /\ known' = [known EXCEPT ![k] = IF d.name > @ THEN d.name ELSE @]
      /\ UNCHANGED <<reg, scannerVars, user, watched>>
  BY DEF SetHostname
<1> HIDE DEF i, d, e
<1>5. tab' \in Seq(Entry) /\ OneEntryPerDevice' /\ NobodyLeaves
  BY <1>1, <1>3, <1>4, ChangedEntry
<1>6. TypeOK'
  BY <1>3, <1>4, <1>5 DEF Inv, TypeOK, scannerVars
<1>7. Writable' /\ ReadAheadOK' /\ FlushOK' /\ UserOK'
  BY <1>4 DEF scannerVars, Inv, Writable, ReadAheadOK, FlushOK, UserOK, Placed, Id
<1> QED
  BY <1>5, <1>6, <1>7 DEF Inv

(* The requests of users that touch the table, ...                          *)
LEMMA RenameStep ==
    ASSUME Inv, NEW k \in Key, NEW n \in Nick \cup {NoNick}, Rename(k, n)
    PROVE  Inv' /\ NobodyLeaves
<1>1. CASE IsActive(tab, k)
  <2> DEFINE i == IndexIn(tab, k)
             d == [tab[i] EXCEPT !.nick = n, !.dirty = FALSE]
  <2>1. i \in DOMAIN tab /\ tab[i] \in Entry
    BY <1>1, IndexInTable, EntriesOfTab
  <2>2. d \in Entry /\ d.key = tab[i].key
    BY <2>1 DEF Entry
  <2>3. /\ tab' = [tab EXCEPT ![i] = d]
        /\ user' = [op |-> "write", key |-> k, nick |-> n, snap |-> Copy(d)]
        /\ UNCHANGED <<reg, scannerVars, known, watched>>
    BY <1>1 DEF Rename
  <2> HIDE DEF i, d
  <2>4. tab' \in Seq(Entry) /\ OneEntryPerDevice' /\ NobodyLeaves
    BY <2>1, <2>2, <2>3, ChangedEntry
  <2>5. user' \in Request /\ user'.snap \in Snapshot
    BY <2>2, <2>3, CopyIsSnapshot DEF Request, NoneOr
  <2>6. TypeOK'
    BY <2>3, <2>4, <2>5 DEF Inv, TypeOK, scannerVars, NoneOr
  <2>7. Writable' /\ ReadAheadOK' /\ FlushOK' /\ UserOK'
    BY <2>3, <2>5 DEF scannerVars, Inv, Writable, ReadAheadOK, FlushOK, UserOK, Placed, Id
  <2> QED
    BY <2>4, <2>6, <2>7 DEF Inv
<1>2. CASE ~IsActive(tab, k)
  <2>1. /\ UNCHANGED tab /\ UNCHANGED <<reg, scannerVars, known, watched>>
        /\ user' = [op |-> "edit", key |-> k, nick |-> n, snap |-> NoRec]
    BY <1>2 DEF Rename
  <2>2. TypeOK'
    BY <2>1, SameTable DEF Inv, TypeOK, scannerVars, NoneOr, Request
  <2>3. Writable' /\ ReadAheadOK' /\ FlushOK' /\ UserOK'
    BY <2>1 DEF scannerVars, Inv, Writable, ReadAheadOK, FlushOK, UserOK, Placed, Id
  <2> QED
    BY <2>1, <2>2, <2>3, SameTable DEF Inv
<1> QED
  BY <1>1, <1>2

(* ... the one that takes a device out of it, ...                           *)
LEMMA ForgetStep ==
    ASSUME Inv, NEW k \in Key, Forget(k)
    PROVE  Inv' /\ NobodyLeaves
<1>1. CASE IsActive(tab, k)
  <2> DEFINE i == IndexIn(tab, k)
  <2>1. i \in DOMAIN tab /\ tab[i].key = k
    BY <1>1, IndexInTable
  <2>2. /\ tab' = Dropped(tab, i)
        /\ user' = [op |-> "erase", key |-> k, nick |-> NoNick, snap |-> NoRec]
        /\ watched' = [m \in Mac |-> watched[m] /\ m # k]
        /\ known' = [known EXCEPT ![k] = 0]
        /\ UNCHANGED <<reg, scannerVars>>
    BY <1>1 DEF Forget
  <2> HIDE DEF i
  <2>3. Good(tab') /\ \A j \in DOMAIN tab \ {i} : \E l \in DOMAIN tab' : tab'[l] = tab[j]
    <3>1. Good(tab)
      BY InvTab DEF Inv
    <3>2. /\ Good(Dropped(tab, i))
          /\ \A j \in DOMAIN tab \ {i} :
                \E l \in DOMAIN Dropped(tab, i) : Dropped(tab, i)[l] = tab[j]
      BY <2>1, <3>1, DroppedIsGood
    <3> QED
      BY <2>2, <3>2
  <2>4. NobodyLeaves
    <3> SUFFICES ASSUME NEW j \in DOMAIN tab, ~IsActive(tab', tab[j].key)
                 PROVE  Forget(tab[j].key)
      BY DEF NobodyLeaves
    <3>1. j = i
      BY <2>3 DEF IsActive
    <3> QED
      BY <2>1, <3>1
  <2>5. TypeOK' /\ OneEntryPerDevice'
    BY <2>2, <2>3, Zeros DEF Inv, TypeOK, scannerVars, NoneOr, Request, Good, OneEntryPerDevice
  <2>6. Writable' /\ ReadAheadOK' /\ FlushOK' /\ UserOK'
    BY <2>2 DEF scannerVars, Inv, Writable, ReadAheadOK, FlushOK, UserOK, Placed, Id
  <2> QED
    BY <2>4, <2>5, <2>6 DEF Inv
<1>2. CASE ~IsActive(tab, k)
  <2>1. /\ UNCHANGED tab /\ UNCHANGED <<reg, scannerVars, known, watched>>
        /\ user' = [op |-> "lookup", key |-> k, nick |-> NoNick, snap |-> NoRec]
    BY <1>2 DEF Forget
  <2>2. TypeOK'
    BY <2>1, SameTable DEF Inv, TypeOK, scannerVars, NoneOr, Request
  <2>3. Writable' /\ ReadAheadOK' /\ FlushOK' /\ UserOK'
    BY <2>1 DEF scannerVars, Inv, Writable, ReadAheadOK, FlushOK, UserOK, Placed, Id
  <2> QED
    BY <2>1, <2>2, <2>3, SameTable DEF Inv
<1> QED
  BY <1>1, <1>2

(* ... and what they leave to be done in the register.                      *)
LEMMA RequestStep ==
    ASSUME Inv,
           \/ \E k \in Key : Ensure(k)
           \/ RenameWrite \/ RenameEdit \/ ForgetLookup \/ ForgetErase \/ EnsureWrite
    PROVE  Inv' /\ NobodyLeaves
<1>1. CASE \E k \in Key : Ensure(k)
  <2> PICK k \in Key : Ensure(k)
    BY <1>1
  <2>1. TypeOK'
    BY SameTable DEF Ensure, Inv, TypeOK, scannerVars, NoneOr, Request
  <2>2. Writable' /\ ReadAheadOK' /\ FlushOK' /\ UserOK'
    BY DEF Ensure, scannerVars, Inv, Writable, ReadAheadOK, FlushOK, UserOK, Placed, Id
  <2> QED
    BY <2>1, <2>2, SameTable DEF Ensure, Inv
<1>2. ASSUME user # NoRec, UNCHANGED tab, UNCHANGED scannerVars,
             reg' \in [Key -> NoneOr(Payload)], user' \in NoneOr(Request),
             user' # NoRec => user'.op # "write", watched' = watched, known' \in [Key -> Name]
      PROVE  Inv' /\ NobodyLeaves
  <2>1. TypeOK'
    BY <1>2, SameTable DEF Inv, TypeOK, scannerVars
  <2>2. Writable' /\ ReadAheadOK' /\ FlushOK' /\ UserOK'
    BY <1>2 DEF scannerVars, Inv, Writable, ReadAheadOK, FlushOK, UserOK, Placed, Id
  <2> QED
    BY <1>2, <2>1, <2>2, SameTable DEF Inv
<1>3. /\ reg \in [Key -> NoneOr(Payload)] /\ known \in [Key -> Name]
      /\ user # NoRec => user \in Request /\ user.key \in Key
  BY DEF Inv, TypeOK, NoneOr, Request
<1>4. CASE RenameWrite
  <2>1. reg' \in [Key -> NoneOr(Payload)]
    BY <1>3, <1>4, StoreKeepsType DEF RenameWrite, Inv, UserOK
  <2> QED
    BY <1>2, <1>3, <1>4, <2>1 DEF RenameWrite, NoneOr
<1>5. CASE RenameEdit
  <2>1. reg' \in [Key -> NoneOr(Payload)]
    <3>1. CASE reg[user.key] = NoRec
      BY <1>3, <1>5, <3>1 DEF RenameEdit
    <3>2. CASE reg[user.key] # NoRec
      <4>1. [reg[user.key] EXCEPT !.nick = user.nick] \in Payload
        BY <1>3, <1>5, <3>2 DEF RenameEdit, NoneOr, Payload, Request
      <4>2. Store!Write(user.key, [reg[user.key] EXCEPT !.nick = user.nick])
        BY <1>5, <3>2 DEF RenameEdit, Store!Write
      <4> QED
        BY <1>3, <1>5, <4>1, <4>2, WriteKeepsType DEF RenameEdit
    <3> QED
      BY <3>1, <3>2
  <2> QED
    BY <1>2, <1>3, <1>5, <2>1 DEF RenameEdit, NoneOr
<1>6. CASE ForgetLookup
  <2>1. user' \in NoneOr(Request) /\ (user' # NoRec => user'.op # "write")
    BY <1>3, <1>6 DEF ForgetLookup, NoneOr, Request
  <2> QED
    BY <1>2, <1>3, <1>6, <2>1 DEF ForgetLookup
<1>7. CASE ForgetErase
  <2>1. reg' \in [Key -> NoneOr(Payload)] /\ known' \in [Key -> Name]
    BY <1>3, <1>7, Zeros DEF ForgetErase, Store!Erase, NoneOr
  <2> QED
    BY <1>2, <1>7, <2>1 DEF ForgetErase, NoneOr
<1>8. CASE EnsureWrite
  <2>1. reg' \in [Key -> NoneOr(Payload)]
    <3> PICK e \in Imports :
                UNCHANGED reg \/ Store!Write(e.key, Imported(e)) \/ Store!Refuse(e.key)
      BY <1>8 DEF EnsureWrite
    <3>1. e.key \in Key /\ Imported(e) \in Payload
      BY ImportedIsPayload
    <3> QED
      BY <1>3, <3>1, WriteKeepsType
  <2> QED
    BY <1>2, <1>3, <1>8, <2>1 DEF EnsureWrite, NoneOr
<1> QED
  BY <1>1, <1>4, <1>5, <1>6, <1>7, <1>8

(* What a boot loads fits, and is loaded once.                              *)
LEMMA RestartStep ==
    ASSUME Inv, Restart
    PROVE  Inv' /\ NobodyLeaves
<1>1. reg \in [Key -> NoneOr(Payload)] /\ UNCHANGED reg
  BY DEF Inv, TypeOK, Restart
<1> DEFINE n == IF Cardinality(Store!Remembered) < BootActive
                THEN Cardinality(Store!Remembered) ELSE BootActive
<1>2. n \in Nat /\ n <= MaxActive
  <2>1. IsFiniteSet(Key)
    BY FiniteAssumption, FS_Product, FS_Union DEF Key
  <2>2. Cardinality(Store!Remembered) \in Nat
    BY <2>1, FS_Subset, FS_CardinalityType DEF Store!Remembered
  <2> QED
    BY <2>2, SizeAssumption
<1>3. PICK f \in [1 .. n -> Store!Remembered] :
         /\ \A i, j \in 1 .. n : f[i] = f[j] => i = j
         /\ tab' = [i \in 1 .. n |-> FromRecord(f[i], reg[f[i]])]
  BY DEF Restart, Loaded
<1> HIDE DEF n
<1>4. ASSUME NEW i \in 1 .. n
      PROVE  tab'[i] \in Entry /\ tab'[i].key = f[i]
  <2>1. f[i] \in Key /\ reg[f[i]] \in Payload
    BY <1>1, <1>3 DEF Store!Remembered, NoneOr
  <2> QED
    BY <1>3, <2>1, FromRecordIsEntry
<1>5. tab' \in Seq(Entry) /\ DOMAIN tab' = 1 .. n
  <2>1. tab' \in [1 .. n -> Entry]
    BY <1>3, <1>4
  <2> QED
    BY <1>2, <2>1, SeqDef
<1>6. Len(tab') = n
  BY <1>2, <1>5, LenProperties
<1>7. OneEntryPerDevice'
  BY <1>2, <1>3, <1>4, <1>5, <1>6 DEF OneEntryPerDevice
<1>8. known' \in [Key -> Name]
  <2>1. \A k \in Key : (IF reg[k] = NoRec THEN 0 ELSE reg[k].name) \in Name
    BY <1>1, Zeros DEF NoneOr, Payload
  <2> QED
    BY <2>1 DEF Restart
<1>9. TypeOK'
  BY <1>1, <1>5, <1>8 DEF Restart, TypeOK, NoSight, NoJob, NoFlush, Job, NoneOr
<1>10. Writable' /\ ReadAheadOK' /\ FlushOK' /\ UserOK'
  BY DEF Restart, Writable, ReadAheadOK, FlushOK, UserOK, NoJob
<1>11. NobodyLeaves
  BY DEF NobodyLeaves
<1> QED
  BY <1>7, <1>9, <1>10, <1>11 DEF Inv

(* A sighting keeps everyone who is around.                                 *)
LEMMA ApplyStep ==
    ASSUME Inv, Apply
    PROVE  Inv' /\ NobodyLeaves
<1>1. Inv' /\ Keeps(tab, tab')
  BY ApplyFacts
<1> QED
  BY <1>1 DEF Keeps, Online, IsActive, NobodyLeaves

-----------------------------------------------------------------------------
(* The theorems *)

(* An empty table satisfies the invariant.                                  *)
LEMMA InvInit ==
    ASSUME Init
    PROVE  Inv
<1>1. TypeOK
  BY Zeros DEF Init, TypeOK, Store!RegisterInit, NoSight, NoJob, NoFlush, Job, NoneOr
<1>2. OneEntryPerDevice
  BY SizeAssumption DEF Init, OneEntryPerDevice
<1> QED
  BY <1>1, <1>2 DEF Init, Inv, Writable, ReadAheadOK, FlushOK, UserOK, NoJob

(* Every step preserves it, and nobody who is around leaves.                *)
LEMMA InvNext ==
    ASSUME Inv, Next
    PROVE  Inv' /\ NobodyLeaves
<1>1. CASE Scanner
  BY <1>1, SightingStep, ApplyStep, WriteStep, SweepStep, FlushStep DEF Scanner
<1>2. CASE Discovery
  BY <1>2, DiscoveryStep DEF Discovery
<1>3. CASE HttpServer
  BY <1>3, RenameStep, ForgetStep, RequestStep DEF HttpServer
<1> QED
  BY <1>1, <1>2, <1>3, RestartStep DEF Next

(* So does a step that changes nothing.                                     *)
LEMMA InvStutter ==
    ASSUME Inv, UNCHANGED vars
    PROVE  Inv'
<1>1. TypeOK' /\ OneEntryPerDevice'
  BY DEF vars, scannerVars, Inv, TypeOK, OneEntryPerDevice
<1>2. Writable' /\ ReadAheadOK' /\ FlushOK' /\ UserOK'
  BY DEF vars, scannerVars, Inv, Writable, ReadAheadOK, FlushOK, UserOK, Placed, Id
<1> QED
  BY <1>1, <1>2 DEF Inv

(* Whatever sightings, names, requests and reboots come, and whichever      *)
(* steps of other tasks fall in between, the table in RAM fits its array    *)
(* and has no device twice; and every copy a task carries across the gap    *)
(* between the lock and the register is one of a device.                    *)
THEOREM TableSound == Spec => [](TypeOK /\ OneEntryPerDevice)
<1>1. Init => Inv
  BY InvInit
<1>2. Inv /\ [Next]_vars => Inv'
  BY InvNext, InvStutter
<1>3. Inv => TypeOK /\ OneEntryPerDevice
  BY DEF Inv
<1> QED
  BY <1>1, <1>2, <1>3, PTL DEF Spec

(* No step makes way for a newcomer, splits an entry off or moves entries   *)
(* about at the expense of a device that is around.                         *)
THEOREM NobodyAroundLeaves == Spec => OnlineStays
<1>1. Init => Inv
  BY InvInit
<1>2. Inv /\ [Next]_vars => Inv'
  BY InvNext, InvStutter
<1>3. Inv /\ [Next]_vars => [NobodyLeaves]_vars
  BY InvNext
<1> QED
  BY <1>1, <1>2, <1>3, PTL DEF Spec, OnlineStays, NobodyLeaves

-----------------------------------------------------------------------------
(* Devices split off a shared MAC stay where their keys say *)

(* Keys that say nothing: of a MAC, and those imports may have put elsewhere. *)
Loose(k) == k \in Mac \/ ~BroughtHome(k, k[1], k[2])

RightMac(k, h)  == Loose(k) \/ h = k[1]
RightIp(k, a)   == Loose(k) \/ a = k[2]
Pinned(k, h, a) == RightMac(k, h) /\ RightIp(k, a)

(* A device, in whatever form a task holds it, that is where its key says.  *)
AtHome(d) == Pinned(d.key, d.hw, d.ip)

TabAtHome(t) == \A i \in DOMAIN t : AtHome(t[i])

RegAtHome == \A k \in Key : reg[k] # NoRec => Pinned(k, reg[k].hw, reg[k].ip)

(* What the tasks carry is too; NoRec is what they do not carry.            *)
CarriedAtHome ==
    /\ pre # NoRec => Pinned(pre.key, pre.rec.hw, pre.rec.ip)
    /\ job.demoted # NoRec \/ pc = "demoted" => AtHome(job.demoted)
    /\ job.primary # NoRec \/ pc = "primary" => AtHome(job.primary)
    /\ job.snap # NoRec \/ pc = "persist" => AtHome(job.snap)
    /\ pc = "full" \/ (pc = "demoted" /\ job.full) => Pinned(job.key, job.hw, sight.ip)
    /\ pc = "flushWrite" => AtHome(flush.snap)
    /\ user # NoRec => (user.op = "write" => AtHome(user.snap))

AllAtHome == TabAtHome(tab) /\ RegAtHome /\ CarriedAtHome

(* A record written for a device at home leaves every record at home.       *)
LEMMA WriteAtHome ==
    ASSUME reg \in [Key -> NoneOr(Payload)], RegAtHome, NEW k \in Key, NEW p \in Payload,
           Pinned(k, p.hw, p.ip), Store!Write(k, p) \/ Store!Refuse(k)
    PROVE  RegAtHome'
BY DEF RegAtHome, Store!Write, Store!Refuse, Store!Replace, Store!Add,
       Store!AddEvicting, Store!Evictable, Store!Remembered

(* So does a copy written back.                                             *)
LEMMA StoreAtHome ==
    ASSUME reg \in [Key -> NoneOr(Payload)], RegAtHome, NEW d \in Snapshot, AtHome(d),
           StoreDevice(d)
    PROVE  RegAtHome'
<1>1. d.key \in Key
  BY DEF Snapshot
<1>2. Merged(reg[d.key], d) \in Payload
  BY <1>1, MergedIsPayload
<1>3. Merged(reg[d.key], d).ip = d.ip /\ Merged(reg[d.key], d).hw = d.hw
  BY DEF Merged
<1> QED
  BY <1>1, <1>2, <1>3, WriteAtHome DEF StoreDevice, AtHome

(* Entries that keep their key and address stay at home.                    *)
LEMMA SameAddresses ==
    ASSUME NEW t, TabAtHome(t), NEW u, DOMAIN u = DOMAIN t,
           \A i \in DOMAIN t : u[i].key = t[i].key /\ u[i].hw = t[i].hw /\ u[i].ip = t[i].ip
    PROVE  TabAtHome(u)
BY DEF TabAtHome, AtHome

(* One that changes does if it is at home then.                             *)
LEMMA ReplacedAtHome ==
    ASSUME NEW t, TabAtHome(t), NEW i \in DOMAIN t, NEW d, AtHome(d)
    PROVE  TabAtHome([t EXCEPT ![i] = d])
BY DEF TabAtHome

(* One less.                                                                *)
LEMMA DroppedAtHome ==
    ASSUME NEW t, Good(t), TabAtHome(t), NEW i \in DOMAIN t
    PROVE  TabAtHome(Dropped(t, i))
<1>1. t \in Seq(Entry) /\ Len(t) \in Nat /\ DOMAIN t = 1 .. Len(t)
  BY SeqFacts DEF Good
<1>2. DOMAIN Dropped(t, i) = 1 .. (Len(t) - 1)
  BY <1>1 DEF Dropped
<1>3. ASSUME NEW j \in 1 .. (Len(t) - 1)
      PROVE  \E l \in DOMAIN t : Dropped(t, i)[j] = t[l]
  <2>1. Dropped(t, i)[j] = t[IF j = i THEN Len(t) ELSE j]
    BY <1>1, <1>2, <1>3 DEF Dropped
  <2>2. (IF j = i THEN Len(t) ELSE j) \in DOMAIN t
    BY <1>1, <1>3
  <2> QED
    BY <2>1, <2>2
<1> QED
  BY <1>2, <1>3 DEF TabAtHome

(* When room is made, whoever makes way and whoever was there is at home.   *)
LEMMA RoomsAtHome ==
    ASSUME NEW t, Good(t), TabAtHome(t), NEW e \in Entry, NEW r \in Rooms(t, e)
    PROVE  /\ \A j \in DOMAIN r.tab : r.tab[j] = e \/ AtHome(r.tab[j])
           /\ r.demoted # NoRec => AtHome(r.demoted)
<1>1. ASSUME NEW u, Good(u), TabAtHome(u), NEW j \in DOMAIN Append(u, e)
      PROVE  Append(u, e)[j] = e \/ AtHome(Append(u, e)[j])
  <2>1. u \in Seq(Entry) /\ Len(u) \in Nat /\ DOMAIN u = 1 .. Len(u)
    BY <1>1, SeqFacts DEF Good
  <2>2. /\ Len(Append(u, e)) = Len(u) + 1 /\ DOMAIN Append(u, e) = 1 .. (Len(u) + 1)
        /\ Append(u, e)[Len(u) + 1] = e /\ \A i \in 1 .. Len(u) : Append(u, e)[i] = u[i]
    BY <2>1, AppendProperties, LenProperties
  <2>3. j = Len(u) + 1 \/ j \in DOMAIN u
    BY <1>1, <2>1, <2>2
  <2> QED
    BY <1>1, <2>1, <2>2, <2>3 DEF TabAtHome
<1>2. CASE Len(t) < MaxActive
  <2>1. r.tab = Append(t, e) /\ r.demoted = NoRec
    BY <1>2 DEF Rooms
  <2> QED
    BY <1>1, <2>1
<1>3. CASE ~(Len(t) < MaxActive)
  <2>1. PICK i \in Victims(t) : r.tab = Append(Dropped(t, i), e) /\ r.demoted = Copy(t[i])
    BY <1>3 DEF Rooms
  <2>2. i \in DOMAIN t
    BY DEF Victims, Absentees
  <2>3. Good(Dropped(t, i)) /\ TabAtHome(Dropped(t, i))
    BY <2>2, DroppedIsGood, DroppedAtHome
  <2>4. AtHome(r.demoted)
    BY <2>1, <2>2 DEF TabAtHome, AtHome, Copy
  <2> QED
    BY <1>1, <2>1, <2>3, <2>4
<1> QED
  BY <1>2, <1>3

(* A remembered device is brought back at home.                             *)
LEMMA PromotedAtHome ==
    ASSUME Good(tab), TypeOK, AllAtHome, NEW s \in Promoted
    PROVE  TabAtHome(s.tab) /\ (s.demoted # NoRec => AtHome(s.demoted))
<1> DEFINE rooms == Rooms(tab, FromRecord(pre.key, pre.rec))
<1>1. CASE s = [tab |-> tab, demoted |-> NoRec, at |-> InHand]
  BY <1>1 DEF AllAtHome
<1>2. CASE pre # NoRec
           /\ \E r \in rooms : s = [tab |-> r.tab, demoted |-> r.demoted, at |-> pre.key]
  <2>1. PICK r \in rooms : s = [tab |-> r.tab, demoted |-> r.demoted, at |-> pre.key]
    BY <1>2
  <2>2. pre.key \in Key /\ pre.rec \in Payload /\ Pinned(pre.key, pre.rec.hw, pre.rec.ip)
    BY <1>2 DEF TypeOK, NoneOr, AllAtHome, CarriedAtHome
  <2> DEFINE e == FromRecord(pre.key, pre.rec)
  <2>3. e \in Entry /\ AtHome(e)
    BY <2>2, FromRecordIsEntry DEF AtHome, FromRecord
  <2>4. r \in Rooms(tab, e) /\ TabAtHome(tab)
    BY DEF AllAtHome
  <2> HIDE DEF e
  <2>5. /\ \A j \in DOMAIN r.tab : r.tab[j] = e \/ AtHome(r.tab[j])
        /\ r.demoted # NoRec => AtHome(r.demoted)
    BY <2>3, <2>4, RoomsAtHome
  <2> QED
    BY <2>1, <2>3, <2>5 DEF TabAtHome
<1> QED
  BY <1>1, <1>2 DEF Promoted

(* Declaring its MAC shared moves no device.                                *)
LEMMA DeclaredAtHome ==
    ASSUME NEW s, TabAtHome(s.tab), NEW v, v = "shared" => IsActive(s.tab, s.at)
    PROVE  TabAtHome(Declared(s, v))
<1>1. CASE v # "shared"
  BY <1>1 DEF Declared
<1>2. CASE v = "shared"
  <2> DEFINE i == IndexIn(s.tab, s.at)
             d == [s.tab[i] EXCEPT !.shared = TRUE, !.name = 0, !.src = 0]
  <2>1. i \in DOMAIN s.tab
    BY <1>2, IndexInTable
  <2>2. Declared(s, v) = [s.tab EXCEPT ![i] = d]
    BY <1>2 DEF Declared
  <2>3. AtHome(d)
    BY <2>1 DEF TabAtHome, AtHome
  <2> HIDE DEF i, d
  <2> QED
    BY <2>1, <2>2, <2>3, ReplacedAtHome
<1> QED
  BY <1>1, <1>2

(* What a sighting leaves to be written is at home.                         *)
LEMMA LeaveAtHome ==
    ASSUME NEW j \in Job, Leave(j), pre' = NoRec,
           UNCHANGED <<sight, user>>, user # NoRec => (user.op = "write" => AtHome(user.snap)),
           j.demoted # NoRec => AtHome(j.demoted), j.primary # NoRec => AtHome(j.primary),
           j.snap # NoRec => AtHome(j.snap), j.full => Pinned(j.key, j.hw, sight.ip)
    PROVE  CarriedAtHome'
BY DEF Leave, AfterDemoted, CarriedAtHome, AtHome

(* The update of an entry: of the table, only this entry may not yet be     *)
(* where its key says; the sighting puts it there.                          *)
LEMMA SettleAtHome ==
    ASSUME Placed, NEW t, Good(t), NEW k \in {Id, sight.mac}, IsActive(t, k),
           NEW v, NEW fresh \in BOOLEAN,
           \A j \in DOMAIN t : t[j].key = k \/ AtHome(t[j]), v = "stale" => TabAtHome(t),
           \A j \in DOMAIN t : RightMac(t[j].key, t[j].hw),
           NEW demoted \in NoneOr(Snapshot), demoted # NoRec => AtHome(demoted),
           NEW primary \in NoneOr(Snapshot), primary # NoRec => AtHome(primary),
           Settle(t, k, demoted, primary, v, fresh), pre' = NoRec, UNCHANGED <<sight, user>>,
           user # NoRec => (user.op = "write" => AtHome(user.snap))
    PROVE  TabAtHome(tab') /\ CarriedAtHome'
<1> DEFINE i == IndexIn(t, k)
           d == Touched(t[i], v)
<1>1. i \in DOMAIN t /\ t[i].key = k /\ k \in Key
  BY IndexInTable, KeyFacts
<1>2. t[i] \in Entry
  BY <1>1, SeqFacts DEF Good
<1>3. /\ d \in Entry /\ d.key = k /\ d.hw = t[i].hw
      /\ d.ip = IF v = "stale" THEN t[i].ip ELSE sight.ip
  BY <1>1, <1>2, Zeros DEF Touched, Entry, Placed
<1>4. RightIp(k, sight.ip)
  BY DEF RightIp, Loose, Placed, Id, SharedId
<1>5. AtHome(d)
  BY <1>1, <1>3, <1>4 DEF AtHome, TabAtHome, Pinned
<1> PICK dated \in BOOLEAN :
        /\ tab' = [t EXCEPT ![i] = d]
        /\ Leave([NoJob EXCEPT
                    !.key = k, !.demoted = demoted, !.primary = primary,
                    !.snap = IF fresh \/ dated THEN Copy(d) ELSE NoRec,
                    !.inserted = fresh, !.wasKnown = reg[k] # NoRec])
  BY DEF Settle
<1> DEFINE w == [NoJob EXCEPT
                    !.key = k, !.demoted = demoted, !.primary = primary,
                    !.snap = IF fresh \/ dated THEN Copy(d) ELSE NoRec,
                    !.inserted = fresh, !.wasKnown = reg[k] # NoRec]
<1>6. Copy(d) \in Snapshot /\ AtHome(Copy(d))
  BY <1>3, <1>5, CopyIsSnapshot DEF AtHome, Copy
<1>7. w \in Job
  BY <1>1, <1>6 DEF NoJob, Job, NoneOr
<1>8. /\ w.demoted = demoted /\ w.primary = primary /\ ~w.full
      /\ w.snap # NoRec => AtHome(w.snap)
  BY <1>6 DEF NoJob
<1>9. Leave(w)
  OBVIOUS
<1>10. \A j \in DOMAIN t : j # i => t[j].key # k
  BY <1>1 DEF Good
<1> HIDE DEF i, d, w
<1>11. tab' = [t EXCEPT ![i] = d]
  BY DEF i, d
<1>12. TabAtHome(tab')
  BY <1>1, <1>5, <1>10, <1>11 DEF TabAtHome
<1>13. CarriedAtHome'
  BY <1>7, <1>8, <1>9, LeaveAtHome
<1> QED
  BY <1>12, <1>13

(* The sighting of a newcomer for whom there is no room.                    *)
LEMMA TableFullAtHome ==
    ASSUME Placed, TypeOK, CarriedAtHome, pre # NoRec => pre.key \in {Id, sight.mac},
           NEW t, TabAtHome(t), NEW split \in BOOLEAN,
           NEW demoted \in NoneOr(Snapshot), demoted # NoRec => AtHome(demoted),
           TableFull(t, split, demoted), pre' = NoRec, UNCHANGED <<sight, user>>,
           user # NoRec => (user.op = "write" => AtHome(user.snap))
    PROVE  TabAtHome(tab') /\ CarriedAtHome'
<1> DEFINE k == IF pre # NoRec THEN pre.key ELSE IF split THEN Id ELSE sight.mac
           h == IF pre # NoRec THEN pre.rec.hw ELSE sight.mac
           w == [NoJob EXCEPT !.key = k, !.hw = h, !.demoted = demoted, !.full = TRUE,
                              !.split = split]
<1>1. k \in Key /\ k \in {Id, sight.mac} /\ h \in Key
  BY KeyFacts DEF TypeOK, NoneOr, Payload
<1>2. Pinned(k, h, sight.ip)
  <2>1. RightIp(k, sight.ip)
    BY <1>1 DEF RightIp, Loose, Placed, Id, SharedId
  <2>2. RightMac(k, h)
    BY DEF RightMac, Loose, Placed, Id, SharedId, CarriedAtHome, Pinned
  <2> QED
    BY <2>1, <2>2 DEF Pinned
<1> HIDE DEF k, h
<1>3. w \in Job
  BY <1>1 DEF NoJob, Job, NoneOr
<1>4. /\ w.key = k /\ w.hw = h /\ w.demoted = demoted /\ w.primary = NoRec
      /\ w.snap = NoRec
  BY DEF NoJob
<1>5. tab' = t /\ Leave(w)
  BY DEF TableFull, k, h
<1> HIDE DEF w
<1> QED
  BY <1>2, <1>3, <1>4, <1>5, LeaveAtHome

(* The whole of the second locked section.                                  *)
LEMMA ApplyAtHome ==
    ASSUME Inv, AllAtHome, Apply
    PROVE  AllAtHome'
<1>1. Placed /\ TypeOK /\ Good(tab) /\ (pre # NoRec => pre.key \in {Id, sight.mac})
  BY InvTab DEF Inv, Apply, ReadAheadOK
<1> PICK s \in Promoted : \E v \in Verdicts(s) : Resolve(s, v)
  BY DEF Apply
<1> PICK v \in Verdicts(s) : Resolve(s, v)
  OBVIOUS
<1> DEFINE t     == Declared(s, v)
           split == s.at # NoRec /\ Splits(t, s.at)
           k     == IF split THEN Id ELSE sight.mac
           e     == [Blank(k) EXCEPT !.shared = split]
           prim  == IF v = "shared" THEN Copy(t[IndexIn(t, s.at)]) ELSE NoRec
<1>2. /\ Good(s.tab) /\ s.demoted \in NoneOr(Snapshot)
      /\ \/ s.at = NoRec /\ ~IsActive(s.tab, Id) /\ ~IsActive(s.tab, sight.mac)
         \/ s.at = Id /\ IsActive(s.tab, Id)
         \/ s.at = sight.mac /\ IsActive(s.tab, sight.mac) /\ ~IsActive(s.tab, Id)
  BY <1>1, PromotedFacts
<1>3. TabAtHome(s.tab) /\ (s.demoted # NoRec => AtHome(s.demoted))
  BY <1>1, PromotedAtHome
<1>4. /\ Good(t) /\ \A x : IsActive(t, x) <=> IsActive(s.tab, x)
      /\ v = "shared" => s.at = sight.mac /\ IsActive(s.tab, s.at)
  BY <1>1, <1>2, DeclaredFacts
<1>5. TabAtHome(t)
  BY <1>3, <1>4, DeclaredAtHome
<1>6. prim \in NoneOr(Snapshot) /\ (prim # NoRec => AtHome(prim))
  <2>1. CASE v = "shared"
    <3>1. t[IndexIn(t, s.at)] \in Entry /\ AtHome(t[IndexIn(t, s.at)])
      BY <1>4, <1>5, <2>1, IndexInTable, SeqFacts DEF Good, TabAtHome
    <3> QED
      BY <2>1, <3>1, CopyIsSnapshot DEF NoneOr, AtHome, Copy
  <2> QED
    BY <2>1 DEF NoneOr
<1>7. split \in BOOLEAN /\ (split => s.at = sight.mac)
  BY DEF Splits
<1>8. k \in {Id, sight.mac} /\ k \in Key
  BY <1>1, KeyFacts
\* A stale sighting is of a MAC that is not shared, and so never of a new entry.
<1>9. v = "stale" => s.at # NoRec /\ ~split
  <2> SUFFICES ASSUME v = "stale" PROVE s.at # NoRec /\ ~split
    OBVIOUS
  <2>1. Judged(s) /\ t = s.tab
    BY DEF Verdicts, Declared
  <2> QED
    BY <1>1, <2>1, KeyFacts DEF Judged, Splits
<1>10. /\ pre' = NoRec /\ UNCHANGED <<reg, sight, flush, user>> /\ CarriedAtHome
       /\ user # NoRec => (user.op = "write" => AtHome(user.snap))
  BY DEF Apply, AllAtHome, CarriedAtHome
<1>11. TabAtHome(tab') /\ CarriedAtHome'
  <2>1. CASE s.at # NoRec /\ ~split
    <3>1. Settle(t, s.at, s.demoted, prim, v, FALSE)
      BY <2>1 DEF Resolve
    <3>2. s.at \in {Id, sight.mac} /\ IsActive(t, s.at)
      BY <1>2, <1>4, <2>1
    <3> HIDE DEF t, split, k, e, prim
    <3>3. \A j \in DOMAIN t : AtHome(t[j]) /\ RightMac(t[j].key, t[j].hw)
      BY <1>5 DEF TabAtHome, AtHome, Pinned
    <3> QED
      BY <1>1, <1>2, <1>3, <1>4, <1>5, <1>6, <1>10, <3>1, <3>2, <3>3, SettleAtHome
  <2>2. CASE ~(s.at # NoRec /\ ~split) /\ Rooms(t, e) = {}
    <3>1. TableFull(t, split, s.demoted)
      BY <2>2 DEF Resolve
    <3> HIDE DEF t, split, k, e, prim
    <3> QED
      BY <1>1, <1>2, <1>3, <1>5, <1>7, <1>10, <3>1, TableFullAtHome
  <2>3. CASE ~(s.at # NoRec /\ ~split) /\ Rooms(t, e) # {}
    <3>1. PICK r \in Rooms(t, e) :
             Settle([r.tab EXCEPT ![Len(r.tab)].shared = @ \/ HasSibling(r.tab, k)],
                    k, IF r.demoted # NoRec THEN r.demoted ELSE s.demoted, prim, v, TRUE)
      BY <2>3 DEF Resolve
    <3>2. e \in Entry /\ e.key = k
      BY <1>7, <1>8, BlankIsEntry
    <3>3. ~IsActive(t, k)
      BY <1>1, <1>2, <1>4, <1>7, <2>3, KeyFacts
    <3> DEFINE n == Len(r.tab)
               d == [r.tab[n] EXCEPT !.shared = @ \/ HasSibling(r.tab, k)]
               u == [r.tab EXCEPT ![n] = d]
               moved == IF r.demoted # NoRec THEN r.demoted ELSE s.demoted
    <3>4. Settle(u, k, moved, prim, v, TRUE)
      BY <3>1
    <3>5. v # "stale"
      BY <1>9, <2>3
    <3> HIDE DEF t, split, k, e, prim
    <3>6. /\ Good(r.tab) /\ n \in DOMAIN r.tab /\ r.tab[n] = e
          /\ r.demoted \in NoneOr(Snapshot)
      BY <1>4, <3>2, <3>3, RoomsAreGood
    <3>7. /\ \A j \in DOMAIN r.tab : r.tab[j] = e \/ AtHome(r.tab[j])
          /\ r.demoted # NoRec => AtHome(r.demoted)
      BY <1>4, <1>5, <3>2, RoomsAtHome
    <3>8. HasSibling(r.tab, k) \in BOOLEAN
      BY DEF HasSibling
    <3>9. d \in Entry /\ d.key = r.tab[n].key /\ d.key = k /\ d.hw = Hw(k)
      <4>1. d = [e EXCEPT !.shared = @ \/ HasSibling(r.tab, k)]
        BY <3>6
      <4>2. e.hw = Hw(k)
        BY DEF e, Blank
      <4> QED
        BY <3>2, <3>6, <3>8, <4>1, <4>2 DEF Entry
    <3>10. moved \in NoneOr(Snapshot) /\ (moved # NoRec => AtHome(moved))
      BY <1>2, <1>3, <3>6, <3>7
    <3> HIDE DEF n, d, moved
    <3>11. Good(u) /\ DOMAIN u = DOMAIN r.tab /\ u[n] = d
      BY <3>6, <3>9, ReplacedIsGood
    <3>12. \A j \in DOMAIN u : j = n \/ AtHome(u[j])
      <4>1. \A j \in DOMAIN u : j # n => u[j] = r.tab[j]
        BY <3>6, <3>11 DEF u
      <4>2. \A j \in DOMAIN r.tab : r.tab[j] = e => j = n
        BY <3>2, <3>6 DEF Good
      <4> QED
        BY <3>7, <3>11, <4>1, <4>2
    <3>14. RightMac(k, Hw(k))
      BY DEF RightMac, Loose, Hw
    <3>15. \A j \in DOMAIN u : (u[j].key = k \/ AtHome(u[j])) /\ RightMac(u[j].key, u[j].hw)
      BY <3>9, <3>11, <3>12, <3>14 DEF AtHome, Pinned
    <3>13. IsActive(u, k)
      BY <3>6, <3>9, <3>11 DEF IsActive
    <3> HIDE DEF u
    <3> QED
      BY <1>1, <1>6, <1>8, <1>10, <3>4, <3>5, <3>10, <3>11, <3>13, <3>15,
         SettleAtHome
  <2> QED
    BY <2>1, <2>2, <2>3
<1> QED
  BY <1>10, <1>11 DEF AllAtHome, RegAtHome

(* The other steps of the scanner.                                          *)
LEMMA ScannerAtHome ==
    ASSUME Inv, AllAtHome, Scanner
    PROVE  AllAtHome'
<1>1. /\ reg \in [Key -> NoneOr(Payload)] /\ job \in Job
      /\ TabAtHome(tab) /\ RegAtHome /\ CarriedAtHome
  BY DEF Inv, TypeOK, AllAtHome
<1>2. ASSUME UNCHANGED <<tab, reg>>, CarriedAtHome'
      PROVE  AllAtHome'
  BY <1>1, <1>2 DEF AllAtHome, RegAtHome
<1>3. CASE \E m \in Mac, a \in Addr : Sighted(m, a)
  <2> PICK m \in Mac, a \in Addr : Sighted(m, a)
    BY <1>3
  <2> QED
    BY <1>1, <1>2 DEF Sighted, CarriedAtHome
<1>4. CASE ReadId
  <2>1. Id \in Key
    BY <1>4, KeyFacts DEF ReadId, ReadAhead, Inv, ReadAheadOK
  <2>2. CarriedAtHome'
    BY <1>1, <1>4, <2>1 DEF ReadId, ReadAhead, CarriedAtHome, RegAtHome, Id
  <2> QED
    BY <1>2, <1>4, <2>2 DEF ReadId, ReadAhead
<1>5. CASE ReadMac
  <2>1. sight.mac \in Key
    BY <1>5, KeyFacts DEF ReadMac, ReadAhead, Inv, ReadAheadOK
  <2>2. CarriedAtHome'
    BY <1>1, <1>5, <2>1 DEF ReadMac, ReadAhead, CarriedAtHome, RegAtHome
  <2> QED
    BY <1>2, <1>5, <2>2 DEF ReadMac, ReadAhead
<1>6. CASE WriteDemoted
  <2>1. RegAtHome'
    BY <1>1, <1>6, StoreAtHome DEF WriteDemoted, Inv, Writable, CarriedAtHome
  <2>2. CarriedAtHome'
    BY <1>1, <1>6 DEF WriteDemoted, AfterDemoted, CarriedAtHome, Job, NoneOr
  <2> QED
    BY <1>1, <1>6, <2>1, <2>2 DEF WriteDemoted, AllAtHome
<1>7. CASE RegisterOnly
  <2>1. job.key \in Key /\ job.hw \in Key /\ Placed
    BY <1>7 DEF RegisterOnly, Inv, Writable, ReadAheadOK
  <2>2. RegAtHome'
    <3> DEFINE seen == IF reg[job.key] # NoRec
                       THEN [reg[job.key] EXCEPT !.ip = sight.ip]
                       ELSE [hw |-> job.hw, nick |-> NoNick, name |-> 0, src |-> 0,
                             ip |-> sight.ip, shared |-> job.split]
    <3>1. seen \in Payload /\ seen.ip = sight.ip
      BY <1>1, <2>1, Zeros DEF Payload, NoneOr, Placed, Job
    <3>2. Store!Write(job.key, seen) \/ Store!Refuse(job.key)
      BY <1>7 DEF RegisterOnly
    <3>3. Pinned(job.key, job.hw, sight.ip)
      BY <1>1, <1>7 DEF RegisterOnly, CarriedAtHome
    <3>4. RightMac(job.key, seen.hw)
      BY <1>1, <2>1, <3>3 DEF RegAtHome, Pinned, NoneOr, Payload
    <3>5. Pinned(job.key, seen.hw, seen.ip)
      BY <3>1, <3>3, <3>4 DEF Pinned
    <3> HIDE DEF seen
    <3> QED
      BY <1>1, <2>1, <3>1, <3>2, <3>5, WriteAtHome
  <2>3. CarriedAtHome'
    BY <1>1, <1>7 DEF RegisterOnly, CarriedAtHome
  <2> QED
    BY <1>1, <1>7, <2>2, <2>3 DEF RegisterOnly, AllAtHome
<1>8. CASE WritePrimary
  <2>1. RegAtHome'
    BY <1>1, <1>8, StoreAtHome DEF WritePrimary, Inv, Writable, CarriedAtHome
  <2>2. CarriedAtHome'
    BY <1>1, <1>8 DEF WritePrimary, AfterPrimary, CarriedAtHome, Job, NoneOr
  <2> QED
    BY <1>1, <1>8, <2>1, <2>2 DEF WritePrimary, AllAtHome
<1>9. CASE Persist
  <2>1. RegAtHome'
    BY <1>1, <1>9, StoreAtHome DEF Persist, Inv, Writable, CarriedAtHome
  <2>2. CarriedAtHome'
    BY <1>1, <1>9 DEF Persist, CarriedAtHome, Job, NoneOr
  <2> QED
    BY <1>1, <1>9, <2>1, <2>2 DEF Persist, AllAtHome
<1>10. CASE Clean
  <2>1. TabAtHome(tab')
    <3>1. \A i \in DOMAIN tab : /\ tab'[i].key = tab[i].key /\ tab'[i].hw = tab[i].hw
                                /\ tab'[i].ip = tab[i].ip
      BY <1>10 DEF Clean
    <3>2. DOMAIN tab' = DOMAIN tab
      BY <1>10 DEF Clean
    <3> QED
      BY <1>1, <3>1, <3>2, SameAddresses
  <2> QED
    BY <1>1, <1>10, <2>1 DEF Clean, AllAtHome, RegAtHome, CarriedAtHome
<1>11. CASE Announce
  <2>1. CarriedAtHome'
    BY <1>1, <1>11 DEF Announce, CarriedAtHome, NoJob
  <2> QED
    BY <1>2, <1>11, <2>1 DEF Announce
<1>12. ASSUME NEW due \in BOOLEAN, SweepEnd(due)
       PROVE  AllAtHome'
  <2>1. TabAtHome(tab')
    <3>1. \A i \in DOMAIN tab : /\ Aged(tab[i]).key = tab[i].key /\ Aged(tab[i]).hw = tab[i].hw
                                /\ Aged(tab[i]).ip = tab[i].ip
      BY DEF Aged
    <3>2. DOMAIN tab' = DOMAIN tab /\ \A i \in DOMAIN tab : tab'[i] = Aged(tab[i])
      BY <1>12 DEF SweepEnd
    <3> QED
      BY <1>1, <3>1, <3>2, SameAddresses
  <2> QED
    BY <1>1, <1>12, <2>1 DEF SweepEnd, AllAtHome, RegAtHome, CarriedAtHome
<1>13. CASE FlushTake
  <2>1. CASE flush.at > Len(tab)
    BY <1>1, <1>2, <1>13, <2>1 DEF FlushTake, CarriedAtHome
  <2>2. CASE ~(flush.at > Len(tab)) /\ tab[flush.at].dirty
    <3>1. flush.at \in DOMAIN tab
      BY <1>13, <2>2, EntriesOfTab DEF FlushTake, Inv, FlushOK, TypeOK
    <3> DEFINE d == [tab[flush.at] EXCEPT !.dirty = FALSE]
    <3>2. AtHome(d) /\ AtHome(Copy(tab[flush.at]))
      BY <1>1, <3>1 DEF TabAtHome, AtHome, Copy
    <3>3. /\ tab' = [tab EXCEPT ![flush.at] = d] /\ pc' = "flushWrite"
          /\ flush' = [flush EXCEPT !.snap = Copy(tab[flush.at])]
          /\ UNCHANGED <<reg, sight, pre, job, user, known, watched>>
      BY <1>13, <2>2 DEF FlushTake
    <3> HIDE DEF d
    <3>4. TabAtHome(tab')
      BY <1>1, <3>1, <3>2, <3>3, ReplacedAtHome
    <3>5. flush'.snap = Copy(tab[flush.at])
      BY <3>3 DEF Inv, TypeOK
    <3>6. CarriedAtHome'
      BY <1>1, <1>13, <3>2, <3>3, <3>5 DEF FlushTake, CarriedAtHome
    <3> QED
      BY <1>1, <3>3, <3>4, <3>6 DEF AllAtHome, RegAtHome
  <2>3. CASE ~(flush.at > Len(tab)) /\ ~tab[flush.at].dirty
    BY <1>1, <1>2, <1>13, <2>3 DEF FlushTake, CarriedAtHome
  <2> QED
    BY <2>1, <2>2, <2>3
<1>14. CASE FlushWrite
  <2>1. RegAtHome'
    BY <1>1, <1>14, StoreAtHome DEF FlushWrite, Inv, Writable, CarriedAtHome
  <2>2. CarriedAtHome'
    BY <1>1, <1>14 DEF FlushWrite, CarriedAtHome
  <2> QED
    BY <1>1, <1>14, <2>1, <2>2 DEF FlushWrite, AllAtHome
<1> QED
  BY <1>3, <1>4, <1>5, <1>6, <1>7, <1>8, <1>9, <1>10, <1>11, <1>12, <1>13, <1>14, ApplyAtHome
     DEF Scanner

(* A name moves nobody.                                                     *)
LEMMA DiscoveryAtHome ==
    ASSUME Inv, AllAtHome, NEW k \in Key, NEW r \in Name, SetHostname(k, r)
    PROVE  AllAtHome'
<1> DEFINE i == IndexIn(tab, k)
           d == IF r >= tab[i].src THEN [tab[i] EXCEPT !.name = r, !.src = r] ELSE tab[i]
           e == [d EXCEPT !.dirty = TRUE]
<1>1. i \in DOMAIN tab /\ TabAtHome(tab)
  BY IndexInTable DEF SetHostname, AllAtHome
<1>2. AtHome(d)
  BY <1>1 DEF TabAtHome, AtHome
<1>3. AtHome(e)
  BY <1>2 DEF AtHome
<1>4. tab' = [tab EXCEPT ![i] = e] /\ UNCHANGED <<reg, scannerVars, user, watched>>
  BY DEF SetHostname
<1> HIDE DEF i, d, e
<1>5. TabAtHome(tab')
  BY <1>1, <1>3, <1>4, ReplacedAtHome
<1> QED
  BY <1>4, <1>5 DEF AllAtHome, RegAtHome, CarriedAtHome, scannerVars

(* Nor does a user's request; an import that may be believed says what its  *)
(* key does.                                                                *)
LEMMA RequestAtHome ==
    ASSUME Inv, AllAtHome, HttpServer
    PROVE  AllAtHome'
<1>1. /\ reg \in [Key -> NoneOr(Payload)] /\ TabAtHome(tab) /\ RegAtHome /\ CarriedAtHome
      /\ user # NoRec => user \in Request /\ user.key \in Key
  BY DEF Inv, TypeOK, AllAtHome, NoneOr, Request
<1>2. ASSUME UNCHANGED scannerVars, TabAtHome(tab'), RegAtHome',
             user' # NoRec => (user'.op = "write" => AtHome(user'.snap))
      PROVE  AllAtHome'
  BY <1>1, <1>2 DEF scannerVars, AllAtHome, CarriedAtHome
<1>3. ASSUME NEW k \in Key, NEW n \in Nick \cup {NoNick}, Rename(k, n)
      PROVE  AllAtHome'
  <2>1. CASE IsActive(tab, k)
    <3> DEFINE i == IndexIn(tab, k)
               d == [tab[i] EXCEPT !.nick = n, !.dirty = FALSE]
    <3>1. i \in DOMAIN tab
      BY <2>1, IndexInTable
    <3>2. AtHome(d)
      BY <1>1, <3>1 DEF TabAtHome, AtHome
    <3>3. /\ tab' = [tab EXCEPT ![i] = d] /\ UNCHANGED <<reg, scannerVars, known, watched>>
          /\ user' = [op |-> "write", key |-> k, nick |-> n, snap |-> Copy(d)]
      BY <1>3, <2>1 DEF Rename
    <3> HIDE DEF i, d
    <3>4. TabAtHome(tab')
      BY <1>1, <3>1, <3>2, <3>3, ReplacedAtHome
    <3>5. AtHome(user'.snap)
      BY <3>2, <3>3 DEF AtHome, Copy
    <3> QED
      BY <1>1, <1>2, <3>3, <3>4, <3>5 DEF RegAtHome
  <2>2. CASE ~IsActive(tab, k)
    BY <1>1, <1>2, <1>3, <2>2 DEF Rename, RegAtHome
  <2> QED
    BY <2>1, <2>2
<1>4. ASSUME NEW k \in Key, Forget(k)
      PROVE  AllAtHome'
  <2>1. CASE IsActive(tab, k)
    <3>1. IndexIn(tab, k) \in DOMAIN tab /\ Good(tab)
      BY <2>1, IndexInTable, InvTab DEF Inv
    <3>2. TabAtHome(tab')
      BY <1>1, <1>4, <2>1, <3>1, DroppedAtHome DEF Forget
    <3> QED
      BY <1>1, <1>2, <1>4, <2>1, <3>2 DEF Forget, RegAtHome
  <2>2. CASE ~IsActive(tab, k)
    BY <1>1, <1>2, <1>4, <2>2 DEF Forget, RegAtHome
  <2> QED
    BY <2>1, <2>2
<1>5. CASE \E k \in Key : Ensure(k)
  BY <1>1, <1>2, <1>5 DEF Ensure, RegAtHome
<1>6. CASE RenameWrite
  <2>1. RegAtHome'
    BY <1>1, <1>6, StoreAtHome DEF RenameWrite, Inv, UserOK, CarriedAtHome
  <2> QED
    BY <1>1, <1>2, <1>6, <2>1 DEF RenameWrite
<1>7. CASE RenameEdit
  <2>1. RegAtHome'
    <3>1. CASE reg[user.key] = NoRec
      BY <1>1, <1>7, <3>1 DEF RenameEdit, RegAtHome
    <3>2. CASE reg[user.key] # NoRec
      <4> DEFINE p == [reg[user.key] EXCEPT !.nick = user.nick]
      <4>1. p \in Payload /\ p.ip = reg[user.key].ip /\ p.hw = reg[user.key].hw
        BY <1>1, <1>7, <3>2 DEF RenameEdit, NoneOr, Payload, Request
      <4>2. Store!Write(user.key, p)
        BY <1>7, <3>2 DEF RenameEdit, Store!Write
      <4>3. Pinned(user.key, reg[user.key].hw, reg[user.key].ip)
        BY <1>1, <1>7, <3>2 DEF RenameEdit, RegAtHome
      <4> HIDE DEF p
      <4> QED
        BY <1>1, <1>7, <4>1, <4>2, <4>3, WriteAtHome DEF RenameEdit
    <3> QED
      BY <3>1, <3>2
  <2> QED
    BY <1>1, <1>2, <1>7, <2>1 DEF RenameEdit
<1>8. CASE ForgetLookup
  <2>1. user' # NoRec => user'.op # "write"
    BY <1>1, <1>8 DEF ForgetLookup, Request
  <2> QED
    BY <1>1, <1>2, <1>8, <2>1 DEF ForgetLookup, RegAtHome
<1>9. CASE ForgetErase
  <2>1. RegAtHome'
    BY <1>1, <1>9 DEF ForgetErase, Store!Erase, RegAtHome
  <2> QED
    BY <1>1, <1>2, <1>9, <2>1 DEF ForgetErase
<1>10. CASE EnsureWrite
  <2>1. RegAtHome'
    <3> PICK e \in Imports :
                UNCHANGED reg \/ Store!Write(e.key, Imported(e)) \/ Store!Refuse(e.key)
      BY <1>10 DEF EnsureWrite
    <3>1. /\ e \in [key : Key, hw : Key, ip : Addr \cup {NoAddr}]
          /\ e.key \in Key /\ Imported(e) \in Payload
      BY ImportedIsPayload
    <3>2. Pinned(e.key, Imported(e).hw, Imported(e).ip)
      <4>1. CASE Loose(e.key)
        BY <4>1 DEF Pinned, RightMac, RightIp
      <4>2. CASE ~Loose(e.key)
        <5>1. e.key \notin Mac /\ e.hw = e.key[1] /\ e.ip = e.key[2]
          BY <4>2 DEF Loose, BroughtHome
        <5>2. e.hw \in Mac
          BY <3>1, <5>1 DEF Key
        <5>3. Imported(e).hw = e.hw /\ Imported(e).ip = e.ip
          BY <5>1, <5>2 DEF Imported
        <5> QED
          BY <5>1, <5>3 DEF Pinned, RightMac, RightIp
      <4> QED
        BY <4>1, <4>2
    <3>3. CASE UNCHANGED reg
      BY <1>1, <3>3 DEF RegAtHome
    <3> QED
      BY <1>1, <3>1, <3>2, <3>3, WriteAtHome
  <2> QED
    BY <1>1, <1>2, <1>10, <2>1 DEF EnsureWrite
<1> QED
  BY <1>3, <1>4, <1>5, <1>6, <1>7, <1>8, <1>9, <1>10 DEF HttpServer

(* What a boot loads is where the records say.                              *)
LEMMA RestartAtHome ==
    ASSUME Inv, AllAtHome, Restart
    PROVE  AllAtHome'
<1>1. TabAtHome(tab')
  <2> DEFINE n == IF Cardinality(Store!Remembered) < BootActive
                  THEN Cardinality(Store!Remembered) ELSE BootActive
  <2>1. PICK f \in [1 .. n -> Store!Remembered] :
           tab' = [i \in 1 .. n |-> FromRecord(f[i], reg[f[i]])]
    BY DEF Restart, Loaded
  <2> HIDE DEF n
  <2>2. ASSUME NEW i \in 1 .. n
        PROVE  AtHome(tab'[i])
    <3>1. f[i] \in Key /\ reg[f[i]] # NoRec
      BY <2>1 DEF Store!Remembered
    <3>2. Pinned(f[i], reg[f[i]].hw, reg[f[i]].ip)
      BY <3>1 DEF AllAtHome, RegAtHome
    <3> QED
      BY <2>1, <3>2 DEF AtHome, FromRecord
  <2> QED
    BY <2>1, <2>2 DEF TabAtHome
<1>2. RegAtHome'
  BY DEF AllAtHome, RegAtHome, Restart
<1>3. CarriedAtHome'
  BY DEF CarriedAtHome, Restart, NoJob
<1> QED
  BY <1>1, <1>2, <1>3 DEF AllAtHome

(* An address split off a shared MAC keeps its entry and its record at the  *)
(* address its key was made of (shared_id), whichever copies of it are on   *)
(* the way to the register, and through demotions, imports and reboots.     *)
THEOREM SplitStaysHome == Spec => []SplitAtHome
<1>1. Init => Inv /\ AllAtHome
  <2> SUFFICES ASSUME Init PROVE AllAtHome
    BY InvInit
  <2> QED
    BY DEF Init, Store!RegisterInit, NoJob, AllAtHome, TabAtHome, RegAtHome, CarriedAtHome
<1>2. Inv /\ AllAtHome /\ [Next]_vars => Inv' /\ AllAtHome'
  <2> SUFFICES ASSUME Inv, AllAtHome, [Next]_vars PROVE AllAtHome'
    BY InvNext, InvStutter
  <2>1. CASE Discovery
    BY <2>1, DiscoveryAtHome DEF Discovery
  <2>2. CASE UNCHANGED vars
    BY <2>2 DEF vars, scannerVars, AllAtHome, RegAtHome, CarriedAtHome
  <2> QED
    BY <2>1, <2>2, ScannerAtHome, RequestAtHome, RestartAtHome DEF Next
<1>3. Inv /\ AllAtHome => SplitAtHome
  <2> SUFFICES ASSUME Inv, AllAtHome, NEW m \in Mac, NEW a \in Addr,
                      BroughtHome(SharedId(m, a), m, a)
               PROVE  /\ \A i \in DOMAIN tab : tab[i].key = SharedId(m, a)
                            => tab[i].hw = m /\ tab[i].ip = a
                      /\ reg[SharedId(m, a)] # NoRec
                            => reg[SharedId(m, a)].hw = m /\ reg[SharedId(m, a)].ip = a
    BY DEF SplitAtHome
  <2>1. /\ SharedId(m, a) \in Key \ Mac
        /\ SharedId(m, a)[1] = m /\ SharedId(m, a)[2] = a
    BY KeyAssumption DEF SharedId, Key
  <2>2. \A h, x : Pinned(SharedId(m, a), h, x) => h = m /\ x = a
    BY <2>1 DEF Pinned, RightMac, RightIp, Loose
  <2> QED
    BY <2>1, <2>2 DEF AllAtHome, TabAtHome, RegAtHome, AtHome
<1> QED
  BY <1>1, <1>2, <1>3, PTL DEF Spec
-----------------------------------------------------------------------------
(* Every active device has a record *)

(* The register has room for every device there is: no record gives way.    *)
RoomForAll == Cardinality(Key) <= RegisterMax

(* k's record is still to be written by the sighting under way.             *)
Pending(k) ==
    pc \in {"demoted", "primary", "persist"} /\ job.snap # NoRec /\ job.snap.key = k

Recorded ==
    /\ \A k \in Key : IsActive(tab, k) => reg[k] # NoRec \/ Pending(k)
    /\ pre # NoRec => reg[pre.key] # NoRec
    /\ job.full => job.snap = NoRec
    /\ user # NoRec => user.op \notin {"lookup", "erase"}

(* A step that takes no record away.                                        *)
KeepsRecords == \A k \in Key : reg[k] # NoRec => reg'[k] # NoRec

(* Register and DeviceDb count alike.                                       *)
LEMMA SameCardinality == \A S : Store!Cardinality(S) = Cardinality(S)
BY DEF Cardinality, Store!Cardinality

(* There is room for a device without a record.                             *)
LEMMA NeverFull ==
    ASSUME RoomForAll, NEW k \in Key, reg[k] = NoRec
    PROVE  ~Store!Full
<1>1. IsFiniteSet(Key)
  BY FiniteAssumption, FS_Product, FS_Union DEF Key
<1> DEFINE others == Key \ {k}
<1>2. IsFiniteSet(others) /\ Cardinality(others) = Cardinality(Key) - 1
  BY <1>1, FS_RemoveElement
<1>3. Store!Remembered \in SUBSET others
  BY DEF Store!Remembered
<1> HIDE DEF others
<1>4. Cardinality(Store!Remembered) \in Nat /\ Cardinality(Store!Remembered) <= Cardinality(others)
  BY <1>2, <1>3, FS_Subset, FS_CardinalityType
<1>5. Cardinality(Key) \in Nat
  BY <1>1, FS_CardinalityType
<1> QED
  BY <1>2, <1>4, <1>5, SizeAssumption, SameCardinality DEF RoomForAll, Store!Full

(* So a write is what it says, and no more.                                 *)
LEMMA RoomyWrite ==
    ASSUME RoomForAll, NEW k \in Key, NEW p, Store!Write(k, p) \/ Store!Refuse(k)
    PROVE  reg' = [reg EXCEPT ![k] = p]
<1>1. reg[k] = NoRec => ~Store!Full
  BY NeverFull
<1> QED
  BY <1>1 DEF Store!Write, Store!Refuse, Store!Replace, Store!Add, Store!AddEvicting

(* A copy written back merges with the record there is.                     *)
LEMMA RoomyStore ==
    ASSUME RoomForAll, reg \in [Key -> NoneOr(Payload)], NEW d \in Snapshot, StoreDevice(d)
    PROVE  /\ reg' = [reg EXCEPT ![d.key] = Merged(reg[d.key], d)]
           /\ d.key \in Key /\ reg'[d.key] # NoRec /\ KeepsRecords
<1>1. d.key \in Key
  BY DEF Snapshot
<1>2. Merged(reg[d.key], d) \in Payload
  BY <1>1, MergedIsPayload
<1>3. reg' = [reg EXCEPT ![d.key] = Merged(reg[d.key], d)]
  BY <1>1, RoomyWrite DEF StoreDevice
<1> QED
  BY <1>1, <1>2, <1>3, NothingAssumption DEF KeepsRecords

(* The record edited by a sighting without room, by a user or by an import  *)
(* is there afterwards, and so is everybody else's.                         *)
LEMMA RoomyEdit ==
    ASSUME RoomForAll, reg \in [Key -> NoneOr(Payload)], NEW k \in Key, NEW p \in Payload,
           Store!Write(k, p) \/ Store!Refuse(k)
    PROVE  KeepsRecords
<1>1. reg' = [reg EXCEPT ![k] = p]
  BY RoomyWrite
<1> QED
  BY <1>1, NothingAssumption DEF KeepsRecords

(* What a step owes Recorded that brings no device into the table.          *)
LEMMA RecordedStep ==
    ASSUME Recorded, TypeOK, KeepsRecords,
           \A k \in Key : IsActive(tab', k) => IsActive(tab, k),
           \A k \in Key : Pending(k) => Pending(k)' \/ reg'[k] # NoRec,
           pre' = pre \/ (pre' # NoRec => reg'[pre'.key] # NoRec),
           job'.full => job'.snap = NoRec,
           user' # NoRec => user'.op \notin {"lookup", "erase"}
    PROVE  Recorded'
<1>1. \A k \in Key : IsActive(tab', k) => reg'[k] # NoRec \/ Pending(k)'
  BY DEF Recorded, KeepsRecords
<1>2. pre' # NoRec => reg'[pre'.key] # NoRec
  BY DEF Recorded, KeepsRecords, TypeOK, NoneOr
<1> QED
  BY <1>1, <1>2 DEF Recorded
(* Not Apply: the other steps of the scanner.                               *)
LEMMA ScannerRecorded ==
    ASSUME RoomForAll, Inv, Recorded, Scanner, ~Apply
    PROVE  Recorded'
<1>1. /\ TypeOK /\ Good(tab) /\ reg \in [Key -> NoneOr(Payload)]
      /\ job.full => job.snap = NoRec
      /\ user # NoRec => user.op \notin {"lookup", "erase"}
  BY InvTab DEF Inv, TypeOK, Recorded
<1>2. ASSUME UNCHANGED <<tab, reg>>, \A k \in Key : Pending(k) => Pending(k)',
             pre' = pre \/ (pre' # NoRec => reg[pre'.key] # NoRec),
             UNCHANGED job \/ job' = NoJob, UNCHANGED user
      PROVE  Recorded'
  <2>1. KeepsRecords /\ (\A k \in Key : IsActive(tab', k) => IsActive(tab, k))
    BY <1>2 DEF KeepsRecords
  <2>2. job'.full => job'.snap = NoRec
    BY <1>1, <1>2 DEF NoJob
  <2>3. pre' = pre \/ (pre' # NoRec => reg'[pre'.key] # NoRec)
    BY <1>2
  <2> QED
    BY <1>1, <1>2, <2>1, <2>2, <2>3, RecordedStep
<1>3. ASSUME KeepsRecords, UNCHANGED <<tab, pre, user>>,
             \A k \in Key : Pending(k) => Pending(k)' \/ reg'[k] # NoRec,
             job'.full => job'.snap = NoRec
      PROVE  Recorded'
  <2>1. \A k \in Key : IsActive(tab', k) => IsActive(tab, k)
    BY <1>3
  <2> QED
    BY <1>1, <1>3, <2>1, RecordedStep
<1>4. ASSUME NEW u \in [DOMAIN tab -> Entry], \A i \in DOMAIN tab : u[i].key = tab[i].key, tab' = u,
             UNCHANGED <<reg, pre, job, user>>, pc \notin {"demoted", "primary", "persist"}
      PROVE  Recorded'
  <2>1. \A k \in Key : IsActive(tab', k) => IsActive(tab, k)
    BY <1>1, <1>4, ChangedIsGood
  <2>2. KeepsRecords /\ \A k \in Key : ~Pending(k)
    BY <1>4 DEF KeepsRecords, Pending
  <2> QED
    BY <1>1, <1>4, <2>1, <2>2, RecordedStep
<1>5. CASE \E m \in Mac, a \in Addr : Sighted(m, a)
  <2> PICK m \in Mac, a \in Addr : Sighted(m, a)
    BY <1>5
  <2> QED
    BY <1>2 DEF Sighted, Pending
<1>6. CASE ReadId \/ ReadMac
  BY <1>2, <1>6 DEF ReadId, ReadMac, ReadAhead, Pending
<1>7. CASE WriteDemoted
  <2>1. KeepsRecords
    BY <1>1, <1>7, RoomyStore DEF WriteDemoted, Inv, Writable
  <2>2. job'.snap = job.snap /\ job'.full = job.full /\ pc' = AfterDemoted(job)
    BY <1>1, <1>7 DEF WriteDemoted, TypeOK, Job
  <2>3. \A k \in Key : Pending(k) => Pending(k)'
    BY <1>1, <2>2 DEF Pending, AfterDemoted
  <2> QED
    BY <1>1, <1>3, <1>7, <2>1, <2>2, <2>3 DEF WriteDemoted
<1>8. CASE RegisterOnly
  <2>1. job.key \in Key /\ job.hw \in Key /\ Placed /\ job \in Job
    BY <1>1, <1>8 DEF RegisterOnly, Inv, Writable, ReadAheadOK, TypeOK
  <2>2. KeepsRecords
    <3> DEFINE seen == IF reg[job.key] # NoRec
                       THEN [reg[job.key] EXCEPT !.ip = sight.ip]
                       ELSE [hw |-> job.hw, nick |-> NoNick, name |-> 0, src |-> 0,
                             ip |-> sight.ip, shared |-> job.split]
    <3>1. seen \in Payload
      BY <1>1, <2>1, Zeros DEF Payload, NoneOr, Placed, Job
    <3>2. Store!Write(job.key, seen) \/ Store!Refuse(job.key)
      BY <1>8 DEF RegisterOnly
    <3> HIDE DEF seen
    <3> QED
      BY <1>1, <2>1, <3>1, <3>2, RoomyEdit
  <2> QED
    BY <1>1, <1>3, <1>8, <2>2 DEF RegisterOnly, Pending
<1>9. CASE WritePrimary
  <2>1. KeepsRecords
    BY <1>1, <1>9, RoomyStore DEF WritePrimary, Inv, Writable
  <2>2. job'.snap = job.snap /\ job'.full = job.full /\ pc' = AfterPrimary(job)
    BY <1>1, <1>9 DEF WritePrimary, TypeOK, Job
  <2>3. \A k \in Key : Pending(k) => Pending(k)'
    BY <2>2 DEF Pending, AfterPrimary
  <2> QED
    BY <1>1, <1>3, <1>9, <2>1, <2>2, <2>3 DEF WritePrimary
<1>10. CASE Persist
  <2>1. KeepsRecords /\ reg'[job.snap.key] # NoRec
    BY <1>1, <1>10, RoomyStore DEF Persist, Inv, Writable
  <2>2. job'.snap = NoRec
    BY <1>1, <1>10 DEF Persist, TypeOK, Job
  <2> QED
    BY <1>1, <1>3, <1>10, <2>1, <2>2 DEF Persist, Pending
<1>11. CASE Clean
  <2> DEFINE u == [i \in DOMAIN tab |->
                      IF tab[i].key = job.key THEN [tab[i] EXCEPT !.dirty = FALSE] ELSE tab[i]]
  <2>1. /\ u \in [DOMAIN tab -> Entry] /\ \A i \in DOMAIN tab : u[i].key = tab[i].key
        /\ tab' = u
    BY <1>11, EntriesOfTab DEF Clean, Entry
  <2> HIDE DEF u
  <2> QED
    BY <1>4, <1>11, <2>1 DEF Clean
<1>12. CASE Announce
  BY <1>2, <1>12 DEF Announce, Pending
<1>13. ASSUME NEW due \in BOOLEAN, SweepEnd(due)
       PROVE  Recorded'
  <2> DEFINE u == [i \in DOMAIN tab |-> Aged(tab[i])]
  <2>1. /\ u \in [DOMAIN tab -> Entry] /\ \A i \in DOMAIN tab : u[i].key = tab[i].key
        /\ tab' = u
    BY <1>13, EntriesOfTab, AgedIsEntry DEF SweepEnd
  <2> HIDE DEF u
  <2> QED
    BY <1>4, <1>13, <2>1 DEF SweepEnd
<1>14. CASE FlushTake
  <2>1. CASE ~(flush.at > Len(tab)) /\ tab[flush.at].dirty
    <3> DEFINE d == [tab[flush.at] EXCEPT !.dirty = FALSE]
               u == [tab EXCEPT ![flush.at] = d]
    <3>1. flush.at \in DOMAIN tab
      BY <1>14, <2>1, EntriesOfTab DEF FlushTake, Inv, FlushOK, TypeOK
    <3>2. d \in Entry /\ d.key = tab[flush.at].key
      BY <3>1, EntriesOfTab DEF Entry
    <3>3. tab' = u /\ UNCHANGED <<reg, pre, job, user>> /\ pc = "flush"
      BY <1>14, <2>1 DEF FlushTake
    <3> HIDE DEF d
    <3>4. u \in [DOMAIN tab -> Entry] /\ \A i \in DOMAIN tab : u[i].key = tab[i].key
      BY <3>1, <3>2, EntriesOfTab
    <3> HIDE DEF u
    <3> QED
      BY <1>4, <3>3, <3>4
  <2>2. CASE ~(~(flush.at > Len(tab)) /\ tab[flush.at].dirty)
    BY <1>2, <1>14, <2>2 DEF FlushTake, Pending
  <2> QED
    BY <2>1, <2>2
<1>15. CASE FlushWrite
  <2>1. KeepsRecords
    BY <1>1, <1>15, RoomyStore DEF FlushWrite, Inv, Writable
  <2> QED
    BY <1>1, <1>3, <1>15, <2>1 DEF FlushWrite, Pending
<1> QED
  BY <1>5, <1>6, <1>7, <1>8, <1>9, <1>10, <1>11, <1>12, <1>13, <1>14, <1>15 DEF Scanner
(* What the update of k's entry in table t leaves: the same devices and     *)
(* names, and perhaps a copy of this entry to be written.                   *)
Settled(t, k, demoted) ==
    /\ DOMAIN tab' = DOMAIN t
    /\ \A i \in DOMAIN t : /\ tab'[i].key = t[i].key
                           /\ tab'[i].name = t[i].name /\ tab'[i].src = t[i].src
    /\ job'.key = k /\ job'.demoted = demoted /\ ~job'.full
    /\ job'.snap # NoRec =>
          /\ job'.snap \in Snapshot /\ job'.snap.key = k
          /\ \E i \in DOMAIN t : /\ t[i].key = k
                                 /\ job'.snap.name = t[i].name /\ job'.snap.src = t[i].src
          /\ pc' \in {"demoted", "primary", "persist"}
    /\ pc' \in {"demoted", "primary", "persist", "announce"}
    /\ pc' = "demoted" => demoted # NoRec
    /\ demoted # NoRec => pc' = "demoted"

(* A new entry's copy is to be written.                                     *)
News(k) == job'.inserted /\ job'.snap # NoRec /\ (job'.wasKnown <=> reg[k] # NoRec)

(* Such is the update; it is news if the entry is.                          *)
LEMMA SettleWhole ==
    ASSUME Placed, NEW t, Good(t), NEW k \in Key, IsActive(t, k), NEW v, NEW fresh \in BOOLEAN,
           NEW demoted \in NoneOr(Snapshot), NEW primary \in NoneOr(Snapshot),
           Settle(t, k, demoted, primary, v, fresh)
    PROVE  /\ Settled(t, k, demoted) /\ (primary = NoRec => job'.primary = NoRec)
           /\ fresh => News(k)
           /\ ~fresh => ~job'.inserted
<1> DEFINE i == IndexIn(t, k)
           d == Touched(t[i], v)
<1>1. i \in DOMAIN t /\ t[i].key = k
  BY IndexInTable
<1>2. t[i] \in Entry
  BY <1>1, SeqFacts DEF Good
<1>3. d \in Entry /\ d.key = k /\ d.name = t[i].name /\ d.src = t[i].src
  BY <1>1, <1>2, Zeros DEF Touched, Entry, Placed
<1> PICK dated \in BOOLEAN :
        /\ tab' = [t EXCEPT ![i] = d]
        /\ Leave([NoJob EXCEPT
                    !.key = k, !.demoted = demoted, !.primary = primary,
                    !.snap = IF fresh \/ dated THEN Copy(d) ELSE NoRec,
                    !.inserted = fresh, !.wasKnown = reg[k] # NoRec])
  BY DEF Settle
<1> DEFINE snap == IF fresh \/ dated THEN Copy(d) ELSE NoRec
           j == [NoJob EXCEPT
                    !.key = k, !.demoted = demoted, !.primary = primary, !.snap = snap,
                    !.inserted = fresh, !.wasKnown = reg[k] # NoRec]
<1>4. \/ snap = NoRec /\ ~fresh
      \/ /\ snap \in Snapshot /\ snap.key = k
         /\ snap.name = t[i].name /\ snap.src = t[i].src
  BY <1>3, CopyIsSnapshot DEF Copy
<1>5. tab' = [t EXCEPT ![i] = d] /\ Leave(j)
  OBVIOUS
<1> HIDE DEF i, d, snap
<1>6. /\ j.key = k /\ j.demoted = demoted /\ j.primary = primary /\ j.snap = snap
      /\ j.full = FALSE /\ j.inserted = fresh /\ j.wasKnown = (reg[k] # NoRec)
  BY DEF NoJob
<1> HIDE DEF j
<1>7. job' = j /\ pc' = IF j.demoted # NoRec THEN "demoted" ELSE AfterDemoted(j)
  BY <1>5 DEF Leave
<1>8. /\ pc' \in {"demoted", "primary", "persist", "announce"}
      /\ pc' = "demoted" => demoted # NoRec
      /\ demoted # NoRec => pc' = "demoted"
      /\ job'.snap # NoRec => pc' \in {"demoted", "primary", "persist"}
  BY <1>6, <1>7 DEF AfterDemoted
<1>9. /\ DOMAIN tab' = DOMAIN t
      /\ \A x \in DOMAIN t : /\ tab'[x].key = t[x].key
                             /\ tab'[x].name = t[x].name /\ tab'[x].src = t[x].src
  BY <1>1, <1>3, <1>5
<1>10. /\ job'.snap = NoRec => ~fresh
       /\ job'.snap # NoRec =>
             /\ job'.snap \in Snapshot /\ job'.snap.key = k
             /\ \E x \in DOMAIN t : /\ t[x].key = k
                                    /\ job'.snap.name = t[x].name /\ job'.snap.src = t[x].src
  BY <1>1, <1>4, <1>6, <1>7, NothingAssumption
<1>11. /\ job'.key = k /\ job'.demoted = demoted /\ job'.primary = primary
       /\ ~job'.full /\ (job'.inserted <=> fresh) /\ (job'.wasKnown <=> reg[k] # NoRec)
  BY <1>6, <1>7
<1>12. Settled(t, k, demoted)
  BY <1>8, <1>9, <1>10, <1>11 DEF Settled
<1> QED
  BY <1>10, <1>11, <1>12 DEF News

(* And when there is no room.                                               *)
LEMMA FullShape ==
    ASSUME NEW t, NEW split, NEW demoted, TableFull(t, split, demoted)
    PROVE  /\ tab' = t
           /\ job'.key = IF pre # NoRec THEN pre.key ELSE IF split THEN Id ELSE sight.mac
           /\ job'.demoted = demoted /\ job'.primary = NoRec /\ job'.snap = NoRec
           /\ job'.full = TRUE /\ job'.inserted = FALSE
           /\ pc' = IF demoted # NoRec THEN "demoted" ELSE "full"
BY DEF TableFull, Leave, AfterDemoted, NoJob

(* Who can be in the table once a remembered device is back in it.          *)
LEMMA PromotedKeys ==
    ASSUME Good(tab), TypeOK, Placed, pre # NoRec => pre.key \in {Id, sight.mac},
           NEW s \in Promoted
    PROVE  \A k : IsActive(s.tab, k) => IsActive(tab, k) \/ (pre # NoRec /\ k = pre.key)
<1> DEFINE rooms == Rooms(tab, FromRecord(pre.key, pre.rec))
<1>1. CASE s = [tab |-> tab, demoted |-> NoRec, at |-> InHand]
  BY <1>1
<1>2. CASE InHand = NoRec /\ pre # NoRec
           /\ \E r \in rooms : s = [tab |-> r.tab, demoted |-> r.demoted, at |-> pre.key]
  <2>1. PICK r \in rooms : s = [tab |-> r.tab, demoted |-> r.demoted, at |-> pre.key]
    BY <1>2
  <2>2. pre.key \in Key /\ pre.rec \in Payload /\ pre.key \in {Id, sight.mac}
    BY <1>2 DEF TypeOK, NoneOr
  <2>3. ~IsActive(tab, pre.key)
    BY <1>2, <2>2, KeyFacts DEF InHand
  <2> DEFINE e == FromRecord(pre.key, pre.rec)
  <2>4. e \in Entry /\ e.key = pre.key /\ r \in Rooms(tab, e)
    BY <2>2, FromRecordIsEntry
  <2> HIDE DEF e
  <2>5. \A k : IsActive(r.tab, k) => k = e.key \/ IsActive(tab, k)
    BY <2>3, <2>4, RoomsAreGood
  <2> QED
    BY <1>2, <2>1, <2>4, <2>5
<1> QED
  BY <1>1, <1>2 DEF Promoted

(* Every device the sighting puts into the table has a record, or has its   *)
(* copy on the way to one.                                                  *)
LEMMA ApplyRecorded ==
    ASSUME Inv, Recorded, Apply
    PROVE  Recorded'
<1>1. Placed /\ TypeOK /\ Good(tab) /\ (pre # NoRec => pre.key \in {Id, sight.mac}) /\ pc = "apply"
  BY InvTab DEF Inv, Apply, ReadAheadOK
<1> PICK s \in Promoted : \E v \in Verdicts(s) : Resolve(s, v)
  BY DEF Apply
<1> PICK v \in Verdicts(s) : Resolve(s, v)
  OBVIOUS
<1> DEFINE t     == Declared(s, v)
           split == s.at # NoRec /\ Splits(t, s.at)
           k     == IF split THEN Id ELSE sight.mac
           e     == [Blank(k) EXCEPT !.shared = split]
           prim  == IF v = "shared" THEN Copy(t[IndexIn(t, s.at)]) ELSE NoRec
<1>2. /\ Good(s.tab) /\ s.demoted \in NoneOr(Snapshot)
      /\ \/ s.at = NoRec /\ ~IsActive(s.tab, Id) /\ ~IsActive(s.tab, sight.mac)
         \/ s.at = Id /\ IsActive(s.tab, Id)
         \/ s.at = sight.mac /\ IsActive(s.tab, sight.mac) /\ ~IsActive(s.tab, Id)
  BY <1>1, PromotedFacts
<1>3. /\ Good(t) /\ \A x : IsActive(t, x) <=> IsActive(s.tab, x)
      /\ v = "shared" => s.at = sight.mac /\ IsActive(s.tab, s.at)
  BY <1>1, <1>2, DeclaredFacts
<1>4. \A x \in Key : IsActive(t, x) => reg[x] # NoRec
  <2>1. \A x : IsActive(s.tab, x) => IsActive(tab, x) \/ (pre # NoRec /\ x = pre.key)
    BY <1>1, PromotedKeys
  <2>2. \A x \in Key : IsActive(tab, x) => reg[x] # NoRec
    BY <1>1 DEF Recorded, Pending
  <2> QED
    BY <1>3, <2>1, <2>2 DEF Recorded
<1>5. prim \in NoneOr(Snapshot)
  <2>1. CASE v = "shared"
    <3>1. t[IndexIn(t, s.at)] \in Entry
      BY <1>3, <2>1, IndexInTable, SeqFacts DEF Good
    <3> QED
      BY <2>1, <3>1, CopyIsSnapshot DEF NoneOr
  <2> QED
    BY <2>1 DEF NoneOr
<1>6. split \in BOOLEAN /\ (split => s.at = sight.mac)
  BY DEF Splits
<1>7. k \in Key /\ k \in {Id, sight.mac}
  BY <1>1, KeyFacts
<1>8. pre' = NoRec /\ UNCHANGED <<reg, sight, flush, user>>
  BY DEF Apply
<1>9. (job'.full => job'.snap = NoRec) /\ \A x \in Key : IsActive(tab', x) => reg[x] # NoRec \/ Pending(x)'
  <2>1. CASE s.at # NoRec /\ ~split
    <3>1. Settle(t, s.at, s.demoted, prim, v, FALSE)
      BY <2>1 DEF Resolve
    <3>2. s.at \in Key /\ IsActive(t, s.at)
      BY <1>1, <1>2, <1>3, <2>1, KeyFacts
    <3> HIDE DEF t, split, k, e, prim
    <3>3. Settled(t, s.at, s.demoted)
      BY <1>1, <1>2, <1>3, <1>5, <3>1, <3>2, SettleWhole
    <3>4. /\ DOMAIN tab' = DOMAIN t /\ \A i \in DOMAIN t : tab'[i].key = t[i].key
          /\ ~job'.full
      BY <3>3 DEF Settled
    <3> QED
      BY <1>4, <3>4 DEF IsActive
  <2>2. CASE ~(s.at # NoRec /\ ~split) /\ Rooms(t, e) = {}
    <3>1. TableFull(t, split, s.demoted)
      BY <2>2 DEF Resolve
    <3> HIDE DEF t, split, k, e, prim
    <3> QED
      BY <1>4, <3>1, FullShape
  <2>3. CASE ~(s.at # NoRec /\ ~split) /\ Rooms(t, e) # {}
    <3>1. PICK r \in Rooms(t, e) :
             Settle([r.tab EXCEPT ![Len(r.tab)].shared = @ \/ HasSibling(r.tab, k)],
                    k, IF r.demoted # NoRec THEN r.demoted ELSE s.demoted, prim, v, TRUE)
      BY <2>3 DEF Resolve
    <3>2. e \in Entry /\ e.key = k
      BY <1>6, <1>7, BlankIsEntry
    <3>3. ~IsActive(t, k)
      BY <1>1, <1>2, <1>3, <1>6, <2>3, KeyFacts
    <3> DEFINE n == Len(r.tab)
               d == [r.tab[n] EXCEPT !.shared = @ \/ HasSibling(r.tab, k)]
               u == [r.tab EXCEPT ![n] = d]
               moved == IF r.demoted # NoRec THEN r.demoted ELSE s.demoted
    <3>4. Settle(u, k, moved, prim, v, TRUE)
      BY <3>1
    <3> HIDE DEF t, split, k, e, prim
    <3>5. /\ Good(r.tab) /\ n \in DOMAIN r.tab /\ r.tab[n] = e
          /\ \A x : IsActive(r.tab, x) => x = e.key \/ IsActive(t, x)
          /\ r.demoted \in NoneOr(Snapshot)
      BY <1>3, <3>2, <3>3, RoomsAreGood
    <3>6. d \in Entry /\ d.key = r.tab[n].key /\ d.key = k
      <4>1. d = [e EXCEPT !.shared = @ \/ HasSibling(r.tab, k)] /\ HasSibling(r.tab, k) \in BOOLEAN
        BY <3>5 DEF HasSibling
      <4> QED
        BY <3>2, <3>5, <4>1 DEF Entry
    <3>7. moved \in NoneOr(Snapshot)
      BY <1>2, <3>5
    <3> HIDE DEF n, d, moved
    <3>8. /\ Good(u) /\ DOMAIN u = DOMAIN r.tab /\ u[n] = d
          /\ \A x : IsActive(u, x) <=> IsActive(r.tab, x)
      BY <3>5, <3>6, ReplacedIsGood
    <3>9. IsActive(u, k)
      BY <3>5, <3>6, <3>8 DEF IsActive
    <3> HIDE DEF u
    <3>10. /\ DOMAIN tab' = DOMAIN u /\ \A i \in DOMAIN u : tab'[i].key = u[i].key
           /\ ~job'.full /\ job'.snap \in Snapshot /\ job'.snap.key = k
           /\ pc' \in {"demoted", "primary", "persist"}
      <4>1. Good(u) /\ IsActive(u, k) /\ k \in Key /\ moved \in NoneOr(Snapshot)
            /\ prim \in NoneOr(Snapshot) /\ Placed
        BY <1>1, <1>5, <1>7, <3>7, <3>8, <3>9
      <4>2. Settled(u, k, moved) /\ News(k)
        BY <3>4, <4>1, SettleWhole
      <4> QED
        BY <4>2 DEF Settled, News
    <3>11. \A x : IsActive(tab', x) => x = k \/ IsActive(t, x)
      <4>1. \A x : IsActive(tab', x) => IsActive(u, x)
        BY <3>10 DEF IsActive
      <4> QED
        BY <3>2, <3>5, <3>8, <4>1
    <3>12. PICK y \in Key : y = k
      BY <1>7
    <3>13. Pending(y)'
      BY <3>10, <3>12, NothingAssumption DEF Pending
    <3> QED
      BY <1>4, <3>10, <3>11, <3>12, <3>13
  <2> QED
    BY <2>1, <2>2, <2>3
<1> HIDE DEF t, split, k, e, prim
<1> QED
  BY <1>8, <1>9 DEF Recorded
(* A name, and a user's request but Forget, leave everyone recorded.        *)
LEMMA OthersRecorded ==
    ASSUME RoomForAll, "forget" \notin UserOps, Inv, Recorded, Discovery \/ HttpServer
    PROVE  Recorded'
<1>1. /\ TypeOK /\ Good(tab) /\ reg \in [Key -> NoneOr(Payload)]
      /\ job.full => job.snap = NoRec
      /\ user # NoRec => user \in Request /\ user.key \in Key /\ user.op \notin {"lookup", "erase"}
  BY InvTab DEF Inv, TypeOK, Recorded, NoneOr, Request
<1>2. ASSUME KeepsRecords, UNCHANGED scannerVars, \A k \in Key : IsActive(tab', k) => IsActive(tab, k),
             user' # NoRec => user'.op \notin {"lookup", "erase"}
      PROVE  Recorded'
  <2>1. pre' = pre /\ (job'.full => job'.snap = NoRec)
    BY <1>1, <1>2 DEF scannerVars
  <2>2. \A k \in Key : Pending(k) => Pending(k)'
    BY <1>2 DEF scannerVars, Pending
  <2> QED
    BY <1>1, <1>2, <2>1, <2>2, RecordedStep
<1>3. ASSUME NEW i \in DOMAIN tab, NEW d \in Entry, d.key = tab[i].key, tab' = [tab EXCEPT ![i] = d]
      PROVE  \A k \in Key : IsActive(tab', k) => IsActive(tab, k)
  BY <1>1, <1>3, ReplacedIsGood
<1>4. ASSUME NEW k \in Key, NEW r \in Name, SetHostname(k, r)
      PROVE  Recorded'
  <2> DEFINE i == IndexIn(tab, k)
             c == IF r >= tab[i].src THEN [tab[i] EXCEPT !.name = r, !.src = r] ELSE tab[i]
             d == [c EXCEPT !.dirty = TRUE]
  <2>1. i \in DOMAIN tab /\ tab[i] \in Entry
    BY <1>4, IndexInTable, EntriesOfTab DEF SetHostname
  <2>2. c \in Entry /\ c.key = tab[i].key
    BY <2>1 DEF Entry
  <2>3. tab' = [tab EXCEPT ![i] = d] /\ UNCHANGED <<reg, scannerVars, user, watched>>
    BY <1>4 DEF SetHostname
  <2> HIDE DEF c
  <2>4. d \in Entry /\ d.key = tab[i].key
    BY <2>2 DEF Entry
  <2> HIDE DEF d, i
  <2>5. \A x \in Key : IsActive(tab', x) => IsActive(tab, x)
    BY <1>3, <2>1, <2>3, <2>4
  <2> QED
    BY <1>1, <1>2, <2>3, <2>5 DEF KeepsRecords
<1>5. ASSUME NEW k \in Key, NEW n \in Nick \cup {NoNick}, Rename(k, n)
      PROVE  Recorded'
  <2>1. CASE IsActive(tab, k)
    <3> DEFINE i == IndexIn(tab, k)
               d == [tab[i] EXCEPT !.nick = n, !.dirty = FALSE]
    <3>1. i \in DOMAIN tab /\ tab[i] \in Entry
      BY <2>1, IndexInTable, EntriesOfTab
    <3>2. d \in Entry /\ d.key = tab[i].key
      BY <3>1 DEF Entry
    <3>3. /\ tab' = [tab EXCEPT ![i] = d]
          /\ user' = [op |-> "write", key |-> k, nick |-> n, snap |-> Copy(d)]
          /\ UNCHANGED <<reg, scannerVars>>
      BY <1>5, <2>1 DEF Rename
    <3> HIDE DEF d, i
    <3>4. \A x \in Key : IsActive(tab', x) => IsActive(tab, x)
      BY <1>3, <3>1, <3>2, <3>3
    <3> QED
      BY <1>2, <3>3, <3>4 DEF KeepsRecords
  <2>2. CASE ~IsActive(tab, k)
    <3>1. /\ UNCHANGED <<tab, reg, scannerVars>>
          /\ user' = [op |-> "edit", key |-> k, nick |-> n, snap |-> NoRec]
      BY <1>5, <2>2 DEF Rename
    <3> QED
      BY <1>2, <3>1 DEF KeepsRecords
  <2> QED
    BY <2>1, <2>2
<1>6. ASSUME NEW k \in Key, Ensure(k)
      PROVE  Recorded'
  BY <1>2, <1>6 DEF Ensure, KeepsRecords
<1>7. CASE RenameWrite
  <2>1. KeepsRecords
    BY <1>1, <1>7, RoomyStore DEF RenameWrite, Inv, UserOK
  <2> QED
    BY <1>2, <1>7, <2>1 DEF RenameWrite
<1>8. CASE RenameEdit
  <2>1. KeepsRecords
    <3>1. CASE reg[user.key] = NoRec
      BY <1>8, <3>1 DEF RenameEdit, KeepsRecords
    <3>2. CASE reg[user.key] # NoRec
      <4> DEFINE p == [reg[user.key] EXCEPT !.nick = user.nick]
      <4>1. p \in Payload
        BY <1>1, <1>8, <3>2 DEF RenameEdit, NoneOr, Payload, Request
      <4>2. Store!Write(user.key, p) /\ user.key \in Key
        BY <1>1, <1>8, <3>2 DEF RenameEdit, Store!Write
      <4> HIDE DEF p
      <4> QED
        BY <1>1, <4>1, <4>2, RoomyEdit
    <3> QED
      BY <3>1, <3>2
  <2> QED
    BY <1>2, <1>8, <2>1 DEF RenameEdit
<1>9. CASE EnsureWrite
  <2>1. KeepsRecords
    <3> PICK e \in Imports :
                UNCHANGED reg \/ Store!Write(e.key, Imported(e)) \/ Store!Refuse(e.key)
      BY <1>9 DEF EnsureWrite
    <3>1. e.key \in Key /\ Imported(e) \in Payload
      BY ImportedIsPayload
    <3>2. CASE UNCHANGED reg
      BY <3>2 DEF KeepsRecords
    <3> QED
      BY <1>1, <3>1, <3>2, RoomyEdit
  <2> QED
    BY <1>2, <1>9, <2>1 DEF EnsureWrite
<1>10. ~ForgetLookup /\ ~ForgetErase /\ \A k \in Key : ~Forget(k)
  BY <1>1 DEF ForgetLookup, ForgetErase, Forget
<1> QED
  BY <1>4, <1>5, <1>6, <1>7, <1>8, <1>9, <1>10 DEF Discovery, HttpServer

(* What a boot loads comes from records.                                    *)
LEMMA RestartRecorded ==
    ASSUME Inv, Recorded, Restart
    PROVE  Recorded'
<1> DEFINE n == IF Cardinality(Store!Remembered) < BootActive
                THEN Cardinality(Store!Remembered) ELSE BootActive
<1>1. PICK f \in [1 .. n -> Store!Remembered] :
         tab' = [i \in 1 .. n |-> FromRecord(f[i], reg[f[i]])]
  BY DEF Restart, Loaded
<1> HIDE DEF n
<1>2. \A k : IsActive(tab', k) => reg[k] # NoRec
  BY <1>1 DEF IsActive, FromRecord, Store!Remembered
<1> QED
  BY <1>2 DEF Recorded, Restart, NoJob

(* As long as nobody asks for a device to be forgotten and the register has *)
(* room, every active device has its record whenever no operation is under  *)
(* way: however sightings, names, requests and reboots fall between the     *)
(* steps, for any number of devices and addresses.  (A device seen while a  *)
(* request to forget it is half done is the exception, see README.)         *)
THEOREM ActiveIsRecorded ==
    ASSUME RoomForAll, "forget" \notin UserOps
    PROVE  Spec => []EveryDeviceRecorded
<1>1. Init => Inv /\ Recorded
  <2> SUFFICES ASSUME Init PROVE Recorded
    BY InvInit
  <2> QED
    BY DEF Init, NoJob, Recorded, IsActive
<1>2. Inv /\ Recorded /\ [Next]_vars => Inv' /\ Recorded'
  <2> SUFFICES ASSUME Inv, Recorded, [Next]_vars PROVE Recorded'
    BY InvNext, InvStutter
  <2>1. CASE Scanner
    BY <2>1, ScannerRecorded, ApplyRecorded
  <2>2. CASE UNCHANGED vars
    BY <2>2 DEF vars, scannerVars, Recorded, Pending
  <2> QED
    BY <2>1, <2>2, OthersRecorded, RestartRecorded DEF Next
<1>3. Inv /\ Recorded => EveryDeviceRecorded
  <2> SUFFICES ASSUME Inv, Recorded, pc = "idle", NEW i \in DOMAIN tab
               PROVE  reg[tab[i].key] # NoRec
    BY DEF EveryDeviceRecorded
  <2>1. tab[i].key \in Key /\ IsActive(tab, tab[i].key)
    BY EntriesOfTab DEF Entry, IsActive
  <2> QED
    BY <2>1 DEF Recorded, Pending
<1> QED
  BY <1>1, <1>2, <1>3, PTL DEF Spec
-----------------------------------------------------------------------------
(* A newcomer is one the register does not remember *)

OneAddress == \A a, b \in Addr : a = b

(* The scanner has looked before it takes a MAC for a new one.              *)
LookedUp ==
    /\ user = NoRec
    /\ pc = "apply" /\ InHand = NoRec /\ pre = NoRec => reg[sight.mac] = NoRec
    /\ pre # NoRec => pre.rec = reg[pre.key]
    /\ job.inserted /\ job.key \in Mac => ~job.wasKnown
    /\ OneAddress /\ job.inserted => job.key \in Mac

(* Without requests, the HTTP server takes no step.                         *)
LEMMA NoRequests ==
    ASSUME UserOps = {}, user = NoRec
    PROVE  ~HttpServer
BY DEF HttpServer, Rename, RenameWrite, RenameEdit, Forget, Ensure, ForgetLookup, ForgetErase,
       EnsureWrite

(* Room for one newcomer is room for another.                               *)
LEMMA RoomForAny ==
    ASSUME NEW t, NEW e, NEW f, Rooms(t, e) = {}
    PROVE  Rooms(t, f) = {}
BY DEF Rooms

(* Nobody is a newcomer for whom a record was read.                         *)
LEMMA NewcomerUnread ==
    ASSUME Placed, pre # NoRec => pre.key \in {Id, sight.mac}, NEW s \in Promoted, s.at = NoRec,
           NEW v \in Verdicts(s), NEW e, Rooms(Declared(s, v), e) # {}
    PROVE  InHand = NoRec /\ pre = NoRec
<1>1. v = "none"
  BY KeyFacts DEF Verdicts, Judged
<1> DEFINE rooms == Rooms(tab, FromRecord(pre.key, pre.rec))
<1>2. CASE InHand = NoRec /\ pre # NoRec /\ rooms # {}
  <2>1. \E r \in rooms : s = [tab |-> r.tab, demoted |-> r.demoted, at |-> pre.key]
    BY <1>2 DEF Promoted
  <2>2. s.at = pre.key
    BY <2>1
  <2> QED
    BY <1>2, <2>2, KeyFacts
<1>3. CASE ~(InHand = NoRec /\ pre # NoRec /\ rooms # {})
  <2>1. s = [tab |-> tab, demoted |-> NoRec, at |-> InHand]
    BY <1>3 DEF Promoted
  <2>2. InHand = NoRec /\ s.tab = tab
    BY <2>1
  <2>3. Declared(s, v) = tab
    BY <1>1, <2>2 DEF Declared
  <2>4. rooms # {}
    BY <2>3, RoomForAny
  <2> QED
    BY <1>3, <2>2, <2>4
<1> QED
  BY <1>2, <1>3

(* With one address there is none but an entry's own to be split off.       *)
LEMMA NothingToSplit ==
    ASSUME OneAddress, Placed, NEW t, Good(t), NEW k, IsActive(t, k)
    PROVE  ~Splits(t, k)
<1>1. t[IndexIn(t, k)] \in Entry
  BY IndexInTable, SeqFacts DEF Good
<1> QED
  BY <1>1 DEF Splits, Entry, OneAddress, Placed

(* What a sighting announces as new, the register does not know.            *)
LEMMA ApplyLookedUp ==
    ASSUME Inv, LookedUp, Apply
    PROVE  LookedUp'
<1>1. Placed /\ TypeOK /\ Good(tab) /\ (pre # NoRec => pre.key \in {Id, sight.mac}) /\ pc = "apply"
  BY InvTab DEF Inv, Apply, ReadAheadOK
<1> PICK s \in Promoted : \E v \in Verdicts(s) : Resolve(s, v)
  BY DEF Apply
<1> PICK v \in Verdicts(s) : Resolve(s, v)
  OBVIOUS
<1> DEFINE t     == Declared(s, v)
           split == s.at # NoRec /\ Splits(t, s.at)
           k     == IF split THEN Id ELSE sight.mac
           e     == [Blank(k) EXCEPT !.shared = split]
           prim  == IF v = "shared" THEN Copy(t[IndexIn(t, s.at)]) ELSE NoRec
<1>2. /\ Good(s.tab) /\ s.demoted \in NoneOr(Snapshot)
      /\ \/ s.at = NoRec /\ ~IsActive(s.tab, Id) /\ ~IsActive(s.tab, sight.mac)
         \/ s.at = Id /\ IsActive(s.tab, Id)
         \/ s.at = sight.mac /\ IsActive(s.tab, sight.mac) /\ ~IsActive(s.tab, Id)
  BY <1>1, PromotedFacts
<1>3. /\ Good(t) /\ \A x : IsActive(t, x) <=> IsActive(s.tab, x)
      /\ v = "shared" => s.at = sight.mac /\ IsActive(s.tab, s.at)
  BY <1>1, <1>2, DeclaredFacts
<1>4. prim \in NoneOr(Snapshot)
  <2>1. CASE v = "shared"
    <3>1. t[IndexIn(t, s.at)] \in Entry
      BY <1>3, <2>1, IndexInTable, SeqFacts DEF Good
    <3> QED
      BY <2>1, <3>1, CopyIsSnapshot DEF NoneOr
  <2> QED
    BY <2>1 DEF NoneOr
<1>5. split \in BOOLEAN /\ (split => s.at = sight.mac)
  BY DEF Splits
<1>6. OneAddress => ~split
  BY <1>1, <1>2, <1>3, NothingToSplit
<1>7. k \in Key /\ (k \in Mac => k = sight.mac /\ ~split) /\ (~split => k \in Mac)
  BY <1>1, KeyFacts, KeyAssumption DEF Id, SharedId, Placed
<1>8. pre' = NoRec /\ UNCHANGED <<reg, sight, flush, user>>
  BY DEF Apply
<1>9. /\ pc' \in {"demoted", "full", "primary", "persist", "announce"}
      /\ job'.inserted => /\ job'.key \in Mac => ~job'.wasKnown
                          /\ OneAddress => job'.key \in Mac
  <2>1. CASE s.at # NoRec /\ ~split
    <3>1. Settle(t, s.at, s.demoted, prim, v, FALSE)
      BY <2>1 DEF Resolve
    <3>2. s.at \in Key /\ IsActive(t, s.at)
      BY <1>1, <1>2, <1>3, <2>1, KeyFacts
    <3> HIDE DEF t, split, k, e, prim
    <3>3. Settled(t, s.at, s.demoted) /\ ~job'.inserted
      BY <1>1, <1>2, <1>3, <1>4, <3>1, <3>2, SettleWhole
    <3> QED
      BY <3>3 DEF Settled
  <2>2. CASE ~(s.at # NoRec /\ ~split) /\ Rooms(t, e) = {}
    <3>1. TableFull(t, split, s.demoted)
      BY <2>2 DEF Resolve
    <3> HIDE DEF t, split, k, e, prim
    <3>2. job'.inserted = FALSE /\ pc' \in {"demoted", "full"}
      BY <3>1, FullShape
    <3> QED
      BY <3>2
  <2>3. CASE ~(s.at # NoRec /\ ~split) /\ Rooms(t, e) # {}
    <3>1. PICK r \in Rooms(t, e) :
             Settle([r.tab EXCEPT ![Len(r.tab)].shared = @ \/ HasSibling(r.tab, k)],
                    k, IF r.demoted # NoRec THEN r.demoted ELSE s.demoted, prim, v, TRUE)
      BY <2>3 DEF Resolve
    <3>2. k \in Mac => reg[k] = NoRec
      <4> SUFFICES ASSUME k \in Mac PROVE reg[k] = NoRec
        OBVIOUS
      <4>1. s.at = NoRec /\ k = sight.mac
        BY <1>7, <2>3
      <4>2. InHand = NoRec /\ pre = NoRec
        <5> HIDE DEF e
        <5> QED
          BY <1>1, <2>3, <4>1, NewcomerUnread
      <4> QED
        BY <1>1, <4>1, <4>2 DEF LookedUp
    <3>3. e \in Entry /\ e.key = k
      BY <1>5, <1>7, BlankIsEntry
    <3>4. ~IsActive(t, k)
      BY <1>1, <1>2, <1>3, <1>5, <2>3, KeyFacts
    <3> DEFINE n == Len(r.tab)
               d == [r.tab[n] EXCEPT !.shared = @ \/ HasSibling(r.tab, k)]
               u == [r.tab EXCEPT ![n] = d]
               moved == IF r.demoted # NoRec THEN r.demoted ELSE s.demoted
    <3>5. Settle(u, k, moved, prim, v, TRUE)
      BY <3>1
    <3> HIDE DEF t, split, k, e, prim
    <3>6. /\ Good(r.tab) /\ n \in DOMAIN r.tab /\ r.tab[n] = e
          /\ r.demoted \in NoneOr(Snapshot)
      BY <1>3, <3>3, <3>4, RoomsAreGood
    <3>7. d \in Entry /\ d.key = r.tab[n].key /\ d.key = k
      <4>1. d = [e EXCEPT !.shared = @ \/ HasSibling(r.tab, k)] /\ HasSibling(r.tab, k) \in BOOLEAN
        BY <3>6 DEF HasSibling
      <4> QED
        BY <3>3, <3>6, <4>1 DEF Entry
    <3>8. moved \in NoneOr(Snapshot)
      BY <1>2, <3>6
    <3> HIDE DEF n, d, moved
    <3>9. Good(u) /\ DOMAIN u = DOMAIN r.tab /\ u[n] = d
      BY <3>6, <3>7, ReplacedIsGood
    <3>10. IsActive(u, k)
      BY <3>6, <3>7, <3>9 DEF IsActive
    <3> HIDE DEF u
    <3>11. Settled(u, k, moved) /\ News(k)
      <4>1. Good(u) /\ IsActive(u, k) /\ k \in Key /\ moved \in NoneOr(Snapshot)
            /\ prim \in NoneOr(Snapshot) /\ Placed
        BY <1>1, <1>4, <1>7, <3>8, <3>9, <3>10
      <4> QED
        BY <3>5, <4>1, SettleWhole
    <3>12. job'.key = k /\ (job'.wasKnown <=> reg[k] # NoRec)
           /\ pc' \in {"demoted", "primary", "persist", "announce"}
      BY <3>11 DEF Settled, News
    <3> QED
      BY <1>6, <1>7, <3>2, <3>12
  <2> QED
    BY <2>1, <2>2, <2>3
<1> HIDE DEF t, split, k, e, prim
<1> QED
  BY <1>8, <1>9 DEF LookedUp

(* The other steps.                                                         *)
LEMMA OthersLookedUp ==
    ASSUME UserOps = {}, Inv, LookedUp, [Next]_vars, ~Apply
    PROVE  LookedUp'
<1>1. TypeOK /\ Good(tab) /\ (pre # NoRec => pc = "apply") /\ ~HttpServer /\ user = NoRec
  BY InvTab, NoRequests DEF Inv, ReadAheadOK, LookedUp
<1>2. ASSUME UNCHANGED user, pc' # "apply", pre' = NoRec, UNCHANGED job \/ job' = NoJob
      PROVE  LookedUp'
  BY <1>2 DEF LookedUp, NoJob
<1>3. ASSUME NEW x, job' = [job EXCEPT !.demoted = x] \/ job' = [job EXCEPT !.primary = x]
                    \/ job' = [job EXCEPT !.snap = x],
             UNCHANGED user, pc' # "apply", pre' = NoRec
      PROVE  LookedUp'
  <2>1. job'.inserted = job.inserted /\ job'.key = job.key /\ job'.wasKnown = job.wasKnown
    BY <1>1, <1>3 DEF TypeOK, Job
  <2> QED
    BY <1>3, <2>1 DEF LookedUp
<1>4. CASE \E m \in Mac, a \in Addr : Sighted(m, a)
  <2> PICK m \in Mac, a \in Addr : Sighted(m, a)
    BY <1>4
  <2>1. pre = NoRec /\ UNCHANGED <<tab, reg, pre, job, user>> /\ sight' = [mac |-> m, ip |-> a]
    BY <1>1 DEF Sighted
  <2>2. pc' = "apply" => IsActive(tab', Id') \/ IsActive(tab', sight'.mac)
    BY <2>1 DEF Sighted, Id
  <2>3. m \in Key /\ SharedId(m, a) \in Key
    BY DEF Key, SharedId
  <2>4. pc' = "apply" => InHand' # NoRec
    BY <2>1, <2>2, <2>3, NothingAssumption DEF InHand, Id
  <2> QED
    BY <2>1, <2>4 DEF LookedUp
<1>5. CASE ReadId
  <2>1. Id \in Key /\ reg \in [Key -> NoneOr(Payload)]
    BY <1>1, <1>5, KeyFacts DEF ReadId, ReadAhead, Inv, ReadAheadOK, TypeOK
  <2>2. UNCHANGED <<tab, reg, sight, job, user>> /\ pre = NoRec
    BY <1>1, <1>5 DEF ReadId, ReadAhead
  <2>3. CASE reg[Id] # NoRec
    <3>1. pre' = [key |-> Id, rec |-> reg[Id]]
      BY <1>5, <2>3 DEF ReadId, ReadAhead, Id
    <3>2. pre' # NoRec /\ pre'.rec = reg[pre'.key]
      BY <2>1, <2>3, <3>1, NothingAssumption DEF NoneOr
    <3> QED
      BY <2>2, <3>2 DEF LookedUp
  <2>4. CASE reg[Id] = NoRec
    BY <1>2, <1>5, <2>2, <2>4 DEF ReadId, ReadAhead, Id
  <2> QED
    BY <2>3, <2>4
<1>6. CASE ReadMac
  <2>1. sight.mac \in Key /\ reg \in [Key -> NoneOr(Payload)]
    BY <1>1, <1>6, KeyFacts DEF ReadMac, ReadAhead, Inv, ReadAheadOK, TypeOK
  <2>2. UNCHANGED <<tab, reg, sight, job, user>> /\ pre = NoRec
    BY <1>1, <1>6 DEF ReadMac, ReadAhead
  <2>3. CASE reg[sight.mac] # NoRec
    <3>1. pre' = [key |-> sight.mac, rec |-> reg[sight.mac]]
      BY <1>6, <2>3 DEF ReadMac, ReadAhead
    <3>2. pre' # NoRec /\ pre'.rec = reg[pre'.key]
      BY <2>1, <2>3, <3>1, NothingAssumption DEF NoneOr
    <3> QED
      BY <2>2, <3>2 DEF LookedUp
  <2>4. CASE reg[sight.mac] = NoRec
    BY <1>6, <2>2, <2>4 DEF ReadMac, ReadAhead, LookedUp
  <2> QED
    BY <2>3, <2>4
<1>7. CASE WriteDemoted
  BY <1>1, <1>3, <1>7 DEF WriteDemoted, AfterDemoted
<1>8. CASE WritePrimary
  BY <1>1, <1>3, <1>8 DEF WritePrimary, AfterPrimary
<1>9. CASE Persist
  BY <1>1, <1>3, <1>9 DEF Persist
<1>10. CASE RegisterOnly \/ Clean \/ Announce \/ FlushTake \/ FlushWrite
  BY <1>1, <1>2, <1>10 DEF RegisterOnly, Clean, Announce, FlushTake, FlushWrite
<1>11. CASE \E due \in BOOLEAN : SweepEnd(due)
  BY <1>1, <1>2, <1>11 DEF SweepEnd
<1>12. CASE Restart
  BY <1>1, <1>2, <1>12 DEF Restart
<1>13. ASSUME NEW k \in Key, NEW r \in Name, SetHostname(k, r)
       PROVE  LookedUp'
  <2> DEFINE i == IndexIn(tab, k)
             c == IF r >= tab[i].src THEN [tab[i] EXCEPT !.name = r, !.src = r] ELSE tab[i]
             d == [c EXCEPT !.dirty = TRUE]
  <2>1. i \in DOMAIN tab /\ tab[i] \in Entry
    BY <1>13, IndexInTable, EntriesOfTab DEF SetHostname
  <2>2. c \in Entry /\ c.key = tab[i].key
    BY <2>1 DEF Entry
  <2>3. tab' = [tab EXCEPT ![i] = d] /\ UNCHANGED <<reg, scannerVars, user, watched>>
    BY <1>13 DEF SetHostname
  <2> HIDE DEF c
  <2>4. d \in Entry /\ d.key = tab[i].key
    BY <2>2 DEF Entry
  <2> HIDE DEF d, i
  <2>5. \A x : IsActive(tab', x) <=> IsActive(tab, x)
    BY <1>1, <2>1, <2>3, <2>4, ReplacedIsGood
  <2>6. InHand' = InHand
    BY <2>3, <2>5 DEF InHand, Id, scannerVars
  <2> QED
    BY <2>3, <2>6 DEF LookedUp, scannerVars
<1>14. CASE UNCHANGED vars
  <2>1. InHand' = InHand
    BY <1>14 DEF InHand, Id, vars, scannerVars
  <2> QED
    BY <1>14, <2>1 DEF LookedUp, vars, scannerVars
<1> QED
  BY <1>1, <1>4, <1>5, <1>6, <1>7, <1>8, <1>9, <1>10, <1>11, <1>12, <1>13, <1>14
     DEF Next, Scanner, Discovery

(* The invariant holds as long as users ask for nothing.                    *)
LEMMA AlwaysLookedUp ==
    ASSUME UserOps = {}
    PROVE  Spec => [](Inv /\ LookedUp)
<1>1. Init => Inv /\ LookedUp
  <2> SUFFICES ASSUME Init PROVE LookedUp
    BY InvInit
  <2> QED
    BY DEF Init, NoJob, LookedUp
<1>2. Inv /\ LookedUp /\ [Next]_vars => Inv' /\ LookedUp'
  BY InvNext, InvStutter, ApplyLookedUp, OthersLookedUp
<1> QED
  BY <1>1, <1>2, PTL DEF Spec

(* A MAC's own entry is announced as a new device only if the register has  *)
(* no record of it: whatever is read without the lock, and however many     *)
(* addresses the MAC answers at.                                            *)
THEOREM NewMacIsNew ==
    ASSUME UserOps = {}
    PROVE  Spec => [](job.inserted /\ job.key \in Mac => ~job.wasKnown)
<1>1. LookedUp => (job.inserted /\ job.key \in Mac => ~job.wasKnown)
  BY DEF LookedUp
<1> QED
  BY <1>1, AlwaysLookedUp, PTL

(* While no MAC answers at two addresses, that goes for every device the    *)
(* scanner announces, for any number of them.                               *)
THEOREM NewcomersAreNew ==
    ASSUME UserOps = {}, OneAddress
    PROVE  Spec => []NewIsNew
<1>1. LookedUp => NewIsNew
  BY DEF LookedUp, NewIsNew
<1> QED
  BY <1>1, AlwaysLookedUp, PTL
-----------------------------------------------------------------------------
(* What was learnt about a device outlives its place in the table *)

(* A device, in whatever form a task holds it, whose name and source are n. *)
NameIs(d, n) == d.name = n /\ d.src = n

(* The entries of t have the best names known.                              *)
TabNames(t) == \A i \in DOMAIN t : NameIs(t[i], known[t[i].key])

(* A device on its way from the table to the register.                      *)
Leaving(k) == pc = "demoted" /\ job.demoted.key = k

(* A copy of an active device, older than the entry and younger than the    *)
(* record.                                                                  *)
Behind(c) ==
    /\ IsActive(tab, c.key) /\ c.src = c.name /\ c.name <= known[c.key]
    /\ reg[c.key] # NoRec => reg[c.key].name <= c.name

RecordNames ==
    \A k \in Key : reg[k] # NoRec => reg[k].src = reg[k].name /\ reg[k].name <= known[k]

(* The name of a device that is away is the one its record has.             *)
AwayNames ==
    \A k \in Key : ~IsActive(tab, k) /\ ~Leaving(k) =>
        known[k] = IF reg[k] = NoRec THEN 0 ELSE reg[k].name

LeavingName ==
    pc = "demoted" =>
        NameIs(job.demoted, known[job.demoted.key]) /\ ~IsActive(tab, job.demoted.key)

CopyNames ==
    /\ pc \in {"demoted", "persist"} /\ job.snap # NoRec => Behind(job.snap)
    /\ pc = "flushWrite" => Behind(flush.snap)

NamesKept ==
    /\ TabNames(tab) /\ RecordNames /\ AwayNames /\ LeavingName /\ CopyNames
    /\ job.primary = NoRec /\ pc # "primary" /\ \A m \in Mac : ~watched[m]

(* What is written of a device that has the best name, or of a copy that is *)
(* behind, is what is written.                                              *)
LEMMA MergedName ==
    ASSUME NEW d \in Snapshot, NEW p \in NoneOr(Payload), d.src = d.name,
           p # NoRec => p.name <= d.name
    PROVE  Merged(p, d).name = d.name /\ Merged(p, d).src = d.name
<1>1. d.name \in Nat
  BY SizeAssumption DEF Snapshot, Name
<1>2. p # NoRec => p.name \in Nat
  BY SizeAssumption DEF NoneOr, Payload, Name
<1>3. d.name = 0 /\ p # NoRec => p.name = 0
  BY <1>1, <1>2
<1> QED
  BY <1>3 DEF Merged

(* A step that changes neither the table, the register nor the names.       *)
LEMMA QuietNames ==
    ASSUME NamesKept, UNCHANGED <<reg, known>>, TabNames(tab)', \A k : IsActive(tab', k) <=> IsActive(tab, k),
           pc \notin {"demoted", "persist", "flushWrite"},
           pc' \notin {"demoted", "persist", "flushWrite", "primary"}, job'.primary = NoRec,
           \A m \in Mac : watched'[m] => watched[m]
    PROVE  NamesKept'
<1>1. RecordNames' /\ LeavingName' /\ CopyNames'
  BY DEF NamesKept, RecordNames, LeavingName, CopyNames
<1>2. AwayNames'
  <2> SUFFICES ASSUME NEW k \in Key, ~IsActive(tab', k)
               PROVE  known'[k] = IF reg'[k] = NoRec THEN 0 ELSE reg'[k].name
    BY DEF AwayNames
  <2>1. ~IsActive(tab, k) /\ ~Leaving(k)
    BY DEF Leaving
  <2> QED
    BY <2>1 DEF NamesKept, AwayNames
<1> QED
  BY <1>1, <1>2 DEF NamesKept

(* Entries that keep their keys and names keep the best ones.               *)
LEMMA SameNames ==
    ASSUME NEW t, TabNames(t), NEW u, DOMAIN u = DOMAIN t,
           \A i \in DOMAIN t : /\ u[i].key = t[i].key
                               /\ u[i].name = t[i].name /\ u[i].src = t[i].src
    PROVE  TabNames(u) /\ \A k : IsActive(u, k) <=> IsActive(t, k)
BY DEF TabNames, NameIs, IsActive

(* When room is made for a device with the best name, whoever makes way     *)
(* takes his along.                                                         *)
LEMMA RoomsNames ==
    ASSUME NEW t, Good(t), TabNames(t), NEW e \in Entry, NameIs(e, known[e.key]),
           ~IsActive(t, e.key), NEW r \in Rooms(t, e)
    PROVE  /\ TabNames(r.tab)
           /\ r.demoted = NoRec => \A k : IsActive(t, k) => IsActive(r.tab, k)
           /\ r.demoted # NoRec =>
                 /\ NameIs(r.demoted, known[r.demoted.key]) /\ ~IsActive(r.tab, r.demoted.key)
                 /\ \A k : IsActive(t, k) => IsActive(r.tab, k) \/ k = r.demoted.key
<1>1. ASSUME NEW u, Good(u), TabNames(u), ~IsActive(u, e.key), Len(u) < MaxActive
      PROVE  TabNames(Append(u, e)) /\ \A k : IsActive(Append(u, e), k) <=> k = e.key \/ IsActive(u, k)
  <2>1. u \in Seq(Entry) /\ Len(u) \in Nat /\ DOMAIN u = 1 .. Len(u)
    BY <1>1, SeqFacts DEF Good
  <2>2. /\ Len(Append(u, e)) = Len(u) + 1 /\ DOMAIN Append(u, e) = 1 .. (Len(u) + 1)
        /\ Append(u, e)[Len(u) + 1] = e /\ \A i \in 1 .. Len(u) : Append(u, e)[i] = u[i]
    BY <2>1, AppendProperties, LenProperties
  <2>3. TabNames(Append(u, e))
    BY <1>1, <2>1, <2>2 DEF TabNames
  <2> QED
    BY <1>1, <2>3, AppendedIsGood
<1>2. CASE Len(t) < MaxActive
  <2>1. r.tab = Append(t, e) /\ r.demoted = NoRec
    BY <1>2 DEF Rooms
  <2> QED
    BY <1>1, <1>2, <2>1
<1>3. CASE ~(Len(t) < MaxActive)
  <2>1. PICK i \in Victims(t) : r.tab = Append(Dropped(t, i), e) /\ r.demoted = Copy(t[i])
    BY <1>3 DEF Rooms
  <2>2. i \in DOMAIN t
    BY DEF Victims, Absentees
  <2> DEFINE u == Dropped(t, i)
  <2>3. t \in Seq(Entry) /\ Len(t) \in Nat /\ DOMAIN t = 1 .. Len(t) /\ Len(t) <= MaxActive
    BY SeqFacts DEF Good
  <2>4. /\ Good(u) /\ Len(u) = Len(t) - 1 /\ \A k : IsActive(u, k) => IsActive(t, k)
        /\ \A j \in DOMAIN t \ {i} : \E l \in DOMAIN u : u[l] = t[j]
    BY <2>2, DroppedIsGood
  <2>5. \A j \in DOMAIN u : \E l \in DOMAIN t \ {i} : u[j] = t[l]
    <3> SUFFICES ASSUME NEW j \in DOMAIN u PROVE \E l \in DOMAIN t \ {i} : u[j] = t[l]
      OBVIOUS
    <3>1. DOMAIN u = 1 .. (Len(t) - 1) /\ u[j] = t[IF j = i THEN Len(t) ELSE j]
      BY DEF Dropped
    <3>2. (IF j = i THEN Len(t) ELSE j) \in DOMAIN t \ {i}
      BY <2>2, <2>3, <3>1
    <3> QED
      BY <3>1, <3>2
  <2> HIDE DEF u
  <2>6. TabNames(u)
    BY <2>5 DEF TabNames
  <2>7. ~IsActive(u, t[i].key) /\ \A k : IsActive(t, k) => IsActive(u, k) \/ k = t[i].key
    BY <2>2, <2>4, <2>5 DEF IsActive, Good
  <2>8. Len(u) < MaxActive /\ ~IsActive(u, e.key)
    BY <2>3, <2>4, <1>3, SizeAssumption
  <2>9. /\ TabNames(Append(u, e))
        /\ \A k : IsActive(Append(u, e), k) <=> k = e.key \/ IsActive(u, k)
    BY <1>1, <2>4, <2>6, <2>8
  <2>10. r.tab = Append(u, e) /\ r.demoted = Copy(t[i])
    BY <2>1 DEF u
  <2>11. Copy(t[i]).key = t[i].key /\ NameIs(Copy(t[i]), known[t[i].key])
    BY <2>2 DEF Copy, TabNames, NameIs
  <2>12. t[i].key # e.key
    BY <2>2 DEF IsActive
  <2>13. r.demoted # NoRec
    BY <2>2, <2>10, CopyIsSnapshot, SeqFacts, NothingAssumption DEF Good
  <2> QED
    BY <2>7, <2>9, <2>10, <2>11, <2>12, <2>13
<1> QED
  BY <1>2, <1>3

(* The update of an entry, in a table to which one may have been added and  *)
(* from which one, moved, may have been taken.                              *)
LEMMA SettleNames ==
    ASSUME NamesKept, TypeOK, pc = "apply", UNCHANGED <<reg, flush, known, watched>>,
           NEW t, TabNames(t), NEW k \in Key, NEW moved,
           moved = NoRec => \A x : IsActive(tab, x) => IsActive(t, x),
           moved # NoRec => /\ NameIs(moved, known[moved.key]) /\ ~IsActive(t, moved.key)
                            /\ \A x : IsActive(tab, x) => IsActive(t, x) \/ x = moved.key,
           Settled(t, k, moved), job'.primary = NoRec, pc' # "primary"
    PROVE  NamesKept'
<1>1. TabNames(tab') /\ \A x : IsActive(tab', x) <=> IsActive(t, x)
  BY SameNames DEF Settled
<1>2. TabNames(tab)'
  BY <1>1 DEF TabNames
<1>3. RecordNames'
  BY DEF NamesKept, RecordNames
<1>4. AwayNames'
  <2> SUFFICES ASSUME NEW x \in Key, ~IsActive(tab', x), ~Leaving(x)'
               PROVE  known'[x] = IF reg'[x] = NoRec THEN 0 ELSE reg'[x].name
    BY DEF AwayNames
  <2>1. ~IsActive(tab, x)
    BY <1>1 DEF Settled, Leaving
  <2>2. ~Leaving(x)
    BY DEF Leaving
  <2> QED
    BY <2>1, <2>2 DEF NamesKept, AwayNames
<1>5. LeavingName'
  <2> SUFFICES ASSUME pc' = "demoted"
               PROVE  /\ NameIs(job'.demoted, known'[job'.demoted.key])
                      /\ ~IsActive(tab', job'.demoted.key)
    BY DEF LeavingName
  <2>1. job'.demoted = moved /\ moved # NoRec
    BY DEF Settled
  <2> QED
    BY <1>1, <2>1
<1>6. CopyNames'
  <2>1. pc' # "flushWrite"
    BY DEF Settled
  <2>2. ASSUME job'.snap # NoRec PROVE Behind(job.snap)'
    <3>1. PICK i \in DOMAIN t : /\ t[i].key = k /\ job'.snap.key = k
                                /\ job'.snap.name = t[i].name /\ job'.snap.src = t[i].src
      BY <2>2 DEF Settled
    <3>2. IsActive(tab', k)
      BY <1>1, <3>1 DEF IsActive
    <3>3. job'.snap.name = known[k] /\ job'.snap.src = known[k] /\ known[k] \in Nat
      BY <3>1, SizeAssumption DEF TabNames, NameIs, TypeOK, Name
    <3>4. reg[k] # NoRec => reg[k].name <= known[k]
      BY DEF NamesKept, RecordNames
    <3> QED
      BY <3>1, <3>2, <3>3, <3>4 DEF Behind
  <2> QED
    BY <2>1, <2>2 DEF CopyNames
<1> QED
  BY <1>2, <1>3, <1>4, <1>5, <1>6 DEF NamesKept
(* With one address the tracker has no say.                                 *)
LEMMA NoVerdict ==
    ASSUME OneAddress, Placed, NEW s, Good(s.tab), s.at # NoRec => IsActive(s.tab, s.at),
           \A m \in Mac : ~watched[m], NEW v \in Verdicts(s)
    PROVE  v = "none" /\ ~Judged(s)
<1>1. ASSUME Judged(s) PROVE FALSE
  <2>1. s.at = sight.mac /\ IsActive(s.tab, s.at)
    BY <1>1, KeyFacts DEF Judged
  <2>2. s.tab[IndexIn(s.tab, s.at)] \in Entry
    BY <2>1, IndexInTable, SeqFacts DEF Good
  <2> QED
    BY <1>1, <2>2 DEF Judged, Entry, OneAddress, Placed
<1> QED
  BY <1>1 DEF Verdicts

(* A sighting keeps the names, of whomever it brings in and moves out.      *)
LEMMA ApplyNames ==
    ASSUME OneAddress, Inv, LookedUp, NamesKept, Apply
    PROVE  NamesKept'
<1>1. /\ Placed /\ TypeOK /\ Good(tab) /\ (pre # NoRec => pre.key \in {Id, sight.mac})
      /\ pc = "apply" /\ \A m \in Mac : ~watched[m]
  BY InvTab DEF Inv, Apply, ReadAheadOK, NamesKept
<1> PICK s \in Promoted : \E v \in Verdicts(s) :
        /\ Resolve(s, v)
        /\ known' = IF v = "shared" THEN [known EXCEPT ![sight.mac] = 0] ELSE known
        /\ watched' = IF Judged(s) THEN [watched EXCEPT ![sight.mac] = v # "shared"] ELSE watched
  BY DEF Apply
<1> PICK v \in Verdicts(s) :
        /\ Resolve(s, v)
        /\ known' = IF v = "shared" THEN [known EXCEPT ![sight.mac] = 0] ELSE known
        /\ watched' = IF Judged(s) THEN [watched EXCEPT ![sight.mac] = v # "shared"] ELSE watched
  OBVIOUS
<1>2. /\ Good(s.tab) /\ s.demoted \in NoneOr(Snapshot)
      /\ \/ s.at = NoRec /\ ~IsActive(s.tab, Id) /\ ~IsActive(s.tab, sight.mac)
         \/ s.at = Id /\ IsActive(s.tab, Id)
         \/ s.at = sight.mac /\ IsActive(s.tab, sight.mac) /\ ~IsActive(s.tab, Id)
  BY <1>1, PromotedFacts
<1>3. v = "none" /\ ~Judged(s)
  BY <1>1, <1>2, NoVerdict
<1>4. Declared(s, v) = s.tab /\ UNCHANGED <<reg, flush, known, watched>>
  BY <1>3 DEF Apply, Declared
<1>5. ~(s.at # NoRec /\ Splits(s.tab, s.at))
  BY <1>1, <1>2, NothingToSplit
\* Away, not leaving: the best name is the record's.
<1>6. \A x \in Key : ~IsActive(tab, x) => known[x] = IF reg[x] = NoRec THEN 0 ELSE reg[x].name
  BY <1>1 DEF NamesKept, AwayNames, Leaving
<1>7. TabNames(tab) /\ job.primary = NoRec
  BY DEF NamesKept
<1>8. CASE s.at # NoRec
  <2>1. Settle(s.tab, s.at, s.demoted, NoRec, v, FALSE)
    BY <1>3, <1>4, <1>5, <1>8 DEF Resolve
  <2>2. s.at \in Key /\ IsActive(s.tab, s.at)
    BY <1>1, <1>2, <1>8, KeyFacts
  <2>3. Settled(s.tab, s.at, s.demoted) /\ job'.primary = NoRec
    <3>1. NoRec \in NoneOr(Snapshot)
      BY DEF NoneOr
    <3> HIDE <1>6
    <3> QED
      BY <1>1, <1>2, <2>1, <2>2, <3>1, SettleWhole
  <2>4. pc' # "primary"
    BY <2>1 DEF Settle, Leave, AfterDemoted, NoJob
  <2>5. /\ TabNames(s.tab)
        /\ s.demoted = NoRec => \A x : IsActive(tab, x) => IsActive(s.tab, x)
        /\ s.demoted # NoRec =>
              /\ NameIs(s.demoted, known[s.demoted.key]) /\ ~IsActive(s.tab, s.demoted.key)
              /\ \A x : IsActive(tab, x) => IsActive(s.tab, x) \/ x = s.demoted.key
    <3> DEFINE rooms == Rooms(tab, FromRecord(pre.key, pre.rec))
    <3>1. CASE s = [tab |-> tab, demoted |-> NoRec, at |-> InHand]
      BY <1>7, <3>1
    <3>2. CASE InHand = NoRec /\ pre # NoRec
               /\ \E r \in rooms : s = [tab |-> r.tab, demoted |-> r.demoted, at |-> pre.key]
      <4>1. PICK r \in rooms : s = [tab |-> r.tab, demoted |-> r.demoted, at |-> pre.key]
        BY <3>2
      <4>2. pre.key \in Key /\ pre.rec \in Payload /\ pre.key \in {Id, sight.mac}
        BY <1>1, <3>2 DEF TypeOK, NoneOr
      <4>3. ~IsActive(tab, pre.key)
        BY <1>1, <3>2, <4>2, KeyFacts DEF InHand
      <4>4. pre.rec = reg[pre.key] /\ reg[pre.key] # NoRec
        BY <3>2, <4>2, NothingAssumption DEF LookedUp
      <4>5. known[pre.key] = pre.rec.name /\ pre.rec.src = pre.rec.name
        BY <1>6, <4>2, <4>3, <4>4 DEF NamesKept, RecordNames
      <4> DEFINE e == FromRecord(pre.key, pre.rec)
      <4>6. e \in Entry /\ e.key = pre.key /\ NameIs(e, known[e.key])
        BY <4>2, <4>5, FromRecordIsEntry DEF FromRecord, NameIs
      <4>7. r \in Rooms(tab, e) /\ ~IsActive(tab, e.key)
        BY <4>3, <4>6
      <4> HIDE DEF e
      <4>8. /\ TabNames(r.tab)
            /\ r.demoted = NoRec => \A x : IsActive(tab, x) => IsActive(r.tab, x)
            /\ r.demoted # NoRec =>
                  /\ NameIs(r.demoted, known[r.demoted.key]) /\ ~IsActive(r.tab, r.demoted.key)
                  /\ \A x : IsActive(tab, x) => IsActive(r.tab, x) \/ x = r.demoted.key
        BY <1>1, <1>7, <4>6, <4>7, RoomsNames
      <4> QED
        BY <4>1, <4>8
    <3> QED
      BY <3>1, <3>2 DEF Promoted
  <2> HIDE <1>6
  <2> QED
    BY <1>1, <1>4, <2>2, <2>3, <2>4, <2>5, SettleNames
<1>9. CASE s.at = NoRec
  <2>1. s.tab = tab /\ s.demoted = NoRec
    <3>1. ASSUME NEW r, s = [tab |-> r.tab, demoted |-> r.demoted, at |-> pre.key], pre # NoRec
          PROVE  FALSE
      BY <1>1, <1>9, <3>1, KeyFacts
    <3> QED
      BY <3>1 DEF Promoted
  <2> DEFINE k == sight.mac
             e == [Blank(k) EXCEPT !.shared = FALSE]
  <2>2. e \in Entry /\ e.key = k /\ k \in Key /\ ~IsActive(tab, k) /\ e.name = 0 /\ e.src = 0
    BY <1>1, <1>2, <1>9, <2>1, BlankIsEntry, KeyFacts DEF Blank
  <2>3. CASE Rooms(tab, e) = {}
    <3>1. TableFull(tab, FALSE, NoRec)
      BY <1>3, <1>4, <1>5, <1>9, <2>1, <2>3 DEF Resolve
    <3>2. tab' = tab /\ job'.primary = NoRec /\ pc' = "full"
      BY <3>1, FullShape
    <3>3. TabNames(tab)' /\ \A m \in Mac : watched'[m] => watched[m]
      BY <1>4, <1>7, <3>2 DEF TabNames
    <3> QED
      BY <1>1, <1>4, <3>2, <3>3, QuietNames
  <2>4. CASE Rooms(tab, e) # {}
    <3>1. reg[k] = NoRec
      <4>1. Rooms(Declared(s, v), e) # {}
        BY <1>4, <2>1, <2>4
      <4> HIDE DEF e
      <4>2. InHand = NoRec /\ pre = NoRec
        BY <1>1, <1>9, <4>1, NewcomerUnread
      <4> QED
        BY <1>1, <4>2 DEF LookedUp
    <3>2. NameIs(e, known[e.key])
      BY <1>6, <2>2, <3>1 DEF NameIs
    <3>3. PICK r \in Rooms(tab, e) :
             Settle([r.tab EXCEPT ![Len(r.tab)].shared = @ \/ HasSibling(r.tab, k)],
                    k, IF r.demoted # NoRec THEN r.demoted ELSE NoRec, NoRec, v, TRUE)
      BY <1>3, <1>4, <1>5, <1>9, <2>1, <2>4 DEF Resolve
    <3> DEFINE n == Len(r.tab)
               d == [r.tab[n] EXCEPT !.shared = @ \/ HasSibling(r.tab, k)]
               u == [r.tab EXCEPT ![n] = d]
    <3>4. Settle(u, k, r.demoted, NoRec, v, TRUE)
      BY <3>3
    <3>5. pc' # "primary"
      BY <3>4 DEF Settle, Leave, AfterDemoted, NoJob
    <3> HIDE DEF e
    <3>6. /\ Good(r.tab) /\ n \in DOMAIN r.tab /\ r.tab[n] = e
          /\ r.demoted \in NoneOr(Snapshot)
      BY <1>1, <2>2, RoomsAreGood
    <3>7. /\ TabNames(r.tab)
          /\ r.demoted = NoRec => \A x : IsActive(tab, x) => IsActive(r.tab, x)
          /\ r.demoted # NoRec =>
                /\ NameIs(r.demoted, known[r.demoted.key]) /\ ~IsActive(r.tab, r.demoted.key)
                /\ \A x : IsActive(tab, x) => IsActive(r.tab, x) \/ x = r.demoted.key
      BY <1>1, <1>7, <2>2, <3>2, RoomsNames
    <3>8. /\ d \in Entry /\ d.key = r.tab[n].key /\ d.key = k
          /\ d.name = r.tab[n].name /\ d.src = r.tab[n].src
      <4>1. d = [e EXCEPT !.shared = @ \/ HasSibling(r.tab, k)] /\ HasSibling(r.tab, k) \in BOOLEAN
        BY <3>6 DEF HasSibling
      <4> QED
        BY <2>2, <3>6, <4>1 DEF Entry
    <3> HIDE DEF n, d
    <3>9. Good(u) /\ DOMAIN u = DOMAIN r.tab /\ u[n] = d
      BY <3>6, <3>8, ReplacedIsGood
    <3>10. TabNames(u) /\ \A x : IsActive(u, x) <=> IsActive(r.tab, x)
      <4>1. \A i \in DOMAIN r.tab : /\ u[i].key = r.tab[i].key
                                    /\ u[i].name = r.tab[i].name /\ u[i].src = r.tab[i].src
        BY <3>8, <3>9
      <4> QED
        BY <3>7, <3>9, <4>1, SameNames
    <3>11. IsActive(u, k)
      BY <3>6, <3>8, <3>9 DEF IsActive
    <3> HIDE DEF u, k
    <3>12. Settled(u, k, r.demoted) /\ job'.primary = NoRec
      <4>1. Good(u) /\ IsActive(u, k) /\ k \in Key /\ r.demoted \in NoneOr(Snapshot)
            /\ NoRec \in NoneOr(Snapshot) /\ Placed
        BY <1>1, <2>2, <3>6, <3>9, <3>11 DEF NoneOr
      <4> HIDE <1>6
      <4> QED
        BY <3>4, <4>1, SettleWhole
    <3> HIDE <1>6
    <3> QED
      BY <1>1, <1>4, <2>2, <3>5, <3>7, <3>10, <3>12, SettleNames
  <2> QED
    BY <2>3, <2>4
<1> QED
  BY <1>8, <1>9
(* A name from a better source is the best name, in the table as outside.   *)
LEMMA DiscoveryNames ==
    ASSUME Inv, NamesKept, NEW k \in Key, NEW r \in Name, SetHostname(k, r)
    PROVE  NamesKept'
<1> DEFINE i == IndexIn(tab, k)
           c == IF r >= tab[i].src THEN [tab[i] EXCEPT !.name = r, !.src = r] ELSE tab[i]
           d == [c EXCEPT !.dirty = TRUE]
<1>1. /\ i \in DOMAIN tab /\ tab[i] \in Entry /\ tab[i].key = k /\ Good(tab)
      /\ known \in [Key -> Name] /\ reg \in [Key -> NoneOr(Payload)]
      /\ NameIs(tab[i], known[k])
  BY IndexInTable, EntriesOfTab, InvTab DEF SetHostname, Inv, TypeOK, NamesKept, TabNames
<1>2. known[k] \in Nat /\ r \in Nat
  BY <1>1, SizeAssumption DEF Name
<1>3. /\ c \in Entry /\ c.key = k /\ c.src = c.name
      /\ c.name >= known[k] /\ c.name \in Nat
  <2> HIDE DEF i
  <2>1. CASE r >= tab[i].src
    <3>1. c = [tab[i] EXCEPT !.name = r, !.src = r]
      BY <2>1
    <3>2. c \in Entry /\ c.key = k /\ c.name = r /\ c.src = r
      BY <1>1, <3>1 DEF Entry
    <3>3. tab[i].src = known[k]
      BY <1>1 DEF NameIs
    <3> HIDE DEF c
    <3> QED
      BY <1>2, <2>1, <3>2, <3>3
  <2>2. CASE ~ (r >= tab[i].src)
    <3>1. c = tab[i]
      BY <2>2
    <3>2. c \in Entry /\ c.key = k /\ c.name = known[k] /\ c.src = known[k]
      BY <1>1, <3>1 DEF NameIs
    <3> HIDE DEF c
    <3> QED
      BY <1>2, <3>2
  <2> QED
    BY <2>1, <2>2
<1>4. c.name >= known[k] /\ c.name \in Nat
  BY <1>3
<1>5. /\ tab' = [tab EXCEPT ![i] = d] /\ UNCHANGED <<reg, scannerVars, user, watched>>
      /\ known' = [known EXCEPT ![k] = IF c.name > @ THEN c.name ELSE @]
  BY DEF SetHostname
<1> HIDE DEF c
<1>6. d \in Entry /\ d.key = k /\ NameIs(d, c.name)
  BY <1>3 DEF Entry, NameIs
<1> HIDE DEF d, i
<1>7. known' = [known EXCEPT ![k] = c.name]
  <2>1. (IF c.name > known[k] THEN c.name ELSE known[k]) = c.name
    BY <1>2, <1>4
  <2>2. known' = [known EXCEPT ![k] = IF c.name > known[k] THEN c.name ELSE known[k]]
    BY <1>1, <1>5
  <2> QED
    BY <2>1, <2>2
<1>8. \A x \in Key : x # k => known'[x] = known[x]
  BY <1>1, <1>7
<1>9. \A x \in Key : known'[x] >= known[x]
  <2>1. \A x \in Key : known[x] \in Nat
    BY <1>1, SizeAssumption DEF Name
  <2> QED
    BY <1>1, <1>4, <1>7, <2>1
<1>10. known'[k] = c.name
  BY <1>1, <1>7
<1>11. \A x : IsActive(tab', x) <=> IsActive(tab, x)
  BY <1>1, <1>5, <1>6, ReplacedIsGood
<1>12. TabNames(tab)'
  <2> SUFFICES ASSUME NEW j \in DOMAIN tab' PROVE NameIs(tab'[j], known'[tab'[j].key])
    BY DEF TabNames
  <2>1. CASE j = i
    BY <1>1, <1>5, <1>6, <1>10, <2>1
  <2>2. CASE j # i
    <3>1. j \in DOMAIN tab /\ tab'[j] = tab[j]
      BY <1>5, <2>2
    <3>2. tab[j].key # k /\ tab[j].key \in Key
      BY <1>1, <2>2, <3>1, EntriesOfTab DEF Good, Entry
    <3> QED
      BY <1>8, <3>1, <3>2 DEF NamesKept, TabNames
  <2> QED
    BY <2>1, <2>2
<1>13. IsActive(tab, k)
  BY DEF SetHostname
<1>14. /\ pc' = pc /\ job' = job /\ flush' = flush /\ reg' = reg /\ watched' = watched
       /\ \A x \in Key : known[x] \in Nat /\ (reg[x] # NoRec => reg[x].name \in Nat)
  BY <1>1, <1>5, SizeAssumption DEF scannerVars, Name, NoneOr, Payload
<1>15. RecordNames'
  <2> SUFFICES ASSUME NEW x \in Key, reg[x] # NoRec
               PROVE  reg[x].src = reg[x].name /\ reg[x].name <= known'[x]
    BY <1>14 DEF RecordNames
  <2>1. reg[x].src = reg[x].name /\ reg[x].name <= known[x]
    BY DEF NamesKept, RecordNames
  <2>2. known'[x] \in Nat
    BY <1>4, <1>8, <1>10, <1>14
  <2> QED
    BY <1>9, <1>14, <2>1, <2>2
<1>16. AwayNames'
  <2> SUFFICES ASSUME NEW x \in Key, ~IsActive(tab', x), ~Leaving(x)'
               PROVE  known'[x] = IF reg'[x] = NoRec THEN 0 ELSE reg'[x].name
    BY DEF AwayNames
  <2>1. ~IsActive(tab, x) /\ ~Leaving(x) /\ x # k
    BY <1>11, <1>13, <1>14 DEF Leaving
  <2> QED
    BY <1>8, <1>14, <2>1 DEF NamesKept, AwayNames
<1>17. LeavingName'
  <2> SUFFICES ASSUME pc = "demoted"
               PROVE  /\ NameIs(job.demoted, known'[job.demoted.key])
                      /\ ~IsActive(tab', job.demoted.key)
    BY <1>14 DEF LeavingName
  <2>1. NameIs(job.demoted, known[job.demoted.key]) /\ ~IsActive(tab, job.demoted.key)
    BY DEF NamesKept, LeavingName
  <2>2. job.demoted.key \in Key /\ job.demoted.key # k
    BY <1>13, <2>1 DEF Inv, Writable, Snapshot
  <2> QED
    BY <1>8, <1>11, <2>1, <2>2
<1>18. ASSUME NEW s \in Snapshot, Behind(s)
       PROVE  /\ IsActive(tab', s.key) /\ s.src = s.name /\ s.name <= known'[s.key]
              /\ reg'[s.key] # NoRec => reg'[s.key].name <= s.name
  <2>1. s.key \in Key /\ s.name \in Nat
    BY SizeAssumption DEF Snapshot, Name
  <2>2. known'[s.key] \in Nat
    BY <1>4, <1>8, <1>10, <1>14, <2>1
  <2>3. s.name <= known'[s.key]
    BY <1>9, <1>14, <1>18, <2>1, <2>2 DEF Behind
  <2> QED
    BY <1>11, <1>14, <1>18, <2>3 DEF Behind
<1>19. CopyNames'
  <2>1. ASSUME pc \in {"demoted", "persist"}, job.snap # NoRec
        PROVE  Behind(job.snap)'
    <3>1. job.snap \in Snapshot /\ Behind(job.snap)
      BY <2>1 DEF NamesKept, CopyNames, Inv, TypeOK, Job, NoneOr
    <3> QED
      BY <1>14, <1>18, <3>1 DEF Behind
  <2>2. ASSUME pc = "flushWrite"
        PROVE  Behind(flush.snap)'
    <3>1. flush.snap \in Snapshot /\ Behind(flush.snap)
      BY <2>2 DEF NamesKept, CopyNames, Inv, Writable
    <3> QED
      BY <1>14, <1>18, <3>1 DEF Behind
  <2> QED
    BY <1>14, <2>1, <2>2 DEF CopyNames
<1> QED
  BY <1>12, <1>14, <1>15, <1>16, <1>17, <1>19 DEF NamesKept

(* After a boot, what is known is what was recorded.                        *)
LEMMA RestartNames ==
    ASSUME Inv, NamesKept, Restart
    PROVE  NamesKept'
<1>1. /\ reg \in [Key -> NoneOr(Payload)] /\ UNCHANGED reg
      /\ known' = [k \in Key |-> IF reg[k] = NoRec THEN 0 ELSE reg[k].name]
      /\ pc' = "idle" /\ job' = NoJob /\ watched' = [m \in Mac |-> FALSE]
  BY DEF Restart, Inv, TypeOK
<1>2. \A k \in Key : known'[k] = IF reg'[k] = NoRec THEN 0 ELSE reg'[k].name
  BY <1>1
<1>3. RecordNames'
  <2>1. \A k \in Key : reg[k] # NoRec => reg[k].name \in Nat
    BY <1>1, SizeAssumption DEF NoneOr, Payload, Name
  <2> QED
    BY <1>1, <1>2, <2>1 DEF NamesKept, RecordNames
<1>4. TabNames(tab)'
  <2> DEFINE n == IF Cardinality(Store!Remembered) < BootActive
                  THEN Cardinality(Store!Remembered) ELSE BootActive
  <2>1. PICK f \in [1 .. n -> Store!Remembered] :
           tab' = [i \in 1 .. n |-> FromRecord(f[i], reg[f[i]])]
    BY DEF Restart, Loaded
  <2> HIDE DEF n
  <2>2. ASSUME NEW i \in 1 .. n
        PROVE  NameIs(tab'[i], known'[tab'[i].key])
    <3>1. f[i] \in Key /\ reg[f[i]] # NoRec
      BY <2>1 DEF Store!Remembered
    <3>2. /\ tab'[i].key = f[i] /\ tab'[i].name = reg[f[i]].name
          /\ tab'[i].src = reg[f[i]].src
      BY <2>1 DEF FromRecord
    <3> QED
      BY <1>1, <1>2, <3>1, <3>2 DEF NameIs, NamesKept, RecordNames
  <2> QED
    BY <2>1, <2>2 DEF TabNames
<1> QED
  BY <1>1, <1>2, <1>3, <1>4 DEF NamesKept, AwayNames, LeavingName, CopyNames, NoJob
(* A write of one device, that gives its record the best name or, if it is  *)
(* active, any that is known.                                               *)
LEMMA WriteNames ==
    ASSUME NamesKept, TypeOK, UNCHANGED <<tab, known, watched, flush>>,
           pc # "flushWrite", pc' \notin {"demoted", "primary", "flushWrite"},
           NEW k \in Key, NEW p \in Payload, reg' = [reg EXCEPT ![k] = p],
           p.src = p.name, p.name <= known[k], ~IsActive(tab, k) => p.name = known[k],
           \A x \in Key : Leaving(x) => x = k,
           pc' = "persist" => pc = "demoted" /\ job'.snap = job.snap /\ k = job.demoted.key,
           job'.primary = NoRec
    PROVE  NamesKept'
<1>1. reg \in [Key -> NoneOr(Payload)] /\ p # NoRec
  BY NothingAssumption DEF TypeOK
<1>2. TabNames(tab)'
  BY DEF NamesKept, TabNames
<1>3. RecordNames'
  BY <1>1 DEF NamesKept, RecordNames
<1>4. AwayNames'
  <2> SUFFICES ASSUME NEW x \in Key, ~IsActive(tab, x)
               PROVE  known[x] = IF reg'[x] = NoRec THEN 0 ELSE reg'[x].name
    BY DEF AwayNames
  <2>1. CASE x = k
    BY <1>1, <2>1
  <2>2. CASE x # k
    BY <1>1, <2>2 DEF NamesKept, AwayNames
  <2> QED
    BY <2>1, <2>2
<1>5. LeavingName'
  BY DEF LeavingName
<1>6. CopyNames'
  <2> SUFFICES ASSUME pc' = "persist", job'.snap # NoRec PROVE Behind(job.snap)'
    BY DEF CopyNames
  <2>1. Behind(job.snap) /\ ~IsActive(tab, k)
    BY DEF NamesKept, CopyNames, LeavingName
  <2>2. job.snap.key # k
    BY <2>1 DEF Behind
  <2>3. reg'[job.snap.key] = reg[job.snap.key]
    BY <1>1, <2>2
  <2> QED
    BY <2>1, <2>3 DEF Behind
<1> QED
  BY <1>2, <1>3, <1>4, <1>5, <1>6 DEF NamesKept

(* The write of a copy that is behind.                                      *)
LEMMA BehindWrite ==
    ASSUME RoomForAll, NamesKept, TypeOK, NEW c \in Snapshot, Behind(c), StoreDevice(c)
    PROVE  \E p \in Payload : /\ reg' = [reg EXCEPT ![c.key] = p]
                              /\ p.src = p.name /\ p.name <= known[c.key]
<1>1. c.key \in Key /\ reg \in [Key -> NoneOr(Payload)]
  BY DEF Snapshot, TypeOK
<1> DEFINE p == Merged(reg[c.key], c)
<1>2. reg' = [reg EXCEPT ![c.key] = p]
  BY <1>1, RoomyStore
<1>3. p \in Payload
  BY <1>1, MergedIsPayload
<1>4. p.name = c.name /\ p.src = c.name
  BY <1>1, MergedName DEF Behind
<1> HIDE DEF p
<1>5. p.src = p.name /\ p.name <= known[c.key]
  BY <1>4 DEF Behind
<1> QED
  BY <1>2, <1>3, <1>5

(* The other steps keep the names.                                          *)
LEMMA OthersNames ==
    ASSUME RoomForAll, UserOps = {}, Inv, LookedUp, NamesKept, [Next]_vars, ~Apply
    PROVE  NamesKept'
<1>1. /\ TypeOK /\ Good(tab) /\ ~HttpServer /\ job \in Job /\ job.primary = NoRec
      /\ reg \in [Key -> NoneOr(Payload)] /\ known \in [Key -> Name] /\ pc # "primary"
      /\ TabNames(tab) /\ \A m \in Mac : ~watched[m]
  BY InvTab, NoRequests DEF Inv, LookedUp, NamesKept, TypeOK
<1>2. ASSUME UNCHANGED <<tab, reg, known, watched>>, job' = job \/ job' = NoJob,
             pc \notin {"demoted", "persist", "flushWrite"},
             pc' \notin {"demoted", "persist", "flushWrite", "primary"}
      PROVE  NamesKept'
  <2>1. TabNames(tab)' /\ job'.primary = NoRec
    BY <1>1, <1>2 DEF TabNames, NoJob
  <2> QED
    BY <1>2, <2>1, QuietNames
<1>3. ASSUME UNCHANGED <<reg, known, job>>, \A m \in Mac : watched'[m] => watched[m],
             DOMAIN tab' = DOMAIN tab,
             \A i \in DOMAIN tab : /\ tab'[i].key = tab[i].key
                                   /\ tab'[i].name = tab[i].name /\ tab'[i].src = tab[i].src,
             pc \notin {"demoted", "persist", "flushWrite"},
             pc' \notin {"demoted", "persist", "flushWrite", "primary"}
      PROVE  NamesKept'
  <2>1. TabNames(tab') /\ \A k : IsActive(tab', k) <=> IsActive(tab, k)
    BY <1>1, <1>3, SameNames
  <2>2. TabNames(tab)'
    BY <1>3, <2>1 DEF TabNames
  <2> QED
    BY <1>1, <1>3, <2>1, <2>2, QuietNames
<1>4. CASE (\E m \in Mac, a \in Addr : Sighted(m, a)) \/ ReadId \/ ReadMac \/ Announce
  BY <1>2, <1>4 DEF Sighted, ReadId, ReadMac, ReadAhead, Announce
<1>5. CASE WriteDemoted
  <2> DEFINE d == job.demoted
             p == Merged(reg[d.key], d)
  <2>1. d \in Snapshot /\ NameIs(d, known[d.key]) /\ ~IsActive(tab, d.key) /\ StoreDevice(d)
    BY <1>5 DEF WriteDemoted, Inv, Writable, NamesKept, LeavingName
  <2>2. d.key \in Key
    BY <2>1 DEF Snapshot
  <2>3. reg[d.key] # NoRec => reg[d.key].name <= d.name
    BY <2>1, <2>2 DEF NamesKept, RecordNames, NameIs
  <2>4. reg' = [reg EXCEPT ![d.key] = p]
    BY <1>1, <2>1, RoomyStore
  <2>5. p \in Payload /\ p.name = d.name /\ p.src = d.name
    BY <1>1, <2>1, <2>2, <2>3, MergedIsPayload, MergedName DEF NameIs
  <2>6. p.src = p.name /\ p.name = known[d.key] /\ p.name <= known[d.key]
    BY <1>1, <2>1, <2>2, <2>5, SizeAssumption DEF NameIs, Name
  <2>7. /\ UNCHANGED <<tab, known, watched, flush>> /\ pc = "demoted" /\ pc' = AfterDemoted(job)
        /\ job'.snap = job.snap /\ job'.primary = NoRec
    BY <1>1, <1>5 DEF WriteDemoted, Job
  <2>8. pc' \notin {"demoted", "primary", "flushWrite"}
    BY <1>1, <2>7 DEF AfterDemoted
  <2>9. \A x \in Key : Leaving(x) => x = d.key
    BY DEF Leaving
  <2> HIDE DEF p
  <2> QED
    BY <1>1, <2>2, <2>4, <2>5, <2>6, <2>7, <2>8, <2>9, WriteNames
<1>6. CASE RegisterOnly
  <2>1. job.key \in Key /\ job.hw \in Key /\ Placed
    BY <1>6 DEF RegisterOnly, Inv, Writable, ReadAheadOK
  <2> DEFINE k == job.key
             p == IF reg[k] # NoRec
                  THEN [reg[k] EXCEPT !.ip = sight.ip]
                  ELSE [hw |-> job.hw, nick |-> NoNick, name |-> 0, src |-> 0,
                        ip |-> sight.ip, shared |-> job.split]
  <2>2. p \in Payload
    BY <1>1, <2>1, Zeros DEF Payload, NoneOr, Placed, Job
  <2>3. Store!Write(k, p) \/ Store!Refuse(k)
    BY <1>6 DEF RegisterOnly
  <2>4. p.src = p.name /\ p.name <= known[k] /\ (~IsActive(tab, k) => p.name = known[k])
    <3>1. known[k] \in Nat
      BY <1>1, <2>1, SizeAssumption DEF Name
    <3>2. CASE reg[k] # NoRec
      <4>1. p.name = reg[k].name /\ p.src = reg[k].src
        BY <1>1, <2>1, <3>2 DEF NoneOr, Payload
      <4>2. reg[k].src = reg[k].name /\ reg[k].name <= known[k]
        BY <2>1, <3>2 DEF NamesKept, RecordNames
      <4>3. ~IsActive(tab, k) => reg[k].name = known[k]
        BY <1>6, <2>1, <3>2 DEF NamesKept, AwayNames, RegisterOnly, Leaving
      <4> QED
        BY <4>1, <4>2, <4>3
    <3>3. CASE reg[k] = NoRec
      <4>1. p.name = 0 /\ p.src = 0
        BY <3>3
      <4>2. ~IsActive(tab, k) => 0 = known[k]
        BY <1>6, <2>1, <3>3 DEF NamesKept, AwayNames, RegisterOnly, Leaving
      <4> QED
        BY <3>1, <4>1, <4>2
    <3> QED
      BY <3>2, <3>3
  <2>5. UNCHANGED <<tab, known, watched, flush, job>> /\ pc = "full" /\ pc' = "announce"
    BY <1>6 DEF RegisterOnly
  <2> HIDE DEF p, k
  <2>6. k \in Key
    BY <2>1 DEF k
  <2>7. reg' = [reg EXCEPT ![k] = p]
    BY <2>3, <2>6, RoomyWrite
  <2>8. \A x \in Key : Leaving(x) => x = k
    BY <2>5 DEF Leaving
  <2> QED
    BY <1>1, <2>2, <2>4, <2>5, <2>6, <2>7, <2>8, WriteNames
<1>7. CASE Persist
  <2> DEFINE c == job.snap
  <2>1. c \in Snapshot /\ StoreDevice(c)
    BY <1>7 DEF Persist, Inv, Writable
  <2>2. Behind(c) /\ c.key \in Key
    BY <1>7, <2>1, NothingAssumption DEF Persist, NamesKept, CopyNames, Snapshot
  <2> HIDE DEF c
  <2>3. PICK p \in Payload : /\ reg' = [reg EXCEPT ![c.key] = p]
                             /\ p.src = p.name /\ p.name <= known[c.key]
    BY <1>1, <2>1, <2>2, BehindWrite
  <2>4. /\ UNCHANGED <<tab, known, watched, flush>> /\ pc = "persist" /\ pc' = "clean"
        /\ job'.primary = NoRec
    BY <1>1, <1>7 DEF Persist, Job
  <2>5. IsActive(tab, c.key) /\ \A x \in Key : Leaving(x) => x = c.key
    BY <2>2, <2>4 DEF Behind, Leaving
  <2> QED
    BY <1>1, <2>2, <2>3, <2>4, <2>5, WriteNames
<1>8. CASE Clean
  <2>1. /\ DOMAIN tab' = DOMAIN tab
        /\ \A i \in DOMAIN tab : /\ tab'[i].key = tab[i].key
                                 /\ tab'[i].name = tab[i].name /\ tab'[i].src = tab[i].src
    BY <1>8 DEF Clean
  <2> QED
    BY <1>3, <1>8, <2>1 DEF Clean
<1>9. ASSUME NEW due \in BOOLEAN, SweepEnd(due)
      PROVE  NamesKept'
  <2>1. \A i \in DOMAIN tab : /\ Aged(tab[i]).key = tab[i].key
                              /\ Aged(tab[i]).name = tab[i].name /\ Aged(tab[i]).src = tab[i].src
    BY DEF Aged
  <2>2. DOMAIN tab' = DOMAIN tab /\ \A i \in DOMAIN tab : tab'[i] = Aged(tab[i])
    BY <1>9 DEF SweepEnd
  <2> QED
    BY <1>3, <1>9, <2>1, <2>2 DEF SweepEnd
<1>10. CASE FlushTake
  <2>1. CASE ~(flush.at > Len(tab)) /\ tab[flush.at].dirty
    <3> DEFINE x == tab[flush.at]
               d == [x EXCEPT !.dirty = FALSE]
    <3>1. flush.at \in DOMAIN tab
      BY <1>10, <2>1, EntriesOfTab DEF FlushTake, Inv, FlushOK, TypeOK
    <3>2. /\ tab' = [tab EXCEPT ![flush.at] = d] /\ pc = "flush" /\ pc' = "flushWrite"
          /\ flush' = [flush EXCEPT !.snap = Copy(x)] /\ UNCHANGED <<reg, job, known, watched>>
      BY <1>10, <2>1 DEF FlushTake
    <3>3. x \in Entry /\ NameIs(x, known[x.key]) /\ x.key \in Key
      BY <1>1, <3>1, EntriesOfTab DEF TabNames, Entry
    <3>4. d.key = x.key /\ d.name = x.name /\ d.src = x.src
      BY <3>3 DEF Entry
    <3>5. /\ DOMAIN tab' = DOMAIN tab
          /\ \A i \in DOMAIN tab : /\ tab'[i].key = tab[i].key
                                   /\ tab'[i].name = tab[i].name /\ tab'[i].src = tab[i].src
      <4> HIDE DEF d
      <4> QED
        BY <3>1, <3>2, <3>4
    <3>6. TabNames(tab') /\ \A k : IsActive(tab', k) <=> IsActive(tab, k)
      BY <1>1, <3>5, SameNames
    <3>7. TabNames(tab)'
      BY <3>2, <3>6 DEF TabNames
    <3>8. RecordNames' /\ LeavingName'
      BY <3>2 DEF NamesKept, RecordNames, LeavingName
    <3>9. AwayNames'
      <4> SUFFICES ASSUME NEW k \in Key, ~IsActive(tab', k)
                   PROVE  known'[k] = IF reg'[k] = NoRec THEN 0 ELSE reg'[k].name
        BY DEF AwayNames
      <4>1. ~IsActive(tab, k) /\ ~Leaving(k)
        BY <3>2, <3>6 DEF Leaving
      <4> QED
        BY <3>2, <4>1 DEF NamesKept, AwayNames
    <3>10. flush'.snap = Copy(x)
      BY <1>1, <3>2 DEF TypeOK
    <3>11. Behind(flush.snap)'
      <4>1. Copy(x).key = x.key /\ Copy(x).name = x.name /\ Copy(x).src = x.src
        BY DEF Copy
      <4>2. IsActive(tab', x.key)
        BY <3>1, <3>6 DEF IsActive
      <4>3. x.src = x.name /\ x.name = known[x.key] /\ known[x.key] \in Nat
        BY <1>1, <3>3, SizeAssumption DEF NameIs, Name
      <4>4. reg[x.key] # NoRec => reg[x.key].name <= x.name
        BY <3>3, <4>3 DEF NamesKept, RecordNames
      <4> HIDE DEF x
      <4> QED
        BY <3>2, <3>10, <4>1, <4>2, <4>3, <4>4 DEF Behind
    <3>12. CopyNames'
      BY <3>2, <3>11 DEF CopyNames
    <3> QED
      BY <1>1, <3>2, <3>7, <3>8, <3>9, <3>12 DEF NamesKept
  <2>2. CASE ~(~(flush.at > Len(tab)) /\ tab[flush.at].dirty)
    BY <1>2, <1>10, <2>2 DEF FlushTake
  <2> QED
    BY <2>1, <2>2
<1>11. CASE FlushWrite
  <2> DEFINE c == flush.snap
  <2>1. c \in Snapshot /\ StoreDevice(c) /\ Behind(c) /\ c.key \in Key
    BY <1>11 DEF FlushWrite, Inv, Writable, NamesKept, CopyNames, Snapshot
  <2> HIDE DEF c
  <2>2. PICK p \in Payload : /\ reg' = [reg EXCEPT ![c.key] = p]
                             /\ p.src = p.name /\ p.name <= known[c.key]
    BY <1>1, <2>1, BehindWrite
  <2>3. UNCHANGED <<tab, job, known, watched>> /\ pc = "flushWrite" /\ pc' = "flush"
    BY <1>11 DEF FlushWrite
  <2>4. TabNames(tab)' /\ LeavingName' /\ CopyNames'
    BY <1>1, <2>3 DEF TabNames, LeavingName, CopyNames
  <2>5. RecordNames'
    BY <1>1, <2>1, <2>2, <2>3 DEF NamesKept, RecordNames
  <2>6. AwayNames'
    <3> SUFFICES ASSUME NEW k \in Key, ~IsActive(tab, k)
                 PROVE  known[k] = IF reg'[k] = NoRec THEN 0 ELSE reg'[k].name
      BY <2>3 DEF AwayNames
    <3>1. k # c.key
      BY <2>1 DEF Behind
    <3>2. reg'[k] = reg[k] /\ ~Leaving(k)
      BY <1>1, <2>2, <2>3, <3>1 DEF Leaving
    <3> QED
      BY <3>2 DEF NamesKept, AwayNames
  <2> QED
    BY <1>1, <2>3, <2>4, <2>5, <2>6 DEF NamesKept
<1>12. CASE UNCHANGED vars
  BY <1>12 DEF vars, scannerVars, NamesKept, TabNames, RecordNames, AwayNames, LeavingName,
               CopyNames, Leaving, Behind
<1>13. CASE Discovery
  BY <1>13, DiscoveryNames DEF Discovery
<1>14. CASE Restart
  BY <1>14, RestartNames
<1> QED
  BY <1>1, <1>4, <1>5, <1>6, <1>7, <1>8, <1>9, <1>10, <1>11, <1>12, <1>13, <1>14
     DEF Next, Scanner, WritePrimary
(* Whoever makes way for a newcomer, and whenever power is lost, the record *)
(* of a device that is not in the table has the best name anyone found for  *)
(* it, or none has been found: for any number of devices, sizes of table    *)
(* and ranks of sources, while no MAC answers at two addresses, the         *)
(* register has room and users ask for nothing.                             *)
THEOREM NamesOutlive ==
    ASSUME RoomForAll, OneAddress, UserOps = {}
    PROVE  Spec => []NothingLost
<1>1. Init => Inv /\ LookedUp /\ NamesKept
  <2> SUFFICES ASSUME Init PROVE LookedUp /\ NamesKept
    BY InvInit
  <2>1. LookedUp
    BY DEF Init, NoJob, LookedUp
  <2>2. NamesKept
    BY DEF Init, Store!RegisterInit, NoJob, NamesKept, TabNames, RecordNames, AwayNames,
           LeavingName, CopyNames
  <2> QED
    BY <2>1, <2>2
<1>2. Inv /\ LookedUp /\ NamesKept /\ [Next]_vars => Inv' /\ LookedUp' /\ NamesKept'
  <2> SUFFICES ASSUME Inv, LookedUp, NamesKept, [Next]_vars PROVE LookedUp' /\ NamesKept'
    BY InvNext, InvStutter
  <2> QED
    BY ApplyLookedUp, OthersLookedUp, ApplyNames, OthersNames
<1>3. Inv /\ NamesKept => NothingLost
  <2> SUFFICES ASSUME Inv, NamesKept, NEW k \in Key, ~IsActive(tab, k), ~InFlight(k), reg[k] # NoRec
               PROVE  reg[k].name >= known[k]
    BY DEF NothingLost
  <2>1. reg[k].name = known[k]
    BY DEF NamesKept, AwayNames, InFlight, Leaving
  <2>2. known[k] \in Nat
    BY SizeAssumption DEF Inv, TypeOK, Name
  <2> QED
    BY <2>1, <2>2
<1> QED
  BY <1>1, <1>2, <1>3, PTL DEF Spec
=============================================================================
