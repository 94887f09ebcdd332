--------------------------- MODULE DevStoreProofs ---------------------------
(***************************************************************************)
(* Proofs about the device register's file and index, for any keys,        *)
(* fingerprints, capacity and number of faults.                            *)
(*                                                                         *)
(* Consistent is inductive: the count of records is the number of slots    *)
(* the index has in use, which bounds it, and no slot past the known end   *)
(* of the file is in use; a device with a nickname keeps its slot by it.   *)
(* Faithful, which builds on it, is what holds until a write fails: the    *)
(* file has one record a device and the index is right, so that each step  *)
(* is one of the register's, or none.                                      *)
(***************************************************************************)
EXTENDS DevStore, FiniteSetTheorems, WellFoundedInduction, TLAPS

Content == Record \cup {Free, Absent}

InUse(h) == {i \in Slot : h[i] # 0}

Consistent == TypeOK /\ UsedIsCount /\ IndexInFile

Faithful == Consistent /\ IndexMatchesFile /\ OneRecordPerKey

-----------------------------------------------------------------------------
(* Lemmas *)

(* The markers for free and absent slots are told from records.             *)
LEMMA SentinelFacts ==
    /\ Free # Absent
    /\ \A c \in Content : IsRecord(c) <=> c \in Record
    /\ ~IsRecord(Free) /\ ~IsRecord(Absent)
BY SentinelAssumption DEF Content, IsRecord

(* A device written to a slot makes a record.                               *)
LEMMA RecordOfType ==
    ASSUME NEW k \in Key, NEW p \in Payload
    PROVE  RecordOf(k, p) \in Record
BY DEF RecordOf, Record, Payload

(* A torn write leaves a record, or a slot as it was; what key it has is    *)
(* that of the old content or of the new.                                   *)
LEMMA TornWrite ==
    ASSUME NEW old \in Content, NEW new \in Record \cup {Free}, NEW c \in Torn(old, new)
    PROVE  /\ c \in Content
           /\ IsRecord(c) => \/ IsRecord(new) /\ c.key = new.key
                             \/ IsRecord(old) /\ c.key = old.key
<1>1. new \in Content
  BY DEF Content
<1>2. CASE c = old
  BY <1>2
<1>3. CASE c = HeadOnly(old, new)
  BY <1>1, <1>3, SentinelFacts DEF HeadOnly, Content, Record
<1>4. CASE c = TailOnly(old, new)
  BY <1>1, <1>4, SentinelFacts DEF TailOnly, Content, Record
<1> QED
  BY <1>2, <1>3, <1>4 DEF Torn

(* The index made of a file has a fingerprint where there is a record.      *)
LEMMA IndexOfContents ==
    ASSUME NEW f \in [Slot -> Content]
    PROVE  /\ IndexOf(f) \in [Slot -> Nat]
           /\ \A i \in Slot : IndexOf(f)[i] # 0 <=> IsRecord(f[i])
BY SentinelFacts, HashAssumption DEF IndexOf, Record

(* There are as many slots as there is room for.                            *)
LEMMA SlotIsFinite == IsFiniteSet(Slot) /\ Cardinality(Slot) = MaxSlots
BY SlotsAssumption, FS_Interval DEF Slot

(* No more slots are in use than there are.                                 *)
LEMMA CountBound ==
    ASSUME NEW h
    PROVE  IsFiniteSet(InUse(h)) /\ Cardinality(InUse(h)) \in 0 .. MaxSlots
<1>1. InUse(h) \in SUBSET Slot
  BY DEF InUse
<1>2. IsFiniteSet(InUse(h)) /\ Cardinality(InUse(h)) <= MaxSlots
  BY <1>1, SlotIsFinite, FS_Subset
<1> QED
  BY <1>2, FS_CardinalityType, SlotsAssumption

(* Taking a slot into use, or out of it, changes the count by one.          *)
LEMMA CountTaken ==
    ASSUME NEW h \in [Slot -> Nat], NEW i \in Slot, NEW v \in Nat \ {0}
    PROVE  Cardinality(InUse([h EXCEPT ![i] = v])) =
               IF h[i] = 0 THEN Cardinality(InUse(h)) + 1 ELSE Cardinality(InUse(h))
<1>1. InUse([h EXCEPT ![i] = v]) = InUse(h) \cup {i}
  BY DEF InUse
<1>2. i \in InUse(h) <=> h[i] # 0
  BY DEF InUse
<1> QED
  BY <1>1, <1>2, CountBound, FS_AddElement

(* A slot given up makes the count one less.                                *)
LEMMA CountFreed ==
    ASSUME NEW h \in [Slot -> Nat], NEW i \in Slot, h[i] # 0
    PROVE  Cardinality(InUse([h EXCEPT ![i] = 0])) = Cardinality(InUse(h)) - 1
<1>1. InUse([h EXCEPT ![i] = 0]) = InUse(h) \ {i}
  BY DEF InUse
<1>2. i \in InUse(h)
  BY DEF InUse
<1> QED
  BY <1>1, <1>2, CountBound, FS_RemoveElement

(* dev_store_init() makes a consistent index of whatever the file holds.    *)
LEMMA IndexedIsConsistent ==
    ASSUME NEW f \in [Slot -> Content], Indexed(f)
    PROVE  /\ hash' \in [Slot -> Nat]
           /\ slots' \in 0 .. MaxSlots
           /\ used' \in 0 .. MaxSlots
           /\ UsedIsCount'
           /\ IndexInFile'
<1>1. hash' = IndexOf(f) /\ FileLength(f, slots')
  BY DEF Indexed
<1>2. hash' \in [Slot -> Nat] /\ slots' \in 0 .. MaxSlots
  BY <1>1, IndexOfContents DEF FileLength
<1>3. InUse(hash') = {i \in Slot : IsRecord(f[i])}
  BY <1>1, IndexOfContents DEF InUse
<1>4. used' = Cardinality(InUse(hash'))
  BY <1>3 DEF Indexed
<1>5. UsedIsCount'
  BY <1>4 DEF UsedIsCount, InUse
<1>6. used' \in 0 .. MaxSlots
  BY <1>4, CountBound
<1>7. ASSUME NEW i \in Slot, i > slots'
      PROVE  hash'[i] = 0
  <2>1. f[i] = Absent
    BY <1>1, <1>2, <1>7, SlotsAssumption DEF FileLength, Slot
  <2> QED
    BY <1>1, <2>1, SentinelFacts DEF IndexOf
<1>8. IndexInFile'
  BY <1>7 DEF IndexInFile
<1> QED
  BY <1>2, <1>5, <1>6, <1>8

-----------------------------------------------------------------------------
(* Which slots the operations work on *)

(* The slot a record goes to is known to the index, or the next one.        *)
LEMMA TargetIsSlot ==
    ASSUME Consistent, NEW k \in Key, NEW i \in Slot, Target(k, i)
    PROVE  i <= slots \/ (i = slots + 1 /\ hash[i] = 0)
<1>1. CASE First(i, Holding(k))
  BY <1>1 DEF First, Holding
<1>2. CASE Allocated(i)
  <2>1. CASE First(i, FreeSlots)
    BY <2>1 DEF First, FreeSlots
  <2>2. CASE slots < MaxSlots /\ i = slots + 1
    BY <2>2, SlotsAssumption DEF Consistent, TypeOK, IndexInFile, Slot
  <2>3. CASE IsVictim(i)
    BY <2>3 DEF IsVictim, Candidates
  <2> QED
    BY <1>2, <2>1, <2>2, <2>3 DEF Allocated
<1> QED
  BY <1>1, <1>2 DEF Target

-----------------------------------------------------------------------------
(* Consistent is inductive *)

(* An empty file and an empty index are consistent.                         *)
LEMMA ConsistentInit == Init => Consistent
<1> SUFFICES ASSUME Init PROVE Consistent
  OBVIOUS
<1>1. TypeOK
  BY SlotsAssumption, BoundsAssumption DEF Init, TypeOK
<1>2. {i \in Slot : hash[i] # 0} = {}
  BY DEF Init
<1>3. UsedIsCount
  BY <1>2, FS_EmptySet DEF Init, UsedIsCount
<1>4. IndexInFile
  BY DEF Init, IndexInFile
<1> QED
  BY <1>1, <1>3, <1>4 DEF Consistent

(* The index after a record was put in slot i.                              *)
LEMMA CommittedIsConsistent ==
    ASSUME Consistent, NEW k \in Key, NEW i \in Slot, Target(k, i), IndexCommitted(k, i)
    PROVE  /\ hash' \in [Slot -> Nat] /\ slots' \in 0 .. MaxSlots /\ used' \in 0 .. MaxSlots
           /\ UsedIsCount' /\ IndexInFile'
<1>1. hash \in [Slot -> Nat] /\ slots \in 0 .. MaxSlots
  BY DEF Consistent, TypeOK
<1>2. KeyHash[k] \in Nat \ {0} /\ i \in 1 .. MaxSlots
  BY HashAssumption DEF Slot
<1>3. hash' = [hash EXCEPT ![i] = KeyHash[k]] /\ hash' \in [Slot -> Nat]
  BY <1>1, <1>2 DEF IndexCommitted
<1>4. slots' \in 0 .. MaxSlots
  BY <1>1, <1>2, SlotsAssumption DEF IndexCommitted
<1>5. used' = Cardinality(InUse(hash'))
  <2>1. used = Cardinality(InUse(hash))
    BY DEF Consistent, UsedIsCount, InUse
  <2>2. Cardinality(InUse(hash')) =
            IF hash[i] = 0 THEN Cardinality(InUse(hash)) + 1 ELSE Cardinality(InUse(hash))
    BY <1>1, <1>2, <1>3, CountTaken
  <2>3. used' = IF hash[i] = 0 THEN used + 1 ELSE used
    BY DEF IndexCommitted
  <2> QED
    BY <2>1, <2>2, <2>3
<1>6. used' \in 0 .. MaxSlots /\ UsedIsCount'
  BY <1>5, CountBound DEF UsedIsCount, InUse
<1>7. IndexInFile'
  BY <1>1, <1>2, <1>3 DEF Consistent, IndexInFile, IndexCommitted, Slot
<1> QED
  BY <1>3, <1>4, <1>6, <1>7

(* The index after slot i was given up.                                     *)
LEMMA FreedIsConsistent ==
    ASSUME Consistent, NEW i \in Slot, hash[i] # 0,
           hash' = [hash EXCEPT ![i] = 0], used' = used - 1, slots' = slots
    PROVE  /\ hash' \in [Slot -> Nat] /\ slots' \in 0 .. MaxSlots /\ used' \in 0 .. MaxSlots
           /\ UsedIsCount' /\ IndexInFile'
<1>1. hash \in [Slot -> Nat] /\ hash' \in [Slot -> Nat]
  BY DEF Consistent, TypeOK
<1>2. used' = Cardinality(InUse(hash'))
  <2>1. used = Cardinality(InUse(hash))
    BY DEF Consistent, UsedIsCount, InUse
  <2> QED
    BY <1>1, <2>1, CountFreed
<1>3. used' \in 0 .. MaxSlots /\ UsedIsCount'
  BY <1>2, CountBound DEF UsedIsCount, InUse
<1>4. IndexInFile'
  BY <1>1 DEF Consistent, IndexInFile
<1> QED
  BY <1>1, <1>3, <1>4 DEF Consistent, TypeOK

(* A failed write leaves contents in every slot.                            *)
LEMMA FaultyWrite ==
    ASSUME TypeOK, NEW i \in Slot, NEW new \in Record \cup {Free}, Faulty(i, new)
    PROVE  file' \in [Slot -> Content] /\ faults' \in 0 .. MaxFaults /\ faults' > 0
<1>1. PICK c \in Torn(file[i], new) : file' = [file EXCEPT ![i] = c]
  BY DEF Faulty
<1>2. file \in [Slot -> Content] /\ c \in Content
  BY <1>1, TornWrite DEF TypeOK, Content
<1> QED
  BY <1>1, <1>2, BoundsAssumption DEF Faulty, TypeOK

(* A write cut short, and the boot that follows, make a consistent index.   *)
LEMMA PowerCutWrite ==
    ASSUME TypeOK, NEW i \in Slot, NEW new \in Record \cup {Free}, PowerCut(i, new)
    PROVE  file' \in [Slot -> Content] /\ Consistent'
<1>1. PICK c \in Torn(file[i], new) : file' = [file EXCEPT ![i] = c] /\ Indexed(file')
                                      /\ faults' = faults
  BY DEF PowerCut
<1>2. file' \in [Slot -> Content]
  BY <1>1, TornWrite DEF TypeOK, Content
<1> QED
  BY <1>1, <1>2, IndexedIsConsistent DEF TypeOK, Consistent, Content

(* Every step preserves it.                                                 *)
LEMMA ConsistentNext == Consistent /\ [Next]_vars => Consistent'
<1> SUFFICES ASSUME Consistent, [Next]_vars PROVE Consistent'
  OBVIOUS
<1> USE DEF Content
<1>0. TypeOK /\ file \in [Slot -> Content] /\ hash \in [Slot -> Nat]
  BY DEF Consistent, TypeOK
<1>1. CASE Restart
  BY <1>0, <1>1, IndexedIsConsistent DEF Restart, Consistent, TypeOK
<1>2. ASSUME NEW k \in Key, NEW p \in Payload, Update(k, p) PROVE Consistent'
  <2>1. PICK i \in Slot : /\ Target(k, i) /\ IndexCommitted(k, i) /\ faults' = faults
                         /\ file' = [file EXCEPT ![i] = RecordOf(k, p)]
    BY <1>2 DEF Update
  <2>2. file' \in [Slot -> Content]
    BY <1>0, <1>2, <2>1, RecordOfType
  <2> QED
    BY <1>2, <2>1, <2>2, CommittedIsConsistent DEF Consistent, TypeOK
<1>3. ASSUME NEW k \in Key, NEW p \in Payload, UpdateFails(k, p) PROVE Consistent'
  <2>1. PICK i \in Slot :
            /\ Target(k, i) /\ slots' = slots
            /\ Faulty(i, RecordOf(k, p)) \/ (file' = file /\ faults' = faults)
            /\ \/ hash[i] # 0 /\ hash' = [hash EXCEPT ![i] = 0] /\ used' = used - 1
               \/ hash' = hash /\ used' = used
    BY <1>3 DEF UpdateFails
  <2>2. file' \in [Slot -> Content] /\ faults' \in 0 .. MaxFaults
    BY <1>0, <1>3, <2>1, FaultyWrite, RecordOfType DEF TypeOK
  <2>3. CASE hash[i] # 0 /\ hash' = [hash EXCEPT ![i] = 0] /\ used' = used - 1
    BY <2>1, <2>2, <2>3, FreedIsConsistent DEF Consistent, TypeOK
  <2>4. CASE hash' = hash /\ used' = used
    BY <2>1, <2>2, <2>4 DEF Consistent, TypeOK, UsedIsCount, IndexInFile
  <2> QED
    BY <2>1, <2>3, <2>4
<1>4. ASSUME NEW k \in Key, NEW p \in Payload, UpdateLost(k, p) PROVE Consistent'
  <2>1. PICK i \in Slot :
            Target(k, i) /\ Faulty(i, RecordOf(k, p)) /\ IndexCommitted(k, i)
    BY <1>4 DEF UpdateLost
  <2> QED
    BY <1>0, <1>4, <2>1, FaultyWrite, RecordOfType, CommittedIsConsistent
    DEF Consistent, TypeOK
<1>5. ASSUME NEW k \in Key, NEW p \in Payload, PowerCutInUpdate(k, p) PROVE Consistent'
  BY <1>0, <1>5, PowerCutWrite, RecordOfType DEF PowerCutInUpdate
<1>6. ASSUME NEW k \in Key, Remove(k) PROVE Consistent'
  <2>1. PICK i \in Slot :
            /\ First(i, Holding(k)) /\ file' = [file EXCEPT ![i] = Free]
            /\ hash' = [hash EXCEPT ![i] = 0] /\ used' = used - 1
            /\ slots' = slots /\ faults' = faults
    BY <1>6 DEF Remove
  <2>2. hash[i] # 0
    BY <1>6, <2>1, HashAssumption DEF First, Holding
  <2> QED
    BY <1>0, <2>1, <2>2, FreedIsConsistent DEF Consistent, TypeOK
<1>7. ASSUME NEW k \in Key, RemoveFails(k) PROVE Consistent'
  <2>1. PICK i \in Slot : Faulty(i, Free) /\ UNCHANGED <<hash, slots, used>>
    BY <1>7 DEF RemoveFails
  <2>2. file' \in [Slot -> Content] /\ faults' \in 0 .. MaxFaults
    BY <1>0, <2>1, FaultyWrite
  <2> QED
    BY <2>1, <2>2 DEF Consistent, TypeOK, UsedIsCount, IndexInFile
<1>8. ASSUME NEW k \in Key, PowerCutInRemove(k) PROVE Consistent'
  BY <1>0, <1>8, PowerCutWrite DEF PowerCutInRemove
<1>9. CASE UNCHANGED vars
  BY <1>9 DEF vars, Consistent, TypeOK, UsedIsCount, IndexInFile
<1> QED
  BY <1>1, <1>2, <1>3, <1>4, <1>5, <1>6, <1>7, <1>8, <1>9 DEF Next

(* The store's counters stay in range, dev_store_count() is the number of   *)
(* slots in use and the index stays within the file, whatever writes fail   *)
(* and whenever the power goes.                                             *)
THEOREM StoreConsistent == Spec => [](TypeOK /\ UsedIsCount /\ IndexInFile)
<1>1. Spec => []Consistent
  BY ConsistentInit, ConsistentNext, PTL DEF Spec
<1>2. Consistent => TypeOK /\ UsedIsCount /\ IndexInFile
  BY DEF Consistent
<1> QED
  BY <1>1, <1>2, PTL

-----------------------------------------------------------------------------
(* Until a write fails: Faithful is inductive *)

OneEach(f) ==
    \A i, j \in Slot : IsRecord(f[i]) /\ IsRecord(f[j]) /\ f[i].key = f[j].key => i = j

(* The slot an operation on k works on is the only one that can hold k's    *)
(* record, and it is in the file or just behind its end.                    *)
LEMMA OwnSlot ==
    ASSUME Faithful, faults = 0, NEW k \in Key, NEW i \in Slot,
           Target(k, i) \/ First(i, Holding(k))
    PROVE  /\ \A j \in Slot : IsRecord(file[j]) /\ file[j].key = k => j = i
           /\ Writable(i)
<1>1. Target(k, i)
  BY DEF Target
<1>2. hash = IndexOf(file) /\ FileLength(file, slots) /\ OneEach(file)
  BY DEF Faithful, IndexMatchesFile, OneRecordPerKey, OneEach
<1>3. slots \in 0 .. MaxSlots
  BY DEF Faithful, Consistent, TypeOK
<1>4. ASSUME NEW j \in Slot, IsRecord(file[j]), file[j].key = k
      PROVE  j = i
  <2>1. hash[j] = KeyHash[k] /\ hash[j] # 0
    BY <1>2, <1>4, HashAssumption DEF IndexOf
  <2>2. j \in 1 .. slots
    BY <1>3, <2>1, SlotsAssumption DEF Faithful, Consistent, IndexInFile, Slot
  <2>3. j \in Holding(k)
    BY <1>4, <2>1, <2>2 DEF Holding
  <2>4. i \in Holding(k)
    BY <1>1, <2>3 DEF Target, First
  <2> QED
    BY <1>2, <1>4, <2>4 DEF Holding, OneEach
<1>5. Writable(i)
  <2>1. i <= slots + 1
    BY <1>1, <1>3, TargetIsSlot, SlotsAssumption DEF Faithful, Slot
  <2> QED
    BY <1>2, <1>3, <2>1, SlotsAssumption DEF Writable, FileLength, Slot
<1> QED
  BY <1>4, <1>5

(* Putting into a slot what has the key of the record there, or of one that *)
(* may only be there, gives no device a second record.                      *)
LEMMA StillOneEach ==
    ASSUME NEW f \in [Slot -> Content], OneEach(f), NEW i \in Slot, NEW c,
           NEW k, \A j \in Slot : IsRecord(f[j]) /\ f[j].key = k => j = i,
           IsRecord(c) => c.key = k \/ (IsRecord(f[i]) /\ c.key = f[i].key)
    PROVE  OneEach([f EXCEPT ![i] = c])
BY DEF OneEach

(* A power cut tears one write, and the index is made anew.                 *)
LEMMA PowerCutIsFaithful ==
    ASSUME Faithful, faults = 0, NEW k \in Key, NEW i \in Slot,
           Target(k, i) \/ First(i, Holding(k)),
           NEW new \in Record \cup {Free}, IsRecord(new) => new.key = k, PowerCut(i, new)
    PROVE  IndexMatchesFile' /\ OneRecordPerKey'
<1>0. TypeOK /\ file \in [Slot -> Content] /\ OneEach(file)
  BY DEF Faithful, Consistent, TypeOK, Content, OneRecordPerKey, OneEach
<1>1. PICK c \in Torn(file[i], new) : file' = [file EXCEPT ![i] = c] /\ Indexed(file')
  BY DEF PowerCut
<1>2. IsRecord(c) => c.key = k \/ (IsRecord(file[i]) /\ c.key = file[i].key)
  BY <1>0, <1>1, TornWrite
<1>3. OneEach(file')
  BY <1>0, <1>1, <1>2, OwnSlot, StillOneEach
<1> QED
  BY <1>1, <1>3 DEF Indexed, IndexMatchesFile, OneRecordPerKey, OneEach

(* An empty file has no device twice.                                       *)
LEMMA FaithfulInit == Init => Faithful
<1> SUFFICES ASSUME Init PROVE Faithful
  OBVIOUS
<1>1. IndexMatchesFile
  BY SentinelFacts, SlotsAssumption DEF Init, IndexMatchesFile, IndexOf, FileLength, Slot
<1>2. OneRecordPerKey
  BY SentinelFacts DEF Init, OneRecordPerKey
<1> QED
  BY <1>1, <1>2, ConsistentInit DEF Faithful

(* Every step preserves it.                                                 *)
LEMMA FaithfulNext == Faithful /\ [Next]_vars => Faithful'
<1> SUFFICES ASSUME Faithful, [Next]_vars PROVE Faithful'
  OBVIOUS
<1>1. Consistent /\ Consistent' /\ TypeOK /\ file \in [Slot -> Content]
  BY ConsistentNext DEF Faithful, Consistent, TypeOK, Content
<1> SUFFICES ASSUME faults' = 0 PROVE IndexMatchesFile' /\ OneRecordPerKey'
  BY <1>1 DEF Faithful, IndexMatchesFile, OneRecordPerKey
<1>2. \A i, new : Faulty(i, new) => FALSE
  BY <1>1, BoundsAssumption DEF Faulty, TypeOK
<1>3. faults = 0
  BY <1>2 DEF Next, vars, Restart, Update, UpdateFails, UpdateLost, PowerCutInUpdate, PowerCut,
              Remove, RemoveFails, PowerCutInRemove
<1>4. hash = IndexOf(file) /\ FileLength(file, slots) /\ OneEach(file)
  BY <1>3 DEF Faithful, IndexMatchesFile, OneRecordPerKey, OneEach
<1>5. CASE Restart
  BY <1>4, <1>5 DEF Restart, Indexed, IndexMatchesFile, OneRecordPerKey, OneEach
<1>6. ASSUME NEW k \in Key, NEW p \in Payload, Update(k, p)
      PROVE  IndexMatchesFile' /\ OneRecordPerKey'
  <2> DEFINE new == RecordOf(k, p)
  <2>1. PICK i \in Slot : /\ Target(k, i) /\ IndexCommitted(k, i)
                         /\ file' = [file EXCEPT ![i] = new]
    BY <1>6 DEF Update
  <2>2. new \in Record /\ new.key = k /\ IsRecord(new) /\ new # Absent
    BY <1>6, RecordOfType, SentinelFacts DEF RecordOf, Content, IsRecord
  <2> HIDE DEF new
  <2>3. OneEach(file')
    <3>1. \A j \in Slot : IsRecord(file[j]) /\ file[j].key = k => j = i
      BY <1>3, <1>6, <2>1, OwnSlot
    <3> QED
      BY <1>1, <1>4, <2>1, <2>2, <3>1, StillOneEach
  <2>4. hash' = IndexOf(file')
    BY <1>1, <1>4, <2>1, <2>2 DEF IndexCommitted, IndexOf
  <2>5. FileLength(file', slots')
    <3>1. i \in 1 .. MaxSlots /\ slots \in 0 .. MaxSlots /\ i <= slots + 1
      BY <1>1, <2>1, TargetIsSlot, SlotsAssumption DEF Slot, TypeOK
    <3>2. slots' = IF i > slots THEN i ELSE slots
      BY <2>1 DEF IndexCommitted
    <3> QED
      BY <1>1, <1>4, <2>1, <2>2, <3>1, <3>2, SlotsAssumption DEF FileLength, Slot
  <2> QED
    BY <2>3, <2>4, <2>5 DEF IndexMatchesFile, OneRecordPerKey, OneEach
<1>7. ASSUME NEW k \in Key, NEW p \in Payload, UpdateFails(k, p)
      PROVE  FALSE
  <2>1. PICK i \in Slot : Target(k, i) /\ (Faulty(i, RecordOf(k, p)) \/ ~Writable(i))
    BY <1>7 DEF UpdateFails
  <2> QED
    BY <1>2, <1>3, <1>7, <2>1, OwnSlot
<1>8. ASSUME NEW k \in Key, NEW p \in Payload, UpdateLost(k, p)
      PROVE  FALSE
  BY <1>2, <1>8 DEF UpdateLost
<1>9. ASSUME NEW k \in Key, NEW p \in Payload, PowerCutInUpdate(k, p)
      PROVE  IndexMatchesFile' /\ OneRecordPerKey'
  <2>1. PICK i \in Slot : Target(k, i) /\ PowerCut(i, RecordOf(k, p))
    BY <1>9 DEF PowerCutInUpdate
  <2>2. RecordOf(k, p) \in Record /\ RecordOf(k, p).key = k
    BY <1>9, RecordOfType DEF RecordOf
  <2> QED
    BY <1>3, <1>9, <2>1, <2>2, PowerCutIsFaithful
<1>10. ASSUME NEW k \in Key, Remove(k)
       PROVE  IndexMatchesFile' /\ OneRecordPerKey'
  <2>1. PICK i \in Slot :
            /\ First(i, Holding(k)) /\ file' = [file EXCEPT ![i] = Free]
            /\ hash' = [hash EXCEPT ![i] = 0] /\ slots' = slots
    BY <1>10 DEF Remove
  <2>2. ~IsRecord(Free) /\ Free # Absent
    BY SentinelFacts
  <2>3. OneEach(file')
    BY <1>1, <1>3, <1>4, <1>10, <2>1, <2>2, OwnSlot, StillOneEach
  <2>4. hash' = IndexOf(file')
    BY <1>1, <1>4, <2>1, <2>2 DEF IndexOf
  <2>5. FileLength(file', slots')
    BY <1>1, <1>4, <2>1, <2>2 DEF FileLength, First, Holding, IsRecord
  <2> QED
    BY <2>3, <2>4, <2>5 DEF IndexMatchesFile, OneRecordPerKey, OneEach
<1>11. ASSUME NEW k \in Key, RemoveFails(k)
       PROVE  FALSE
  BY <1>2, <1>11 DEF RemoveFails
<1>12. ASSUME NEW k \in Key, PowerCutInRemove(k)
       PROVE  IndexMatchesFile' /\ OneRecordPerKey'
  <2>1. PICK i \in Slot : First(i, Holding(k)) /\ PowerCut(i, Free)
    BY <1>12 DEF PowerCutInRemove
  <2> QED
    BY <1>3, <1>12, <2>1, SentinelFacts, PowerCutIsFaithful
<1>13. CASE UNCHANGED vars
  BY <1>4, <1>13 DEF vars, IndexMatchesFile, OneRecordPerKey, OneEach
<1> QED
  BY <1>5, <1>6, <1>7, <1>8, <1>9, <1>10, <1>11, <1>12, <1>13 DEF Next

(* Until a write fails, the index in RAM is the one a reboot would make of  *)
(* the file and no device has two records, whatever fingerprints collide    *)
(* and in the middle of whichever write the power goes.                     *)
THEOREM StoreFaithful == Spec => [](IndexMatchesFile /\ OneRecordPerKey)
<1>1. Spec => []Faithful
  BY FaithfulInit, FaithfulNext, PTL DEF Spec
<1>2. Faithful => IndexMatchesFile /\ OneRecordPerKey
  BY DEF Faithful
<1> QED
  BY <1>1, <1>2, PTL

-----------------------------------------------------------------------------
(* Until a write fails, the store implements the register                   *)

(* Slot j holds the record of device u.                                     *)
Holds(j, u) == IsRecord(file[j]) /\ file[j].key = u

PayloadAt(j) == [nick |-> file[j].nick, seen |-> file[j].seen]

(* What the store answers for a device is the one record it has in the      *)
(* file, or nothing.                                                        *)
LEMMA Answered ==
    Faithful /\ faults = 0 =>
      \A u \in Key :
        /\ \A j \in Slot : Holds(j, u) => /\ Contents[u] = PayloadAt(j) /\ Holding(u) = {j}
                                          /\ PayloadAt(j) \in Payload
        /\ (\A j \in Slot : ~Holds(j, u)) => Contents[u] = NoRec /\ Holding(u) = {}
<1> SUFFICES ASSUME Faithful, faults = 0, NEW u \in Key
             PROVE  /\ \A j \in Slot : Holds(j, u) => /\ Contents[u] = PayloadAt(j) /\ Holding(u) = {j}
                                                      /\ PayloadAt(j) \in Payload
                    /\ (\A j \in Slot : ~Holds(j, u)) => Contents[u] = NoRec /\ Holding(u) = {}
  OBVIOUS
<1>1. /\ hash = IndexOf(file) /\ FileLength(file, slots) /\ OneEach(file)
      /\ file \in [Slot -> Content] /\ slots \in 0 .. MaxSlots
  BY DEF Faithful, IndexMatchesFile, OneRecordPerKey, OneEach, Consistent, TypeOK, Content
<1>2. Holding(u) = {j \in Slot : Holds(j, u)}
  <2>1. \A j \in Slot : Holds(j, u) => j \in 1 .. slots /\ hash[j] = KeyHash[u]
    BY <1>1, SlotsAssumption DEF Holds, IsRecord, FileLength, IndexOf, Slot
  <2>2. 1 .. slots \subseteq Slot
    BY <1>1, SlotsAssumption DEF Slot
  <2> QED
    BY <2>1, <2>2 DEF Holding, Holds
<1>3. ASSUME NEW j \in Slot, Holds(j, u)
      PROVE  Contents[u] = PayloadAt(j) /\ Holding(u) = {j} /\ PayloadAt(j) \in Payload
  <2>1. Holding(u) = {j}
    BY <1>1, <1>2, <1>3 DEF Holds, OneEach
  <2>2. First(j, {j})
    BY SlotsAssumption DEF First, Slot
  <2>3. (CHOOSE x \in Holding(u) : First(x, Holding(u))) = j
    BY <2>1, <2>2
  <2>4. Contents[u] = PayloadAt(j)
    BY <2>1, <2>3 DEF Contents, PayloadAt
  <2>5. PayloadAt(j) \in Payload
    BY <1>1, <1>3, SentinelFacts DEF Holds, PayloadAt, Payload, Record
  <2> QED
    BY <2>1, <2>4, <2>5
<1>4. ASSUME \A j \in Slot : ~Holds(j, u)
      PROVE  Contents[u] = NoRec /\ Holding(u) = {}
  BY <1>2, <1>4 DEF Contents
<1> QED
  BY <1>3, <1>4

LEMMA AnsweredNext ==
    Faithful' /\ faults' = 0 =>
      \A u \in Key :
        /\ \A j \in Slot : Holds(j, u)' => /\ Contents'[u] = PayloadAt(j)'
                                           /\ PayloadAt(j)' \in Payload
        /\ (\A j \in Slot : ~Holds(j, u)') => Contents'[u] = NoRec
<1>1. (Faithful /\ faults = 0 =>
      \A u \in Key :
        /\ \A j \in Slot : Holds(j, u) => /\ Contents[u] = PayloadAt(j) /\ Holding(u) = {j}
                                          /\ PayloadAt(j) \in Payload
        /\ (\A j \in Slot : ~Holds(j, u)) => Contents[u] = NoRec /\ Holding(u) = {})'
  BY Answered, PTL
<1> QED
  BY <1>1

(* The record of a device that has neither the old nor the new content of   *)
(* the slot that is written stays as it is.                                 *)
LEMMA OthersStay ==
    ASSUME Faithful, Faithful', faults = 0, faults' = 0, NEW i \in Slot, NEW c,
           file' = [file EXCEPT ![i] = c], NEW u \in Key,
           ~Holds(i, u), ~(IsRecord(c) /\ c.key = u)
    PROVE  Contents'[u] = Contents[u]
<1>1. file \in [Slot -> Content]
  BY DEF Faithful, Consistent, TypeOK, Content
<1>2. ~Holds(i, u)' /\ \A j \in Slot \ {i} : (Holds(j, u)' <=> Holds(j, u)) /\ PayloadAt(j)' = PayloadAt(j)
  BY <1>1 DEF Holds, PayloadAt
<1>3. CASE \E j \in Slot : Holds(j, u)
  <2>1. PICK j \in Slot : Holds(j, u)
    BY <1>3
  <2>2. j # i
    BY <2>1
  <2>3. Contents[u] = PayloadAt(j)
    BY <2>1, Answered
  <2>4. Contents'[u] = PayloadAt(j)'
    BY <1>2, <2>1, <2>2, AnsweredNext
  <2> QED
    BY <1>2, <2>2, <2>3, <2>4
<1>4. CASE \A j \in Slot : ~Holds(j, u)
  <2>1. \A j \in Slot : ~Holds(j, u)'
    BY <1>2, <1>4
  <2>2. Contents[u] = NoRec
    BY <1>4, Answered
  <2>3. Contents'[u] = NoRec
    BY <2>1, AnsweredNext
  <2> QED
    BY <2>2, <2>3
<1> QED
  BY <1>3, <1>4

(* The devices remembered are those with a record in the file; there are no *)
(* more of them than slots with a record, and no fewer.                     *)
LEMMA CountRemembered ==
    ASSUME Faithful, faults = 0
    PROVE  /\ IsFiniteSet(Store!Remembered)
           /\ \A i \in Slot : ~IsRecord(file[i]) => Cardinality(Store!Remembered) < MaxSlots
           /\ (\A i \in Slot : IsRecord(file[i])) => Cardinality(Store!Remembered) >= MaxSlots
<1> DEFINE R == Store!Remembered
           g == [u \in R |-> CHOOSE j \in Slot : Holds(j, u)]
<1>1. /\ OneEach(file) /\ file \in [Slot -> Content]
  BY DEF Faithful, IndexMatchesFile, OneRecordPerKey, OneEach, Consistent, TypeOK, Content
<1>2. R = {u \in Key : \E j \in Slot : Holds(j, u)}
  <2>1. \A u \in Key : Contents[u] # NoRec <=> \E j \in Slot : Holds(j, u)
    BY Answered, SentinelAssumption
  <2> QED
    BY <2>1 DEF Store!Remembered
<1>3. \A u \in R : g[u] \in Slot /\ Holds(g[u], u)
  BY <1>2
<1> HIDE DEF g
<1>4. ASSUME NEW S \in SUBSET Slot, \A u \in R : g[u] \in S
      PROVE  IsFiniteSet(R) /\ Cardinality(R) <= Cardinality(S)
  <2>1. g \in [R -> S]
    BY <1>4 DEF g
  <2>2. \A u, v \in R : g[u] = g[v] => u = v
    BY <1>3 DEF Holds
  <2>3. g \in Injection(R, S)
    BY <2>1, <2>2 DEF Injection, IsInjective
  <2>4. IsFiniteSet(S)
    BY SlotIsFinite, FS_Subset
  <2> HIDE DEF R
  <2> QED
    BY <2>3, <2>4, FS_Injection
<1>5. IsFiniteSet(R)
  BY <1>3, <1>4
<1>6. ASSUME NEW i \in Slot, ~IsRecord(file[i])
      PROVE  Cardinality(R) < MaxSlots
  <2>1. \A u \in R : g[u] \in Slot \ {i}
    BY <1>3, <1>6 DEF Holds
  <2>2. Cardinality(R) <= Cardinality(Slot \ {i})
    BY <1>4, <2>1
  <2>3. Cardinality(Slot \ {i}) = MaxSlots - 1
    BY SlotIsFinite, FS_RemoveElement
  <2> QED
    BY <1>5, <2>2, <2>3, FS_CardinalityType, SlotsAssumption
<1>7. ASSUME \A i \in Slot : IsRecord(file[i])
      PROVE  Cardinality(R) >= MaxSlots
  <2> DEFINE h == [i \in Slot |-> file[i].key]
  <2>1. \A i \in Slot : file[i].key \in Key
    BY <1>1, <1>7, SentinelFacts DEF Record
  <2>2. h \in [Slot -> R]
    BY <1>2, <1>7, <2>1 DEF Holds
  <2>3. \A i, j \in Slot : h[i] = h[j] => i = j
    BY <1>1, <1>7 DEF OneEach
  <2>4. h \in Injection(Slot, R)
    BY <2>2, <2>3 DEF Injection, IsInjective
  <2> HIDE DEF h, R
  <2>5. Cardinality(Slot) <= Cardinality(R)
    BY <1>5, <2>4, FS_Injection
  <2> QED
    BY <1>5, <2>5, SlotIsFinite, FS_CardinalityType, SlotsAssumption
<1> QED
  BY <1>5, <1>6, <1>7

(* The register counts as the store does.                                   *)
LEMMA SameCardinality == \A S : Store!Cardinality(S) = Cardinality(S)
BY DEF Cardinality, Store!Cardinality

(* The contents as a function of the keys.                                  *)
LEMMA ContentsFunction ==
    /\ Contents = [u \in Key |-> Contents[u]]
    /\ Contents' = [u \in Key |-> Contents'[u]]
BY DEF Contents

LEMMA ContentsTypeNext ==
    ASSUME Faithful', faults' = 0
    PROVE  \A u \in Key : Contents'[u] \in Payload \cup {NoRec}
<1> SUFFICES ASSUME NEW u \in Key PROVE Contents'[u] \in Payload \cup {NoRec}
  OBVIOUS
<1>1. CASE \E j \in Slot : Holds(j, u)'
  BY <1>1, AnsweredNext
<1>2. CASE \A j \in Slot : ~Holds(j, u)'
  BY <1>2, AnsweredNext
<1> QED
  BY <1>1, <1>2

(* While the index is right, a slot is free in it when it has no record.    *)
LEMMA IndexTells ==
    ASSUME Faithful, faults = 0
    PROVE  /\ \A j \in Slot : hash[j] = 0 <=> ~IsRecord(file[j])
           /\ \A j \in Slot : j > slots => ~IsRecord(file[j])
           /\ slots \in 0 .. MaxSlots
<1>1. hash = IndexOf(file) /\ FileLength(file, slots) /\ file \in [Slot -> Content]
      /\ slots \in 0 .. MaxSlots
  BY DEF Faithful, IndexMatchesFile, Consistent, TypeOK, Content
<1>2. \A j \in Slot : j > slots => ~IsRecord(file[j])
  BY <1>1, SlotsAssumption DEF FileLength, IsRecord, Slot
<1> QED
  BY <1>1, <1>2, IndexOfContents

(* The file is left alone: so is what the store answers.                    *)
LEMMA SameFile ==
    ASSUME Faithful, Faithful', faults = 0, faults' = 0, file' = file
    PROVE  Contents' = Contents
<1>1. \A j \in Slot, u \in Key : (Holds(j, u)' <=> Holds(j, u)) /\ PayloadAt(j)' = PayloadAt(j)
  BY DEF Holds, PayloadAt
<1>2. ASSUME NEW u \in Key PROVE Contents'[u] = Contents[u]
  <2>1. CASE \E j \in Slot : Holds(j, u)
    <3>1. PICK j \in Slot : Holds(j, u)
      BY <2>1
    <3>2. Contents[u] = PayloadAt(j)
      BY <3>1, Answered
    <3>3. Contents'[u] = PayloadAt(j)'
      BY <1>1, <3>1, AnsweredNext
    <3> QED
      BY <1>1, <3>2, <3>3
  <2>2. CASE \A j \in Slot : ~Holds(j, u)
    <3>1. Contents[u] = NoRec
      BY <2>2, Answered
    <3>2. Contents'[u] = NoRec
      BY <1>1, <2>2, AnsweredNext
    <3> QED
      BY <3>1, <3>2
  <2> QED
    BY <2>1, <2>2
<1> QED
  BY <1>2, ContentsFunction

(* dev_store_update() is a write of the register.                           *)
LEMMA UpdateWrites ==
    ASSUME Faithful, Faithful', faults = 0, NEW k \in Key, NEW p \in Payload, Update(k, p)
    PROVE  Store!Write(k, p)
<1>1. PICK i \in Slot : /\ Target(k, i) /\ file' = [file EXCEPT ![i] = RecordOf(k, p)]
                        /\ faults' = faults
  BY DEF Update
<1> DEFINE c == RecordOf(k, p)
<1>2. /\ IsRecord(c) /\ c.key = k /\ [nick |-> c.nick, seen |-> c.seen] = p
      /\ file \in [Slot -> Content] /\ OneEach(file)
  <2>1. IsRecord(c)
    BY RecordOfType, SentinelFacts DEF Content
  <2>2. [nick |-> c.nick, seen |-> c.seen] = p
    BY DEF RecordOf, Payload
  <2> QED
    BY <2>1, <2>2 DEF RecordOf, Faithful, Consistent, TypeOK, Content, IndexMatchesFile,
                      OneRecordPerKey, OneEach
<1> HIDE DEF c
<1>3. /\ file' = [file EXCEPT ![i] = c] /\ file'[i] = c
  BY <1>1, <1>2 DEF c
<1>4. Contents'[k] = p
  <2>1. Holds(i, k)' /\ PayloadAt(i)' = p
    BY <1>2, <1>3 DEF Holds, PayloadAt
  <2> QED
    BY <1>1, <2>1, AnsweredNext
<1>5. ASSUME NEW u \in Key \ {k}, ~Holds(i, u)
      PROVE  Contents'[u] = Contents[u]
  BY <1>1, <1>2, <1>3, <1>5, OthersStay
<1>6. CASE Holding(k) # {}
  <2>1. i \in Holding(k) /\ Holds(i, k)
    BY <1>1, <1>6 DEF Target, First, Holding, Holds
  <2>2. \A u \in Key \ {k} : ~Holds(i, u)
    BY <2>1 DEF Holds
  <2>3. Contents[k] # NoRec
    BY <2>1, Answered, SentinelAssumption
  <2>4. Contents' = [Contents EXCEPT ![k] = p]
    BY <1>4, <1>5, <2>2, ContentsFunction
  <2> QED
    BY <2>3, <2>4 DEF Store!Write, Store!Replace
<1>7. CASE Holding(k) = {}
  <2>1. Contents[k] = NoRec /\ (\A j \in Slot : ~Holds(j, k))
    BY <1>7, Answered
  <2>2. Allocated(i)
    BY <1>1, <1>7 DEF Target, First
  <2>3. CASE ~IsRecord(file[i])
    <3>1. \A u \in Key \ {k} : ~Holds(i, u)
      BY <2>3 DEF Holds
    <3>2. Contents' = [Contents EXCEPT ![k] = p]
      BY <1>4, <1>5, <3>1, ContentsFunction
    <3>3. Cardinality(Store!Remembered) < MaxSlots /\ IsFiniteSet(Store!Remembered)
      BY <2>3, CountRemembered
    <3>4. ~Store!Full
      BY <3>3, FS_CardinalityType, SlotsAssumption, SameCardinality DEF Store!Full, Store!Remembered
    <3> QED
      BY <2>1, <3>2, <3>4 DEF Store!Write, Store!Add
  <2>4. CASE IsRecord(file[i])
    <3>1. FreeSlots = {} /\ slots = MaxSlots /\ IsVictim(i)
      BY <2>2, <2>4, IndexTells, SlotsAssumption DEF Allocated, First, FreeSlots, Slot
    <3>2. \A j \in Slot : IsRecord(file[j])
      BY <3>1, IndexTells DEF FreeSlots, Slot
    <3>3. Store!Full
      BY <3>2, CountRemembered, SameCardinality DEF Store!Full, Store!Remembered
    <3>4. PICK v \in Key : Holds(i, v) /\ v # k
      BY <1>2, <2>1, <2>4, SentinelFacts DEF Holds, Record
    <3>5. Contents[v] = PayloadAt(i) /\ PayloadAt(i) \in Payload
      BY <3>4, Answered
    <3>6. v \in Store!Evictable
      <4>1. PayloadAt(i) \in Unnamed
        BY <3>1, <3>5 DEF IsVictim, Candidates, PayloadAt, Unnamed
      <4>2. v \in Store!Remembered
        BY <3>4, <3>5, SentinelAssumption DEF Store!Remembered
      <4> QED
        BY <3>5, <4>1, <4>2 DEF Store!Evictable
    <3>7. Contents'[v] = NoRec
      <4>1. \A j \in Slot : ~Holds(j, v)'
        <5>1. \A j \in Slot \ {i} : ~Holds(j, v)
          BY <1>2, <2>4, <3>4 DEF Holds, OneEach
        <5>2. \A j \in Slot \ {i} : file'[j] = file[j]
          BY <1>2, <1>3
        <5>3. ~Holds(i, v)'
          BY <1>2, <1>3, <3>4 DEF Holds
        <5> QED
          BY <5>1, <5>2, <5>3 DEF Holds
      <4> QED
        BY <1>1, <3>4, <4>1, AnsweredNext
    <3>8. \A u \in Key \ {k, v} : Contents'[u] = Contents[u]
      BY <1>5, <3>4 DEF Holds
    <3>9. Contents' = [Contents EXCEPT ![v] = NoRec, ![k] = p]
      BY <1>4, <3>4, <3>7, <3>8, ContentsFunction
    <3> QED
      BY <2>1, <3>3, <3>6, <3>9 DEF Store!Write, Store!AddEvicting
  <2> QED
    BY <2>3, <2>4
<1> QED
  BY <1>6, <1>7

(* dev_store_remove() erases.                                               *)
LEMMA RemoveErases ==
    ASSUME Faithful, Faithful', faults = 0, NEW k \in Key, Remove(k)
    PROVE  Store!Erase(k)
<1>1. PICK i \in Slot : /\ First(i, Holding(k)) /\ file' = [file EXCEPT ![i] = Free]
                        /\ faults' = faults
  BY DEF Remove
<1>2. file \in [Slot -> Content] /\ Holds(i, k) /\ ~IsRecord(Free)
  BY <1>1, SentinelFacts DEF Faithful, Consistent, TypeOK, Content, First, Holding, Holds
<1>3. \A j \in Slot : ~Holds(j, k)'
  <2>1. \A j \in Slot : Holds(j, k) => j = i
    BY <1>1, OwnSlot DEF Holds
  <2> QED
    BY <1>1, <1>2, <2>1 DEF Holds
<1>4. Contents'[k] = NoRec
  BY <1>1, <1>3, AnsweredNext
<1>5. \A u \in Key \ {k} : Contents'[u] = Contents[u]
  <2> SUFFICES ASSUME NEW u \in Key, u # k PROVE Contents'[u] = Contents[u]
    OBVIOUS
  <2>1. ~Holds(i, u)
    BY <1>2 DEF Holds
  <2> QED
    BY <1>1, <1>2, <2>1, OthersStay
<1> QED
  BY <1>4, <1>5, ContentsFunction DEF Store!Erase

(* A power cut in the middle of a write to slot i, where k's record is or   *)
(* goes, interrupts that write.                                             *)
LEMMA CutInterrupts ==
    ASSUME Faithful, Faithful', faults = 0, NEW k \in Key, NEW i \in Slot,
           Target(k, i) \/ First(i, Holding(k)),
           NEW new \in Record \cup {Free}, IsRecord(new) => new.key = k, PowerCut(i, new)
    PROVE  Store!Interrupted(k)
<1>1. PICK c \in Torn(file[i], new) : file' = [file EXCEPT ![i] = c] /\ faults' = faults
  BY DEF PowerCut
<1>2. file \in [Slot -> Content]
  BY DEF Faithful, Consistent, TypeOK, Content
<1>3. IsRecord(c) => c.key = k \/ (IsRecord(file[i]) /\ c.key = file[i].key)
  BY <1>1, <1>2, TornWrite
<1> DEFINE v == IF IsRecord(file[i]) THEN file[i].key ELSE k
<1>4. v \in Key /\ (v = k \/ (Contents[k] = NoRec /\ Store!Full /\ v \in Store!Evictable))
  <2>1. CASE ~IsRecord(file[i])
    BY <2>1
  <2>2. CASE IsRecord(file[i])
    <3>1. v = file[i].key /\ v \in Key /\ Holds(i, v)
      BY <1>2, <2>2, SentinelFacts DEF Record, Holds
    <3>2. CASE i \in Holding(k)
      BY <3>1, <3>2 DEF Holding
    <3>3. CASE i \notin Holding(k)
      <4>1. Allocated(i)
        BY <3>3 DEF Target, First
      <4>2. FreeSlots = {} /\ slots = MaxSlots /\ IsVictim(i)
        BY <2>2, <4>1, IndexTells, SlotsAssumption DEF Allocated, First, FreeSlots, Slot
      <4> HIDE DEF v
      <4>3. Contents[v] = PayloadAt(i) /\ PayloadAt(i) \in Payload
        BY <3>1, Answered
      <4>4. PayloadAt(i) \in Unnamed
        BY <4>2, <4>3 DEF IsVictim, Candidates, PayloadAt, Unnamed
      <4>5. v \in Store!Remembered
        BY <3>1, <4>3, SentinelAssumption DEF Store!Remembered
      <4>6. Contents[k] = NoRec
        <5>1. Holding(k) = {}
          BY <3>3 DEF Target, First
        <5> QED
          BY <5>1, Answered
      <4>7. Store!Full
        <5>1. \A j \in Slot : IsRecord(file[j])
          BY <4>2, IndexTells DEF FreeSlots, Slot
        <5> QED
          BY <5>1, CountRemembered, SameCardinality DEF Store!Full, Store!Remembered
      <4> QED
        BY <3>1, <4>3, <4>4, <4>5, <4>6, <4>7 DEF Store!Evictable
    <3> QED
      BY <3>2, <3>3
  <2> QED
    BY <2>1, <2>2
<1>5. \A u \in Key \ {k, v} : Contents'[u] = Contents[u]
  <2> SUFFICES ASSUME NEW u \in Key, u # k, u # v PROVE Contents'[u] = Contents[u]
    OBVIOUS
  <2>1. ~Holds(i, u) /\ ~(IsRecord(c) /\ c.key = u)
    BY <1>3 DEF Holds
  <2> QED
    BY <1>1, <2>1, OthersStay
<1>6. Contents'[k] \in Payload \cup {NoRec} /\ Contents'[v] \in Payload \cup {NoRec}
  BY <1>1, <1>4, ContentsTypeNext
<1> HIDE DEF v
<1>7. Contents' = [Contents EXCEPT ![v] = Contents'[v], ![k] = Contents'[k]]
  BY <1>4, <1>5, ContentsFunction
<1> QED
  BY <1>4, <1>6, <1>7 DEF Store!Interrupted

(* Until a write fails, each operation of the store is the register's.      *)
LEMMA StepsRefine ==
    ASSUME Faithful, [Next]_vars, faults' = 0
    PROVE  AsPromised
<1>1. Faithful' /\ TypeOK
  BY FaithfulNext DEF Faithful, Consistent
<1>2. ASSUME NEW k \in Key, NEW p \in Payload, Update(k, p)
      PROVE  Store!Write(k, p)
  <2>1. faults = 0
    BY <1>2 DEF Update
  <2> QED
    BY <1>1, <1>2, <2>1, UpdateWrites
<1>3. ASSUME NEW k \in Key, NEW p \in Payload, UpdateFails(k, p)
      PROVE  UNCHANGED Contents
  <2>1. PICK i \in Slot : Target(k, i) /\ \/ Writable(i) /\ Faulty(i, RecordOf(k, p))
                                          \/ ~Writable(i) /\ UNCHANGED <<file, faults>>
    BY <1>3 DEF UpdateFails
  <2>2. ~Faulty(i, RecordOf(k, p))
    BY <1>1, BoundsAssumption DEF Faulty, TypeOK
  <2> QED
    BY <2>1, <2>2, OwnSlot
<1>4. ASSUME NEW k \in Key, NEW p \in Payload, PowerCutInUpdate(k, p)
      PROVE  Store!Interrupted(k)
  <2>1. PICK i \in Slot : Target(k, i) /\ PowerCut(i, RecordOf(k, p))
    BY <1>4 DEF PowerCutInUpdate
  <2>2. faults = 0
    BY <2>1 DEF PowerCut
  <2>3. RecordOf(k, p) \in Record /\ RecordOf(k, p).key = k
    BY RecordOfType DEF RecordOf
  <2> QED
    BY <1>1, <2>1, <2>2, <2>3, CutInterrupts
<1>5. ASSUME NEW k \in Key, Remove(k)
      PROVE  Store!Erase(k)
  <2>1. faults = 0
    BY <1>5 DEF Remove
  <2> QED
    BY <1>1, <1>5, <2>1, RemoveErases
<1>6. ASSUME NEW k \in Key, PowerCutInRemove(k)
      PROVE  Store!Interrupted(k)
  <2>1. PICK i \in Slot : First(i, Holding(k)) /\ PowerCut(i, Free)
    BY <1>6 DEF PowerCutInRemove
  <2>2. faults = 0
    BY <2>1 DEF PowerCut
  <2> QED
    BY <1>1, <2>1, <2>2, CutInterrupts, SentinelFacts
<1>7. ASSUME Restart PROVE UNCHANGED Contents
  <2>1. file' = file /\ faults' = faults
    BY <1>7 DEF Restart
  <2> QED
    BY <1>1, <2>1, SameFile
<1> QED
  BY <1>2, <1>3, <1>4, <1>5, <1>6, <1>7 DEF AsPromised

(* Until a write fails, the file and its index are the register that        *)
(* dev_store.h promises, operation by operation: a record is replaced,      *)
(* added where there is room, put in the place of one without a nickname    *)
(* only where there is none, or erased for good; a reboot changes nothing,  *)
(* and what a power failure interrupts touches no other device.             *)
THEOREM StoreIsRegister == Spec => ImplementsRegister
<1>1. Init => Store!RegisterInit
  <2> SUFFICES ASSUME Init PROVE Store!RegisterInit
    OBVIOUS
  <2>1. Faithful /\ faults = 0 /\ \A j \in Slot : file[j] = Absent
    BY FaithfulInit DEF Init
  <2>2. \A u \in Key : Contents[u] = NoRec
    BY <2>1, Answered, SentinelFacts DEF Holds
  <2> QED
    BY <2>2, ContentsFunction DEF Store!RegisterInit
<1>2. Faithful /\ [Next]_vars => [faults' = 0 => AsPromised]_vars
  BY StepsRefine
<1>3. Spec => []Faithful
  BY FaithfulInit, FaithfulNext, PTL DEF Spec
<1> QED
  BY <1>1, <1>2, <1>3, PTL DEF Spec, ImplementsRegister

-----------------------------------------------------------------------------
(* A device with a nickname                                                 *)

(* A set of slots has a first one.                                          *)
LEMMA FirstExists ==
    ASSUME NEW S \in SUBSET Slot, S # {}
    PROVE  \E i \in S : First(i, S)
<1> DEFINE R == {mn \in Nat \X Nat : mn[1] < mn[2]}
<1>1. IsWellFoundedOn(R, Nat)
  BY NatLessThanWellFounded DEF OpToRel
<1>2. S \in SUBSET Nat
  BY SlotsAssumption DEF Slot
<1>3. PICK n \in S : \A m \in S : <<m, n>> \notin R
  <2> HIDE DEF R
  <2> QED
    BY <1>1, <1>2, WFMin
<1>4. \A m \in S : ~(m < n)
  BY <1>2, <1>3
<1> QED
  BY <1>2, <1>4 DEF First

(* What the store answers is the record of one of the slots found.          *)
LEMMA AnswerIsFound ==
    TypeOK =>
      \A u \in Key :
        /\ Holding(u) = {} => Contents[u] = NoRec
        /\ Holding(u) # {} => \E i \in Holding(u) : Contents[u] = PayloadAt(i) /\ Contents[u] # NoRec
<1> SUFFICES ASSUME TypeOK, NEW u \in Key
             PROVE  /\ Holding(u) = {} => Contents[u] = NoRec
                    /\ Holding(u) # {} => \E i \in Holding(u) :
                                             Contents[u] = PayloadAt(i) /\ Contents[u] # NoRec
  OBVIOUS
<1>1. Holding(u) \in SUBSET Slot
  BY SlotsAssumption DEF Holding, TypeOK, Slot
<1>2. ASSUME Holding(u) # {}
      PROVE  \E i \in Holding(u) : Contents[u] = PayloadAt(i) /\ Contents[u] # NoRec
  <2> DEFINE i == CHOOSE j \in Holding(u) : First(j, Holding(u))
  <2>1. i \in Holding(u)
    BY <1>1, <1>2, FirstExists
  <2>2. Contents[u] = PayloadAt(i)
    BY <1>2 DEF Contents, PayloadAt
  <2>3. file[i] \in Record
    BY <1>1, <2>1, SentinelFacts DEF Holding, TypeOK, Content
  <2>4. PayloadAt(i) \in Payload
    BY <2>3 DEF PayloadAt, Payload, Record
  <2> HIDE DEF i
  <2> QED
    BY <2>1, <2>2, <2>4, SentinelAssumption
<1> QED
  BY <1>2 DEF Contents

LEMMA AnswerIsFoundNext ==
    TypeOK' => \A u \in Key : Holding(u)' # {} => Contents'[u] # NoRec
<1>1. (TypeOK =>
        \A u \in Key :
          /\ Holding(u) = {} => Contents[u] = NoRec
          /\ Holding(u) # {} => \E i \in Holding(u) :
                                   Contents[u] = PayloadAt(i) /\ Contents[u] # NoRec)'
  BY AnswerIsFound, PTL
<1> QED
  BY <1>1

(* A step that is not a removal of it leaves a device with a nickname its   *)
(* slot, or writes the device's own record into that slot.                  *)
LEMMA NamedKeeps ==
    ASSUME Consistent, [Next]_vars, NEW v \in Store!Remembered \ Store!Evictable,
           Contents'[v] = NoRec
    PROVE  Remove(v) \/ RemoveFails(v) \/ PowerCutInRemove(v)
<1>1. /\ TypeOK /\ TypeOK' /\ v \in Key /\ Contents[v] # NoRec /\ Contents[v] \notin Unnamed
  BY ConsistentNext DEF Consistent, Store!Remembered, Store!Evictable
<1>2. PICK i \in Holding(v) : Contents[v] = PayloadAt(i)
  BY <1>1, AnswerIsFound
<1>3. /\ i \in Slot /\ i \in 1 .. slots /\ hash[i] = KeyHash[v] /\ hash[i] # 0
      /\ IsRecord(file[i]) /\ file[i].key = v
      /\ file \in [Slot -> Content] /\ hash \in [Slot -> Nat] /\ slots \in 0 .. MaxSlots
  BY <1>1, <1>2, SlotsAssumption, HashAssumption DEF Holding, TypeOK, Content, Slot
<1>4. file[i].nick # NoNick
  <2>1. file[i] \in Record
    BY <1>3, SentinelFacts
  <2>2. PayloadAt(i) \in Payload
    BY <2>1 DEF PayloadAt, Payload, Record
  <2> QED
    BY <1>1, <1>2, <2>2 DEF Unnamed, PayloadAt
<1>5. Holding(v)' = {}
  BY <1>1, AnswerIsFoundNext
(* It is enough to find the slot kept.                                      *)
<1>6. ~(i \in 1 .. slots' /\ hash'[i] = KeyHash[v] /\ IsRecord(file'[i]) /\ file'[i].key = v)
  BY <1>5 DEF Holding
<1>7. ASSUME Indexed(file'), IsRecord(file'[i]), file'[i].key = v, file' \in [Slot -> Content]
      PROVE  FALSE
  <2>1. hash'[i] = KeyHash[v]
    BY <1>3, <1>7 DEF Indexed, IndexOf
  <2>2. i \in 1 .. slots'
    BY <1>3, <1>7, SlotsAssumption DEF Indexed, FileLength, IsRecord, Slot
  <2> QED
    BY <1>6, <1>7, <2>1, <2>2
(* An operation on another device works on another slot.                    *)
<1>8. ASSUME NEW k \in Key, NEW j \in Slot, Target(k, j) \/ First(j, Holding(k)), k # v
      PROVE  j # i
  <2>1. Target(k, j)
    BY <1>8 DEF Target
  <2>2. j \in Holding(k) \/ (Holding(k) = {} /\ Allocated(j))
    BY <2>1 DEF Target, First
  <2>3. CASE j \in Holding(k)
    BY <1>3, <1>8, <2>3 DEF Holding
  <2>4. CASE Allocated(j)
    BY <1>3, <1>4, <2>4 DEF Allocated, First, FreeSlots, IsVictim, Candidates
  <2> QED
    BY <2>2, <2>3, <2>4
(* A write of its own record leaves one in the slot, torn or not.           *)
<1>9. ASSUME NEW p \in Payload, NEW c \in Torn(file[i], RecordOf(v, p))
      PROVE  c \in Content /\ IsRecord(c) /\ c.key = v
  <2> DEFINE new == RecordOf(v, p)
  <2>1. new \in Record /\ new.key = v /\ IsRecord(new)
    BY <1>1, RecordOfType, SentinelFacts DEF RecordOf, Content
  <2>2. c \in Content
    BY <1>3, <1>9, <2>1, TornWrite
  <2>3. file[i] \in Record /\ file[i] # Absent
    BY <1>3, SentinelFacts
  <2> HIDE DEF new
  <2>4. c \in Record /\ c.key = v
    <3>1. CASE c = file[i]
      BY <1>3, <2>3, <3>1
    <3>2. CASE c = HeadOnly(file[i], new)
      BY <1>3, <2>1, <2>3, <3>2 DEF HeadOnly, Record
    <3>3. CASE c = TailOnly(file[i], new)
      BY <1>3, <2>1, <2>3, <3>3 DEF TailOnly, Record
    <3> QED
      BY <1>9, <3>1, <3>2, <3>3 DEF Torn, new
  <2> QED
    BY <2>2, <2>4, SentinelFacts
<1>10. CASE UNCHANGED vars \/ Restart
  <2>1. file' = file /\ (Indexed(file') \/ UNCHANGED <<hash, slots>>)
    BY <1>10 DEF vars, Restart
  <2> QED
    BY <1>3, <1>6, <1>7, <2>1
<1>11. ASSUME NEW k \in Key, NEW p \in Payload, Update(k, p)
       PROVE  FALSE
  <2>1. PICK j \in Slot : Target(k, j) /\ file' = [file EXCEPT ![j] = RecordOf(k, p)]
                          /\ IndexCommitted(k, j)
    BY <1>11 DEF Update
  <2>2. /\ hash' = [hash EXCEPT ![j] = KeyHash[k]] /\ i \in 1 .. slots'
    BY <1>3, <2>1, SlotsAssumption DEF IndexCommitted, Slot
  <2>3. CASE j = i
    <3>1. k = v
      BY <1>8, <2>1, <2>3
    <3>2. file'[i] = RecordOf(v, p)
      BY <1>3, <2>1, <2>3, <3>1
    <3>3. IsRecord(file'[i]) /\ file'[i].key = v
      BY <1>1, <3>2, RecordOfType, SentinelFacts DEF RecordOf, Content
    <3> QED
      BY <1>3, <1>6, <2>2, <2>3, <3>1, <3>3
  <2>4. CASE j # i
    BY <1>3, <1>6, <2>1, <2>2, <2>4
  <2> QED
    BY <2>3, <2>4
<1>12. ASSUME NEW k \in Key, NEW p \in Payload, UpdateFails(k, p) \/ UpdateLost(k, p)
       PROVE  FALSE
  <2>1. PICK j \in Slot :
          /\ Target(k, j)
          /\ Faulty(j, RecordOf(k, p)) \/ UNCHANGED file
          /\ \/ hash' = [hash EXCEPT ![j] = KeyHash[k]] /\ IndexCommitted(k, j)
             \/ hash' = [hash EXCEPT ![j] = 0] /\ slots' = slots /\ Holding(k) = {}
             \/ UNCHANGED <<hash, slots>>
    BY <1>12 DEF UpdateFails, UpdateLost, IndexCommitted
  <2>2. i \in 1 .. slots'
    BY <1>3, <2>1, SlotsAssumption DEF IndexCommitted, Slot
  <2>3. CASE k = v
    <3>1. hash'[i] = KeyHash[v]
      BY <1>2, <1>3, <2>1, <2>3
    <3>2. IsRecord(file'[i]) /\ file'[i].key = v
      <4>1. CASE UNCHANGED file
        BY <1>3, <4>1
      <4>2. CASE Faulty(j, RecordOf(k, p))
        <5>1. PICK c \in Torn(file[j], RecordOf(k, p)) : file' = [file EXCEPT ![j] = c]
          BY <4>2 DEF Faulty
        <5> QED
          BY <1>3, <1>9, <2>3, <5>1
      <4> QED
        BY <2>1, <4>1, <4>2
    <3> QED
      BY <1>6, <2>2, <3>1, <3>2
  <2>4. CASE k # v
    <3>1. j # i
      BY <1>8, <2>1, <2>4
    <3>2. hash'[i] = hash[i] /\ file'[i] = file[i]
      BY <1>3, <2>1, <3>1 DEF Faulty
    <3> QED
      BY <1>3, <1>6, <2>2, <3>2
  <2> QED
    BY <2>3, <2>4
<1>13. ASSUME NEW k \in Key, NEW p \in Payload, PowerCutInUpdate(k, p)
       PROVE  FALSE
  <2>1. PICK j \in Slot : Target(k, j) /\ PowerCut(j, RecordOf(k, p))
    BY <1>13 DEF PowerCutInUpdate
  <2>2. PICK c \in Torn(file[j], RecordOf(k, p)) : file' = [file EXCEPT ![j] = c] /\ Indexed(file')
    BY <2>1 DEF PowerCut
  <2>3. IsRecord(file'[i]) /\ file'[i].key = v
    <3>1. CASE j = i
      <4>1. k = v
        BY <1>8, <2>1, <3>1
      <4> QED
        BY <1>3, <1>9, <2>2, <3>1, <4>1
    <3>2. CASE j # i
      BY <1>3, <2>2, <3>2
    <3> QED
      BY <3>1, <3>2
  <2> QED
    BY <1>1, <1>7, <2>2, <2>3 DEF TypeOK, Content
<1>14. ASSUME NEW k \in Key, k # v, Remove(k) \/ RemoveFails(k) \/ PowerCutInRemove(k)
       PROVE  FALSE
  <2>1. PICK j \in Slot :
          /\ First(j, Holding(k))
          /\ \/ file' = [file EXCEPT ![j] = Free] /\ hash' = [hash EXCEPT ![j] = 0] /\ slots' = slots
             \/ Faulty(j, Free) /\ UNCHANGED <<hash, slots>>
             \/ PowerCut(j, Free)
    BY <1>14 DEF Remove, RemoveFails, PowerCutInRemove
  <2>2. j # i
    BY <1>8, <1>14, <2>1
  <2>3. file'[i] = file[i] /\ ((hash'[i] = hash[i] /\ slots' = slots) \/ Indexed(file'))
    BY <1>3, <2>1, <2>2 DEF Faulty, PowerCut
  <2> QED
    BY <1>1, <1>3, <1>6, <1>7, <2>3 DEF TypeOK, Content
<1> QED
  BY <1>6, <1>10, <1>11, <1>12, <1>13, <1>14 DEF Next

(* Only asking for it forgets a device with a nickname: no eviction, no     *)
(* write that fails, is lost or is cut short, and no reboot after any of    *)
(* these costs it its record, whatever went wrong before                    *)
(* (victim_locked(), commit_locked()).                                      *)
THEOREM NamedIsKept == Spec => NamedStays
<1> DEFINE Kept == \A v \in Store!Remembered \ Store!Evictable :
               Contents'[v] = NoRec => Remove(v) \/ RemoveFails(v) \/ PowerCutInRemove(v)
<1>1. Consistent /\ [Next]_vars => [Kept]_vars
  BY NamedKeeps
<1>2. Spec => []Consistent
  BY ConsistentInit, ConsistentNext, PTL DEF Spec
<1> QED
  BY <1>1, <1>2, PTL DEF Spec, NamedStays

=============================================================================
