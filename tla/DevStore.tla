------------------------------ MODULE DevStore ------------------------------
(***************************************************************************)
(* The device register as it is kept: one file of fixed-size record slots  *)
(* on the "storage" partition and, in RAM, a fingerprint per slot          *)
(* (s_hash), the number of slots in the file (s_slots) and of records in   *)
(* use (s_used).  Every operation holds the store's mutex from beginning   *)
(* to end, so each is one action.                                          *)
(*                                                                         *)
(* A record is abstracted to its key, its nickname and the time eviction   *)
(* goes by.  A write can be cut short by a power failure, can fail and be  *)
(* reported, or can be lost when the file is closed (the result of         *)
(* fclose() is not looked at).  Faults of the last two kinds are counted,  *)
(* up to MaxFaults.                                                        *)
(***************************************************************************)
EXTENDS Integers, FiniteSets

CONSTANTS
    Key,        \* keys of devices
    KeyHash,    \* key_hash(): the fingerprint of each key, never 0
    Nick,       \* nicknames
    NoNick,     \* the empty nickname
    MaxSeen,    \* bound: times at which a device was last seen are 0..MaxSeen
    MaxSlots,   \* DEV_STORE_MAX
    MaxFaults,  \* bound: failed writes in a behaviour
    Free,       \* a slot whose magic byte is not DEV_REC_MAGIC
    Absent,     \* a slot past the end of the file
    NoRec       \* Register: "there is no record"

ASSUME SlotsAssumption  == MaxSlots \in Nat \ {0}
ASSUME BoundsAssumption == MaxSeen \in Nat /\ MaxFaults \in Nat
ASSUME HashAssumption   == KeyHash \in [Key -> Nat \ {0}]
ASSUME NickAssumption   == NoNick \notin Nick

Payload == [nick : Nick \cup {NoNick}, seen : 0 .. MaxSeen]
Record  == [key : Key, nick : Nick \cup {NoNick}, seen : 0 .. MaxSeen]
Slot    == 1 .. MaxSlots

ASSUME SentinelAssumption ==
    /\ Free \notin Record /\ Absent \notin Record /\ Free # Absent
    /\ NoRec \notin Payload

VARIABLES
    file,    \* file[i]: what slot i of the file holds
    hash,    \* s_hash[i]: fingerprint of slot i's key, 0 when it is free
    slots,   \* s_slots: slots the file is known to have
    used,    \* s_used: records in use
    faults   \* failed writes so far

vars == <<file, hash, slots, used, faults>>

-----------------------------------------------------------------------------

RecordOf(k, p) == [key |-> k, nick |-> p.nick, seen |-> p.seen]

IsRecord(c) == c \notin {Free, Absent}

First(i, S) == i \in S /\ \A j \in S : i <= j

(* Mistake: the search stops at the first slot with the fingerprint.        *)
HoldingFirstHash(k) ==
    {i \in 1 .. slots :
        /\ First(i, {j \in 1 .. slots : hash[j] = KeyHash[k]})
        /\ IsRecord(file[i]) /\ file[i].key = k}

(* find_locked(): slots whose fingerprint and record both match k. *)
Holding(k) ==
    {i \in 1 .. slots : hash[i] = KeyHash[k] /\ IsRecord(file[i]) /\ file[i].key = k}

(* alloc_slot_locked(), first choice: a slot the index says is free. *)
FreeSlots == {i \in 1 .. slots : hash[i] = 0}

(* Mistake: nicknames do not protect.                                       *)
AnyCandidate == {i \in 1 .. slots : hash[i] # 0 /\ IsRecord(file[i])}

(* victim_locked(): the record without a nickname that was unseen longest. *)
Candidates ==
    {i \in 1 .. slots : hash[i] # 0 /\ IsRecord(file[i]) /\ file[i].nick = NoNick}

IsVictim(i) ==
    /\ i \in Candidates
    /\ \A j \in Candidates :
          \/ file[i].seen < file[j].seen
          \/ file[i].seen = file[j].seen /\ i <= j

(* Mistake: a record makes way though the file could grow.                  *)
AllocatedEagerly(i) ==
    \/ First(i, FreeSlots)
    \/ FreeSlots = {} /\ Candidates = {} /\ slots < MaxSlots /\ i = slots + 1
    \/ FreeSlots = {} /\ IsVictim(i)

(* alloc_slot_locked(): the slot a new record is to go to. *)
Allocated(i) ==
    \/ First(i, FreeSlots)
    \/ FreeSlots = {} /\ slots < MaxSlots /\ i = slots + 1
    \/ FreeSlots = {} /\ slots = MaxSlots /\ IsVictim(i)

(* The slot dev_store_update(k, create) works on. *)
Target(k, i) == First(i, Holding(k)) \/ (Holding(k) = {} /\ Allocated(i))

-----------------------------------------------------------------------------
(* What the flash can hold after a write of new over old was cut short.  A  *)
(* record spans SPIFFS pages, so its head (magic, key, last seen) and its   *)
(* tail (nickname) can be of different ages.                                *)

HeadOnly(old, new) ==
    IF ~IsRecord(new) THEN new
    ELSE IF old = Absent THEN Absent
    ELSE [new EXCEPT !.nick = IF IsRecord(old) THEN old.nick ELSE NoNick]

TailOnly(old, new) ==
    IF ~IsRecord(old) THEN old
    ELSE [old EXCEPT !.nick = IF IsRecord(new) THEN new.nick ELSE NoNick]

Torn(old, new) == {old, HeadOnly(old, new), TailOnly(old, new)}

-----------------------------------------------------------------------------
(* dev_store_init() *)

(* The file is as long as its last slot that is not Absent. *)
FileLength(f, n) ==
    /\ n \in 0 .. MaxSlots
    /\ \A i \in Slot : (f[i] # Absent) <=> i <= n

IndexOf(f) == [i \in Slot |-> IF IsRecord(f[i]) THEN KeyHash[f[i].key] ELSE 0]

(* Mistake: the count is not reset before the file is counted again.        *)
IndexedAgain(f) ==
    /\ hash' = IndexOf(f)
    /\ used' = used + Cardinality({i \in Slot : IsRecord(f[i])})
    /\ FileLength(f, slots')

Indexed(f) ==
    /\ hash' = IndexOf(f)
    /\ used' = Cardinality({i \in Slot : IsRecord(f[i])})
    /\ FileLength(f, slots')

Init ==
    /\ file = [i \in Slot |-> Absent]
    /\ hash = [i \in Slot |-> 0]
    /\ slots = 0
    /\ used = 0
    /\ faults = 0

Restart ==
    /\ Indexed(file)
    /\ UNCHANGED <<file, faults>>

-----------------------------------------------------------------------------
(* dev_store_update() and dev_store_put() *)

(* The index once k's record is taken to be in slot i: commit_locked(). *)
IndexCommitted(k, i) ==
    /\ hash' = [hash EXCEPT ![i] = KeyHash[k]]
    /\ used' = IF hash[i] = 0 THEN used + 1 ELSE used
    /\ slots' = IF i > slots THEN i ELSE slots

(* A file has no holes: its end is where the next slot would go. *)
Writable(i) == i > 1 => file[i - 1] # Absent

Update(k, p) ==
    \E i \in Slot :
        /\ Target(k, i)
        /\ Writable(i)
        /\ file' = [file EXCEPT ![i] = RecordOf(k, p)]
        /\ IndexCommitted(k, i)
        /\ UNCHANGED faults

(* The write of new to slot i goes wrong. *)
Faulty(i, new) ==
    /\ faults < MaxFaults
    /\ faults' = faults + 1
    /\ \E c \in Torn(file[i], new) : file' = [file EXCEPT ![i] = c]

(* The write fails.  A slot taken from a victim stays out of the index. *)
UpdateFails(k, p) ==
    \E i \in Slot :
        /\ Target(k, i)
        /\ \/ Writable(i) /\ Faulty(i, RecordOf(k, p))
           \/ ~Writable(i) /\ UNCHANGED <<file, faults>>
        /\ IF Holding(k) = {} /\ hash[i] # 0
           THEN hash' = [hash EXCEPT ![i] = 0] /\ used' = used - 1
           ELSE UNCHANGED <<hash, used>>
        /\ UNCHANGED slots

(* The write is accepted, and lost when the file is closed. *)
UpdateLost(k, p) ==
    \E i \in Slot :
        /\ Target(k, i)
        /\ Writable(i)
        /\ Faulty(i, RecordOf(k, p))
        /\ IndexCommitted(k, i)

-----------------------------------------------------------------------------
(* dev_store_remove() *)

Remove(k) ==
    \E i \in Slot :
        /\ First(i, Holding(k))
        /\ file' = [file EXCEPT ![i] = Free]
        /\ hash' = [hash EXCEPT ![i] = 0]
        /\ used' = used - 1
        /\ UNCHANGED <<slots, faults>>

RemoveFails(k) ==
    \E i \in Slot :
        /\ First(i, Holding(k))
        /\ Faulty(i, Free)
        /\ UNCHANGED <<hash, slots, used>>

-----------------------------------------------------------------------------
(* Power lost in the middle of a write, and the boot that follows. *)

PowerCut(i, new) ==
    \E c \in Torn(file[i], new) :
        /\ file' = [file EXCEPT ![i] = c]
        /\ Indexed(file')
        /\ UNCHANGED faults

PowerCutInUpdate(k, p) ==
    \E i \in Slot : Target(k, i) /\ Writable(i) /\ PowerCut(i, RecordOf(k, p))

PowerCutInRemove(k) ==
    \E i \in Slot : First(i, Holding(k)) /\ PowerCut(i, Free)

-----------------------------------------------------------------------------

Next ==
    \/ Restart
    \/ \E k \in Key, p \in Payload :
          \/ Update(k, p)
          \/ UpdateFails(k, p)
          \/ UpdateLost(k, p)
          \/ PowerCutInUpdate(k, p)
    \/ \E k \in Key :
          \/ Remove(k)
          \/ RemoveFails(k)
          \/ PowerCutInRemove(k)

Spec == Init /\ [][Next]_vars

-----------------------------------------------------------------------------
(* Properties *)

(* What the register holds, as dev_store_get() answers: the record of the   *)
(* first slot found for the key.                                            *)
Contents ==
    [k \in Key |->
        IF Holding(k) = {} THEN NoRec
        ELSE LET i == CHOOSE j \in Holding(k) : First(j, Holding(k))
             IN  [nick |-> file[i].nick, seen |-> file[i].seen]]

Unnamed == {p \in Payload : p.nick = NoNick}

Store == INSTANCE Register WITH rec <- Contents, Capacity <- MaxSlots

(* Every variable of the store has a value of its C type: in particular     *)
(* s_used, a size_t, never wraps below zero, and s_slots stays within       *)
(* s_hash[].                                                                *)
TypeOK ==
    /\ file \in [Slot -> Record \cup {Free, Absent}]
    /\ hash \in [Slot -> Nat]
    /\ slots \in 0 .. MaxSlots
    /\ used \in 0 .. MaxSlots
    /\ faults \in 0 .. MaxFaults

(* dev_store_count() is the number of slots in use: the counter is kept in  *)
(* step with the index through evictions, failed writes and reboots.        *)
UsedIsCount == used = Cardinality({i \in Slot : hash[i] # 0})

(* The index in RAM never claims a slot past the end of the file it knows.  *)
IndexInFile == \A i \in Slot : i > slots => hash[i] = 0

(* Until a write fails, the index in RAM is what a reboot would rebuild     *)
(* from the file, so that a reboot, or power lost in the middle of a write, *)
(* changes nothing else that the register answers.                          *)
IndexMatchesFile ==
    faults = 0 =>
        /\ hash = IndexOf(file)
        /\ FileLength(file, slots)

(* Until a write fails, no device has two records, whatever fingerprints    *)
(* collide and whenever the power goes.                                     *)
OneRecordPerKey ==
    faults = 0 =>
        \A i, j \in Slot :
            IsRecord(file[i]) /\ IsRecord(file[j]) /\ file[i].key = file[j].key => i = j

(* Only asking for it forgets a device with a nickname: neither another     *)
(* device's eviction, nor a failed, lost or interrupted write, nor a reboot *)
(* after any of these costs it its record.                                  *)
NamedStays ==
    [][\A v \in Store!Remembered \ Store!Evictable :
          Contents'[v] = NoRec => Remove(v) \/ RemoveFails(v) \/ PowerCutInRemove(v)]_vars

(* Each operation is to the register what its caller is told: one that      *)
(* comes to its end replaces, adds, evicts or erases as promised, one that  *)
(* is refused and a reboot change nothing, and only losing power in the     *)
(* middle of one interrupts it.                                             *)
AsPromised ==
    /\ \A k \in Key, p \in Payload :
          /\ Update(k, p) => Store!Write(k, p)
          /\ UpdateFails(k, p) => UNCHANGED Contents
          /\ PowerCutInUpdate(k, p) => Store!Interrupted(k)
    /\ \A k \in Key :
          /\ Remove(k) => Store!Erase(k)
          /\ PowerCutInRemove(k) => Store!Interrupted(k)
    /\ Restart => UNCHANGED Contents

(* Until a write fails, the file and its index implement the register       *)
(* operation by operation: a record makes way only when there is no room,   *)
(* and one that was removed stays removed (dev_store_update(),              *)
(* dev_store_remove(), dev_store_init()).                                   *)
ImplementsRegister ==
    Store!RegisterInit /\ [][faults' = 0 => AsPromised]_vars
=============================================================================
