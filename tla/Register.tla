------------------------------ MODULE Register ------------------------------
(***************************************************************************)
(* What the device register promises the rest of the firmware: a map from  *)
(* a device's key to its record, holding at most Capacity records.  When   *)
(* it is full, creating a record makes one record without a nickname give  *)
(* way (which one is DevStore's business), and when every record has a     *)
(* nickname the newcomer is refused.  This is the contract written in      *)
(* dev_store.h; DevStore is the file and index that keep it, and DeviceDb  *)
(* is built on it.                                                         *)
(***************************************************************************)
EXTENDS Naturals, FiniteSets

CONSTANTS
    Key,        \* keys of devices: MACs and the ids of split addresses
    Payload,    \* what a record can say about a device
    Unnamed,    \* the payloads without a nickname
    Capacity,   \* DEV_STORE_MAX
    NoRec       \* "there is no record"

VARIABLE rec    \* rec[k]: the record of k, or NoRec

RegisterTypeOK == rec \in [Key -> Payload \cup {NoRec}]

RegisterInit == rec = [k \in Key |-> NoRec]

Remembered == {k \in Key : rec[k] # NoRec}

Full == Cardinality(Remembered) >= Capacity

(* Records that may make way for a new one. *)
Evictable == {k \in Remembered : rec[k] \in Unnamed}

-----------------------------------------------------------------------------

(* dev_store_update() of a key that has a record. *)
Replace(k, p) ==
    /\ rec[k] # NoRec
    /\ rec' = [rec EXCEPT ![k] = p]

(* dev_store_update() that creates a record, there being room for it. *)
Add(k, p) ==
    /\ rec[k] = NoRec
    /\ ~Full
    /\ rec' = [rec EXCEPT ![k] = p]

(* dev_store_update() that creates a record in the place of another. *)
AddEvicting(k, p) ==
    /\ rec[k] = NoRec
    /\ Full
    /\ \E v \in Evictable : rec' = [rec EXCEPT ![v] = NoRec, ![k] = p]

(* ESP_ERR_NO_MEM: every record has a nickname. *)
Refuse(k) ==
    /\ rec[k] = NoRec
    /\ Full
    /\ Evictable = {}
    /\ UNCHANGED rec

Write(k, p) == Replace(k, p) \/ Add(k, p) \/ AddEvicting(k, p)

(* dev_store_remove(). *)
Erase(k) == rec' = [rec EXCEPT ![k] = NoRec]

(* Power lost in the middle of a write of k: k, and in a full register the  *)
(* one giving way to it, may end up old, new, gone or mixed; nobody else.   *)
Interrupted(k) ==
    \E v \in Key :
        /\ v = k \/ (rec[k] = NoRec /\ Full /\ v \in Evictable)
        /\ \E p, q \in Payload \cup {NoRec} :
                rec' = [rec EXCEPT ![v] = q, ![k] = p]

=============================================================================
