------------------------------ MODULE DeviceDb ------------------------------
(***************************************************************************)
(* The device database: the table of active devices in RAM in front of the *)
(* register in flash, and the tasks that share them - the scanner (the     *)
(* only one to report sightings, end sweeps and write the table back), the *)
(* discovery tasks and the HTTP server (one request at a time).            *)
(*                                                                         *)
(* The table is only touched under s_lock and the register is never        *)
(* touched under it, so every operation is a chain of steps: a locked      *)
(* section on the table, or one access to the register, with any step of   *)
(* another task possible in between.  What a step copied out of the table  *)
(* (snapshot, s_demoted, s_pre) is carried in the task's own variables.    *)
(*                                                                         *)
(* Abstracted: last-seen times (who is oldest among equals is left open),  *)
(* the address tracker (its verdict is left open here; see AddrTrack), the *)
(* presence history and the port results.  What discovery learns about a   *)
(* device is its name: a rank, the source that gave it.                    *)
(***************************************************************************)
EXTENDS Naturals, Sequences, FiniteSets

CONSTANTS
    Mac,           \* hardware addresses
    Addr,          \* IPv4 addresses
    NoAddr,        \* address 0: not known
    Nick, NoNick,  \* nicknames, and the empty one
    MaxSrc,        \* bound: ranks of name sources are 1..MaxSrc, 0 is no name
    MaxActive,     \* NETDASH_MAX_DEVICES
    BootActive,    \* devices loaded at boot, MaxActive less an eighth
    RegisterMax,   \* DEV_STORE_MAX
    OfflineAfter,  \* NETDASH_OFFLINE_AFTER_MISSES
    MaxMiss,       \* 255: where miss_count stops, and where a record starts
    UserOps,       \* the requests users make: within {"rename","forget","import"}
    Imports,       \* what the entries of imports may say: [key, hw, ip]
    NoRec          \* nothing: no record, no snapshot, no job

ASSUME SizeAssumption ==
    /\ MaxActive \in Nat \ {0} /\ BootActive \in 0 .. MaxActive
    /\ MaxSrc \in Nat /\ RegisterMax \in Nat
ASSUME MissAssumption ==
    OfflineAfter \in Nat \ {0} /\ MaxMiss \in Nat /\ OfflineAfter < MaxMiss
ASSUME AddressAssumption == NoAddr \notin Addr

(* shared_id(): the key of the device answering for mac at one address. *)
SharedId(m, a) == <<m, a>>

Key == Mac \cup (Mac \X Addr)

ASSUME KeyAssumption == Mac \cap (Mac \X Addr) = {}
ASSUME FiniteAssumption == IsFiniteSet(Mac) /\ IsFiniteSet(Addr)
ASSUME ImportAssumption == Imports \subseteq [key : Key, hw : Key, ip : Addr \cup {NoAddr}]

Hw(k) == IF k \in Mac THEN k ELSE k[1]

Name == 0 .. MaxSrc

Payload ==
    [hw : Key, nick : Nick \cup {NoNick}, name : Name, src : Name,
     ip : Addr \cup {NoAddr}, shared : BOOLEAN]

Snapshot ==
    [key : Key, hw : Key, nick : Nick \cup {NoNick}, name : Name, src : Name,
     ip : Addr \cup {NoAddr}, shared : BOOLEAN]

ASSUME NothingAssumption ==
    NoRec \notin Key \cup Payload \cup Snapshot \cup [key : Key, rec : Payload]

Entry ==
    [key : Key, hw : Key, nick : Nick \cup {NoNick}, name : Name, src : Name,
     ip : Addr \cup {NoAddr}, shared : BOOLEAN,
     miss : 0 .. MaxMiss, seen : BOOLEAN, dirty : BOOLEAN]

VARIABLES
    tab,     \* s_devices[] and the arrays parallel to it: a sequence of entries
    reg,     \* the register
    pc,      \* where the scanner task is
    sight,   \* the sighting it is working on: [mac, ip]
    pre,     \* s_pre: a record read ahead of time, with its key, or NoRec
    job,     \* what the locked section left to be done without the lock
    flush,   \* the hourly write-back: [at, snap]
    watched, \* watched[m]: the address tracker holds addresses of m
    user,    \* the request the HTTP server is working on, or NoRec
    known    \* known[k]: the best name learnt for k since it was last forgotten

scannerVars == <<pc, sight, pre, job, flush>>
vars == <<tab, reg, scannerVars, watched, user, known>>

Store == INSTANCE Register
    WITH rec <- reg, Unnamed <- {p \in Payload : p.nick = NoNick}, Capacity <- RegisterMax

-----------------------------------------------------------------------------
(* The table *)

(* find_index_locked() *)
IsActive(t, k) == \E i \in DOMAIN t : t[i].key = k
IndexIn(t, k)  == CHOOSE i \in DOMAIN t : t[i].key = k

(* has_sibling_locked(): someone else answers with the hardware address m. *)
HasSibling(t, m) == \E i \in DOMAIN t : t[i].key # m /\ t[i].hw = m

(* new_slot_locked()'s entry, of a device that answers with Hw(k).          *)
Blank(k) ==
    [key |-> k, hw |-> Hw(k), nick |-> NoNick, name |-> 0, src |-> 0, ip |-> NoAddr,
     shared |-> FALSE, miss |-> 0, seen |-> FALSE, dirty |-> FALSE]

(* drop_slot_locked(): the last entry fills the gap. *)
Dropped(t, i) ==
    [j \in 1 .. Len(t) - 1 |-> IF j = i THEN t[Len(t)] ELSE t[j]]

(* Mistake: a device makes way though it answered the last sweep.           *)
NotYetSeen(t) == {i \in DOMAIN t : ~t[i].seen}

(* demote_one_locked(): of the devices that missed the last sweep and have  *)
(* not been seen in this one, one that missed the most.                     *)
Absentees(t) == {i \in DOMAIN t : t[i].miss > 0 /\ ~t[i].seen}
Victims(t)   == {i \in Absentees(t) : \A j \in Absentees(t) : t[j].miss <= t[i].miss}

(* What a copy of an entry taken under the lock is later written from.      *)
Copy(d) ==
    [key |-> d.key, hw |-> d.hw, nick |-> d.nick, name |-> d.name, src |-> d.src, ip |-> d.ip,
     shared |-> d.shared]

(* new_slot_locked(): the ways to make room for a new entry e, with the     *)
(* device that was moved out to s_demoted.  None when everyone is online.   *)
Rooms(t, e) ==
    IF Len(t) < MaxActive
    THEN {[tab |-> Append(t, e), demoted |-> NoRec]}
    ELSE {[tab |-> Append(Dropped(t, i), e), demoted |-> Copy(t[i])] : i \in Victims(t)}

(* device_from_rec(): an offline device from its record. *)
FromRecord(k, p) ==
    [key |-> k, hw |-> p.hw, nick |-> p.nick, name |-> p.name, src |-> p.src, ip |-> p.ip,
     shared |-> p.shared, miss |-> MaxMiss, seen |-> FALSE, dirty |-> FALSE]

-----------------------------------------------------------------------------
(* The register *)

(* rec_set_device(): the device's fields into its record p, which keeps its *)
(* name when the device has none in RAM.                                    *)
Merged(p, d) ==
    [hw |-> d.hw, nick |-> d.nick, src |-> d.src, ip |-> d.ip, shared |-> d.shared,
     name |-> IF d.name = 0 /\ p # NoRec THEN p.name ELSE d.name]

(* store_device(): create the record if need be; a full register of named   *)
(* devices refuses, and nobody looks.                                       *)
StoreDevice(d) ==
    Store!Write(d.key, Merged(reg[d.key], d)) \/ Store!Refuse(d.key)

-----------------------------------------------------------------------------
(* device_db_upsert_seen(): the scanner reports mac at ip *)

NoJob == [key |-> NoRec, hw |-> NoRec, demoted |-> NoRec, primary |-> NoRec, snap |-> NoRec,
          full |-> FALSE, split |-> FALSE, inserted |-> FALSE, wasKnown |-> FALSE]

NoSight == [mac |-> NoRec, ip |-> NoAddr]
NoFlush == [at |-> 0, snap |-> NoRec]

(* First locked section: is it active?  If not, look in the register. *)
Sighted(m, a) ==
    /\ pc = "idle"
    /\ sight' = [mac |-> m, ip |-> a]
    /\ pc' = IF IsActive(tab, SharedId(m, a)) \/ IsActive(tab, m) THEN "apply" ELSE "readId"
    /\ UNCHANGED <<tab, reg, pre, job, flush, user, known, watched>>

ReadAhead(from, k, otherwise) ==
    /\ pc = from
    /\ IF reg[k] # NoRec
       THEN pc' = "apply" /\ pre' = [key |-> k, rec |-> reg[k]]
       ELSE pc' = otherwise /\ UNCHANGED pre
    /\ UNCHANGED <<tab, reg, sight, job, flush, user, known, watched>>

(* Mistake: only the key of the address is looked up.                       *)
ReadNothing ==
    /\ pc = "readMac"
    /\ pc' = "apply"
    /\ UNCHANGED <<tab, reg, sight, pre, job, flush, user, known, watched>>

ReadId  == ReadAhead("readId", SharedId(sight.mac, sight.ip), "readMac")
ReadMac == ReadAhead("readMac", sight.mac, "apply")

Id == SharedId(sight.mac, sight.ip)

(* Mistake: the MAC's own entry is not looked for.                          *)
InHandById == IF IsActive(tab, Id) THEN Id ELSE NoRec

(* The entry the sighting is about, so far as the table knows. *)
InHand == IF IsActive(tab, Id) THEN Id ELSE IF IsActive(tab, sight.mac) THEN sight.mac ELSE NoRec

(* Second locked section.  First, a remembered device is made active again, *)
(* if there is room.                                                        *)
Promoted ==
    LET asIs  == [tab |-> tab, demoted |-> NoRec, at |-> InHand]
        rooms == Rooms(tab, FromRecord(pre.key, pre.rec))
    IN  IF InHand # NoRec \/ pre = NoRec THEN {asIs}
        ELSE IF rooms = {} THEN {asIs}
        ELSE {[tab |-> r.tab, demoted |-> r.demoted, at |-> pre.key] : r \in rooms}

(* Then the address tracker judges a MAC's own entry, once it has been seen *)
(* at two addresses: it moved, the other address is a stale ARP entry, or   *)
(* two devices share the MAC.  Which, depends on times not modelled here,   *)
(* but it takes more than one sighting of a second address to tell.         *)
Judged(s) ==
    /\ s.at = sight.mac
    /\ LET d == s.tab[IndexIn(s.tab, s.at)]
       IN  d.ip # NoAddr /\ ~d.shared /\ (d.ip # sight.ip \/ watched[sight.mac])

Verdicts(s) ==
    IF ~Judged(s) THEN {"none"}
    ELSE LET elsewhere == s.tab[IndexIn(s.tab, s.at)].ip # sight.ip
         IN  (IF elsewhere THEN {"moved"} ELSE {"none"})
             \cup (IF elsewhere /\ watched[sight.mac] THEN {"stale"} ELSE {})
             \cup (IF watched[sight.mac] THEN {"shared"} ELSE {})

Declared(s, v) ==
    IF v # "shared" THEN s.tab
    ELSE [s.tab EXCEPT ![IndexIn(s.tab, s.at)] =
             [@ EXCEPT !.shared = TRUE, !.name = 0, !.src = 0]]

(* An address of a shared MAC other than the one its own entry is pinned to *)
(* gets an entry of its own.                                                *)
Splits(t, at) ==
    /\ at = sight.mac
    /\ LET d == t[IndexIn(t, at)]
       IN  d.shared /\ d.ip # NoAddr /\ d.ip # sight.ip

Touched(d, v) ==
    [d EXCEPT !.ip = IF v = "stale" THEN @ ELSE sight.ip,
              !.miss = 0, !.seen = TRUE, !.dirty = TRUE]

(* What is written, and in which order, once the lock is released. *)
AfterDemoted(j) ==
    IF j.full THEN "full"
    ELSE IF j.primary # NoRec THEN "primary"
    ELSE IF j.snap # NoRec THEN "persist" ELSE "announce"

AfterPrimary(j) == IF j.snap # NoRec THEN "persist" ELSE "announce"

(* Mistake: the device that made way is not written.                        *)
LeaveUnwritten(j) == job' = j /\ pc' = AfterDemoted(j)

Leave(j) ==
    /\ job' = j
    /\ pc' = IF j.demoted # NoRec THEN "demoted" ELSE AfterDemoted(j)

(* Mistake: a record is written only once the clock is set.                 *)
SettleDated(t, k, demoted, primary, v, fresh) ==
    \E dated \in BOOLEAN :
        LET i == IndexIn(t, k)
            d == Touched(t[i], v)
        IN  /\ tab' = [t EXCEPT ![i] = d]
            /\ Leave([NoJob EXCEPT
                        !.key = k, !.demoted = demoted, !.primary = primary,
                        !.snap = IF dated THEN Copy(d) ELSE NoRec,
                        !.inserted = fresh, !.wasKnown = reg[k] # NoRec])

(* The sighting updates the entry of k in table t.  A record is written for *)
(* a new device, and for one whose first sighting has just got a date.      *)
Settle(t, k, demoted, primary, v, fresh) ==
    \E dated \in BOOLEAN :
        LET i == IndexIn(t, k)
            d == Touched(t[i], v)
        IN  /\ tab' = [t EXCEPT ![i] = d]
            /\ Leave([NoJob EXCEPT
                        !.key = k, !.demoted = demoted, !.primary = primary,
                        !.snap = IF fresh \/ dated THEN Copy(d) ELSE NoRec,
                        !.inserted = fresh, !.wasKnown = reg[k] # NoRec])

(* Everyone is online: the newcomer stays in the register. *)
TableFull(t, split, demoted) ==
    LET k  == IF pre # NoRec THEN pre.key ELSE IF split THEN Id ELSE sight.mac
        hw == IF pre # NoRec THEN pre.rec.hw ELSE sight.mac
    IN  /\ tab' = t
        /\ Leave([NoJob EXCEPT !.key = k, !.hw = hw, !.demoted = demoted, !.full = TRUE,
                               !.split = split])

(* What the sighting comes to, once it is known whose it is and what the    *)
(* tracker says.                                                            *)
Resolve(s, v) ==
    LET t     == Declared(s, v)
        split == s.at # NoRec /\ Splits(t, s.at)
        k     == IF split THEN Id ELSE sight.mac
        rooms == Rooms(t, [Blank(k) EXCEPT !.shared = split])
        prim  == IF v = "shared" THEN Copy(t[IndexIn(t, s.at)]) ELSE NoRec
    IN  IF s.at # NoRec /\ ~split THEN Settle(t, s.at, s.demoted, prim, v, FALSE)
        ELSE IF rooms = {} THEN TableFull(t, split, s.demoted)
        ELSE \E r \in rooms :
                Settle([r.tab EXCEPT ![Len(r.tab)].shared = @ \/ HasSibling(r.tab, k)],
                       k, IF r.demoted # NoRec THEN r.demoted ELSE s.demoted, prim, v, TRUE)

Apply ==
    /\ pc = "apply"
    /\ \E s \in Promoted : \E v \in Verdicts(s) :
          /\ Resolve(s, v)
          /\ known' = IF v = "shared" THEN [known EXCEPT ![sight.mac] = 0] ELSE known
          /\ watched' = IF Judged(s) THEN [watched EXCEPT ![sight.mac] = v # "shared"] ELSE watched
    /\ pre' = NoRec
    /\ UNCHANGED <<reg, sight, flush, user>>

(* The register accesses that follow. *)

WriteDemoted ==
    /\ pc = "demoted"
    /\ StoreDevice(job.demoted)
    /\ pc' = AfterDemoted(job)
    /\ job' = [job EXCEPT !.demoted = NoRec]
    /\ UNCHANGED <<tab, sight, pre, flush, user, known, watched>>

(* edit_seen() *)
RegisterOnly ==
    /\ pc = "full"
    /\ LET seen == IF reg[job.key] # NoRec
                   THEN [reg[job.key] EXCEPT !.ip = sight.ip]
                   ELSE [hw |-> job.hw, nick |-> NoNick, name |-> 0, src |-> 0,
                         ip |-> sight.ip, shared |-> job.split]
       IN  Store!Write(job.key, seen) \/ Store!Refuse(job.key)
    /\ pc' = "announce"
    /\ UNCHANGED <<tab, sight, pre, job, flush, user, known, watched>>

WritePrimary ==
    /\ pc = "primary"
    /\ StoreDevice(job.primary)
    /\ pc' = AfterPrimary(job)
    /\ job' = [job EXCEPT !.primary = NoRec]
    /\ UNCHANGED <<tab, sight, pre, flush, user, known, watched>>

Persist ==
    /\ pc = "persist"
    /\ StoreDevice(job.snap)
    /\ pc' = "clean"
    /\ job' = [job EXCEPT !.snap = NoRec]
    /\ UNCHANGED <<tab, sight, pre, flush, user, known, watched>>

Clean ==
    /\ pc = "clean"
    /\ tab' = [i \in DOMAIN tab |->
                  IF tab[i].key = job.key THEN [tab[i] EXCEPT !.dirty = FALSE] ELSE tab[i]]
    /\ pc' = "announce"
    /\ UNCHANGED <<reg, sight, pre, job, flush, user, known, watched>>

Announce ==
    /\ pc = "announce"
    /\ pc' = "idle"
    /\ job' = NoJob
    /\ sight' = NoSight
    /\ UNCHANGED <<tab, reg, pre, flush, user, known, watched>>

-----------------------------------------------------------------------------
(* device_db_mark_sweep_end() *)

(* A mistake: the count of misses stops one short of where a device is      *)
(* declared offline.                                                        *)
AgedShort(d) ==
    IF d.seen THEN [d EXCEPT !.seen = FALSE]
    ELSE IF d.miss < OfflineAfter - 1 THEN [d EXCEPT !.miss = @ + 1] ELSE d

Aged(d) ==
    IF d.seen THEN [d EXCEPT !.seen = FALSE]
    ELSE IF d.miss < MaxMiss THEN [d EXCEPT !.miss = @ + 1] ELSE d

(* The hourly write-back may be due or not. *)
SweepEnd(due) ==
    /\ pc = "idle"
    /\ tab' = [i \in DOMAIN tab |-> Aged(tab[i])]
    /\ watched' \in [Mac -> BOOLEAN]
    /\ \A m \in Mac : watched'[m] => watched[m]
    /\ IF due THEN pc' = "flush" /\ flush' = [NoFlush EXCEPT !.at = 1]
              ELSE UNCHANGED <<pc, flush>>
    /\ UNCHANGED <<reg, sight, pre, job, user, known>>

(* Mistake: the last entry is never written back.                           *)
FlushShort ==
    /\ pc = "flush"
    /\ IF flush.at >= Len(tab)
       THEN pc' = "idle" /\ flush' = NoFlush /\ UNCHANGED tab
       ELSE IF tab[flush.at].dirty
       THEN /\ pc' = "flushWrite"
            /\ flush' = [flush EXCEPT !.snap = Copy(tab[flush.at])]
            /\ tab' = [tab EXCEPT ![flush.at].dirty = FALSE]
       ELSE flush' = [flush EXCEPT !.at = @ + 1] /\ UNCHANGED <<pc, tab>>
    /\ UNCHANGED <<reg, sight, pre, job, user, known, watched>>

FlushTake ==
    /\ pc = "flush"
    /\ IF flush.at > Len(tab)
       THEN pc' = "idle" /\ flush' = NoFlush /\ UNCHANGED tab
       ELSE IF tab[flush.at].dirty
       THEN /\ pc' = "flushWrite"
            /\ flush' = [flush EXCEPT !.snap = Copy(tab[flush.at])]
            /\ tab' = [tab EXCEPT ![flush.at].dirty = FALSE]
       ELSE flush' = [flush EXCEPT !.at = @ + 1] /\ UNCHANGED <<pc, tab>>
    /\ UNCHANGED <<reg, sight, pre, job, user, known, watched>>

FlushWrite ==
    /\ pc = "flushWrite"
    /\ StoreDevice(flush.snap)
    /\ pc' = "flush"
    /\ flush' = [at |-> flush.at + 1, snap |-> NoRec]
    /\ UNCHANGED <<tab, sight, pre, job, user, known, watched>>

-----------------------------------------------------------------------------
(* The discovery tasks: device_db_set_hostname() *)

SetHostname(k, r) ==
    /\ IsActive(tab, k)
    /\ LET i == IndexIn(tab, k)
           d == IF r >= tab[i].src THEN [tab[i] EXCEPT !.name = r, !.src = r] ELSE tab[i]
       IN  /\ tab' = [tab EXCEPT ![i] = [d EXCEPT !.dirty = TRUE]]
           /\ known' = [known EXCEPT ![k] = IF d.name > @ THEN d.name ELSE @]
    /\ UNCHANGED <<reg, scannerVars, user, watched>>

-----------------------------------------------------------------------------
(* The HTTP server *)

(* device_db_set_user(), of a device the request handler has found: in RAM, *)
(* then the whole device to the register; a device that is only remembered  *)
(* has its record edited.                                                   *)
Rename(k, n) ==
    /\ "rename" \in UserOps
    /\ user = NoRec
    /\ IsActive(tab, k) \/ reg[k] # NoRec
    /\ IF IsActive(tab, k)
       THEN LET i == IndexIn(tab, k)
                d == [tab[i] EXCEPT !.nick = n, !.dirty = FALSE]
            IN  /\ tab' = [tab EXCEPT ![i] = d]
                /\ user' = [op |-> "write", key |-> k, nick |-> n, snap |-> Copy(d)]
       ELSE /\ user' = [op |-> "edit", key |-> k, nick |-> n, snap |-> NoRec]
            /\ UNCHANGED tab
    /\ UNCHANGED <<reg, scannerVars, known, watched>>

RenameWrite ==
    /\ user # NoRec /\ user.op = "write"
    /\ StoreDevice(user.snap)
    /\ user' = NoRec
    /\ UNCHANGED <<tab, scannerVars, known, watched>>

RenameEdit ==
    /\ user # NoRec /\ user.op = "edit"
    /\ IF reg[user.key] = NoRec THEN UNCHANGED reg
       ELSE Store!Replace(user.key, [reg[user.key] EXCEPT !.nick = user.nick])
    /\ user' = NoRec
    /\ UNCHANGED <<tab, scannerVars, known, watched>>

(* device_db_remove() *)
Forget(k) ==
    /\ "forget" \in UserOps
    /\ user = NoRec
    /\ IF IsActive(tab, k)
       THEN /\ tab' = Dropped(tab, IndexIn(tab, k))
            /\ user' = [op |-> "erase", key |-> k, nick |-> NoNick, snap |-> NoRec]
            /\ watched' = [m \in Mac |-> watched[m] /\ m # k]
            /\ known' = [known EXCEPT ![k] = 0]
       ELSE /\ user' = [op |-> "lookup", key |-> k, nick |-> NoNick, snap |-> NoRec]
            /\ UNCHANGED <<tab, watched, known>>
    /\ UNCHANGED <<reg, scannerVars>>

ForgetLookup ==
    /\ user # NoRec /\ user.op = "lookup"
    /\ user' = IF reg[user.key] = NoRec THEN NoRec ELSE [user EXCEPT !.op = "erase"]
    /\ UNCHANGED <<tab, reg, scannerVars, known, watched>>

ForgetErase ==
    /\ user # NoRec /\ user.op = "erase"
    /\ Store!Erase(user.key)
    /\ user' = NoRec
    /\ known' = [known EXCEPT ![user.key] = 0]
    /\ UNCHANGED <<tab, scannerVars, watched>>

(* device_db_ensure(), device_db_ensure_shared(): an import brings back a   *)
(* record, with the hardware address and the address the import gives it.   *)
(* Nothing checks that the key stands for the two.                          *)
Ensure(k) ==
    /\ "import" \in UserOps
    /\ user = NoRec
    /\ \E e \in Imports : e.key = k
    /\ ~IsActive(tab, k)
    /\ user' = [op |-> "ensure", key |-> k, nick |-> NoNick, snap |-> NoRec]
    /\ UNCHANGED <<tab, reg, scannerVars, known, watched>>

(* edit_ensure(): only a device whose key is not its hardware address needs *)
(* the address that tells it apart.                                         *)
Imported(e) ==
    [hw |-> e.hw, nick |-> NoNick, name |-> 0, src |-> 0,
     ip |-> IF e.hw # e.key THEN e.ip ELSE NoAddr, shared |-> e.hw # e.key]

(* Mistake: the address of an import is not recorded.                       *)
EnsureUnplaced ==
    /\ user # NoRec /\ user.op = "ensure"
    /\ \E e \in Imports :
          /\ e.key = user.key
          /\ IF reg[e.key] # NoRec THEN UNCHANGED reg
             ELSE Store!Write(e.key, [Imported(e) EXCEPT !.ip = NoAddr]) \/ Store!Refuse(e.key)
    /\ user' = NoRec
    /\ UNCHANGED <<tab, scannerVars, known, watched>>

EnsureWrite ==
    /\ user # NoRec /\ user.op = "ensure"
    /\ \E e \in Imports :
          /\ e.key = user.key
          /\ IF reg[e.key] # NoRec THEN UNCHANGED reg
             ELSE Store!Write(e.key, Imported(e)) \/ Store!Refuse(e.key)
    /\ user' = NoRec
    /\ UNCHANGED <<tab, scannerVars, known, watched>>

-----------------------------------------------------------------------------
(* device_db_init(): the devices seen most recently, as offline. *)

Loaded(t) ==
    LET n == IF Cardinality(Store!Remembered) < BootActive
             THEN Cardinality(Store!Remembered) ELSE BootActive
    IN  \E f \in [1 .. n -> Store!Remembered] :
            /\ \A i, j \in 1 .. n : f[i] = f[j] => i = j
            /\ t = [i \in 1 .. n |-> FromRecord(f[i], reg[f[i]])]

Restart ==
    /\ Loaded(tab')
    /\ pc' = "idle" /\ sight' = NoSight /\ pre' = NoRec /\ job' = NoJob
    /\ flush' = NoFlush /\ user' = NoRec
    /\ watched' = [m \in Mac |-> FALSE]
    /\ known' = [k \in Key |-> IF reg[k] = NoRec THEN 0 ELSE reg[k].name]
    /\ UNCHANGED reg

Init ==
    /\ tab = <<>>
    /\ Store!RegisterInit
    /\ pc = "idle" /\ sight = NoSight /\ pre = NoRec /\ job = NoJob
    /\ flush = NoFlush /\ user = NoRec
    /\ watched = [m \in Mac |-> FALSE]
    /\ known = [k \in Key |-> 0]

Scanner ==
    \/ \E m \in Mac, a \in Addr : Sighted(m, a)
    \/ ReadId \/ ReadMac \/ Apply
    \/ WriteDemoted \/ RegisterOnly \/ WritePrimary \/ Persist \/ Clean \/ Announce
    \/ \E due \in BOOLEAN : SweepEnd(due)
    \/ FlushTake \/ FlushWrite

Discovery == \E k \in Key, r \in Name \ {0} : SetHostname(k, r)

HttpServer ==
    \/ \E k \in Key, n \in Nick \cup {NoNick} : Rename(k, n)
    \/ RenameWrite \/ RenameEdit
    \/ \E k \in Key : Forget(k) \/ Ensure(k)
    \/ ForgetLookup \/ ForgetErase \/ EnsureWrite

Next == Scanner \/ Discovery \/ HttpServer \/ Restart

Spec == Init /\ [][Next]_vars

(* The scanner task keeps running, sweeps keep ending without being cut     *)
(* short, and every so often an hour has passed when one does.              *)
FairSpec ==
    /\ Spec
    /\ WF_vars(ReadId \/ ReadMac \/ Apply \/ WriteDemoted \/ RegisterOnly \/ WritePrimary
               \/ Persist \/ Clean \/ Announce \/ FlushTake \/ FlushWrite)
    /\ SF_vars(SweepEnd(TRUE))

-----------------------------------------------------------------------------
(* Properties *)

NoneOr(S) == S \cup {NoRec}

Job ==
    [key : NoneOr(Key), hw : NoneOr(Key), demoted : NoneOr(Snapshot), primary : NoneOr(Snapshot),
     snap : NoneOr(Snapshot), full : BOOLEAN, split : BOOLEAN,
     inserted : BOOLEAN, wasKnown : BOOLEAN]

Request ==
    [op : {"write", "edit", "lookup", "erase", "ensure"}, key : Key,
     nick : Nick \cup {NoNick}, snap : NoneOr(Snapshot)]

TypeOK ==
    /\ tab \in Seq(Entry)
    /\ reg \in [Key -> NoneOr(Payload)]
    /\ pc \in {"idle", "readId", "readMac", "apply", "demoted", "full", "primary",
               "persist", "clean", "announce", "flush", "flushWrite"}
    /\ sight \in [mac : NoneOr(Mac), ip : Addr \cup {NoAddr}]
    /\ pre \in NoneOr([key : Key, rec : Payload])
    /\ job \in Job
    /\ flush \in [at : Nat, snap : NoneOr(Snapshot)]
    /\ user \in NoneOr(Request)
    /\ watched \in [Mac -> BOOLEAN]
    /\ known \in [Key -> Name]

(* However devices are promoted, split off, demoted and removed, the table  *)
(* never overflows its array and no device is in it twice: one that was     *)
(* would be counted, named and announced as two.                            *)
OneEntryPerDevice ==
    /\ Len(tab) <= MaxActive
    /\ \A i, j \in DOMAIN tab : tab[i].key = tab[j].key => i = j

(* A device that answered the last sweep, or has answered in this one,      *)
(* leaves the table only when the user forgets it or at a reboot (the       *)
(* comment on demote_one_locked(): swapping out one that was just seen      *)
(* "turned every sighting into two flash writes").                          *)
OnlineStays ==
    [][\A i \in DOMAIN tab :
          /\ tab[i].miss = 0 \/ tab[i].seen
          /\ ~IsActive(tab', tab[i].key)
          => Forget(tab[i].key) \/ Restart]_vars

(* Copies of k's entry on their way to the register. *)
InFlight(k) ==
    \/ pc = "demoted" /\ job.demoted.key = k
    \/ pc = "flushWrite" /\ flush.snap.key = k
    \/ user # NoRec /\ user.key = k

(* What was learnt about a device outlives its place in the table ("nothing *)
(* is lost but its 24-hour history"): once it has been moved out, its       *)
(* record has the best name anyone found for it.                            *)
NothingLost ==
    \A k \in Key :
        ~IsActive(tab, k) /\ ~InFlight(k) /\ reg[k] # NoRec => reg[k].name >= known[k]

(* "Every device gets a record, named or not": when nobody is half-way      *)
(* through an operation, each active device has one.                        *)
EveryDeviceRecorded ==
    pc = "idle" /\ user = NoRec => \A i \in DOMAIN tab : reg[tab[i].key] # NoRec

(* The scanner announces a new device only when the register does not       *)
(* remember it ("so a returning device comes back with its name rather than *)
(* as a stranger").                                                         *)
NewIsNew == job.inserted => ~job.wasKnown

(* Nobody undoes a rename: when nobody is half-way through an operation,    *)
(* the nickname of an active device is the one its record has (dev_store.h: *)
(* "two tasks editing different fields of the same device cannot undo each  *)
(* other").                                                                 *)
NicknameSticks ==
    pc = "idle" /\ user = NoRec =>
        \A i \in DOMAIN tab :
            reg[tab[i].key] # NoRec => reg[tab[i].key].nick = tab[i].nick

(* The imports of k, if any, are of the device at address a behind m.       *)
BroughtHome(k, m, a) == \A e \in Imports : e.key = k => e.hw = m /\ e.ip = a

(* An entry split off a shared MAC stays with the MAC and the address its   *)
(* key is made of, in RAM and in the register ("so the same device gets the *)
(* same key after a reboot and finds its persisted nickname again"),        *)
(* unless an import has said otherwise of that key: nobody checks it.       *)
SplitAtHome ==
    \A m \in Mac, a \in Addr :
        LET k == SharedId(m, a) IN
        BroughtHome(k, m, a) =>
            /\ \A i \in DOMAIN tab : tab[i].key = k => tab[i].hw = m /\ tab[i].ip = a
            /\ reg[k] # NoRec => reg[k].hw = m /\ reg[k].ip = a

(* A device that stops answering reaches the count at which it is declared  *)
(* offline, unless it answers after all or leaves the table first.          *)
Silent(k) == \E i \in DOMAIN tab :
    tab[i].key = k /\ ~tab[i].seen /\ tab[i].miss < OfflineAfter

SilentGoesOffline == \A k \in Key : Silent(k) ~> ~Silent(k)

(* No entry stays marked as changed for ever: the hourly write-back comes   *)
(* to it in the end, though entries change places while it is under way.    *)
Changed(k) == \E i \in DOMAIN tab : tab[i].key = k /\ tab[i].dirty

DirtyIsWritten ==
    \A k \in Key : Changed(k) ~> ~Changed(k)
=============================================================================
