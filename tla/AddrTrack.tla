----------------------------- MODULE AddrTrack -----------------------------
(***************************************************************************)
(* The address tracker of the device database (src/main/db/device_db.c):   *)
(* whether a MAC seen at two addresses has moved, is still remembered by   *)
(* lwIP's ARP table where it was, or is shared by several devices behind   *)
(* an extender.  One MAC, whose entry is in the table; the slots are those *)
(* other MACs leave it.  Sweeps begin one Period apart and sight, within   *)
(* the time of one Walk and in any order, any of the addresses that        *)
(* resolve.  What an address split off a shared MAC goes through is in     *)
(* DeviceDb.                                                               *)
(***************************************************************************)
EXTENDS Naturals, FiniteSets

CONSTANTS Addrs,    \* addresses of the subnet
          None,     \* no address
          Hosts,    \* hosts behind the MAC
          Slots,    \* ADDR_TRACK_SLOTS
          Confirm,  \* SHARED_CONFIRM_S
          Expire,   \* ADDR_EXPIRE_S
          MaxAge,   \* ARP_MAXAGE of lwIP
          Period,   \* time from sweep to sweep: a walk and the interval after it
          Walk,     \* time within which one walk over the subnet sights addresses
          MaxSweeps,\* bound: sweeps
          MaxMoves  \* bound: moves of hosts, and forgettings

ASSUME TrackAssumption ==
    /\ None \notin Addrs /\ IsFiniteSet(Addrs) /\ IsFiniteSet(Hosts)
    /\ {Slots, Period} \subseteq Nat \ {0} /\ {MaxAge, Confirm, Expire} \subseteq Nat
    /\ {MaxSweeps, MaxMoves} \subseteq Nat /\ Walk \in 1..Period
    /\ MaxAge < Confirm /\ Confirm <= Expire

VARIABLES
    now,    \* uptime_s()
    sweep,  \* sweeps ended
    trk,    \* s_addrs, by address
    ip,     \* the entry's address; None while there is no entry
    shared, \* NETDASH_FLAG_SHARED_MAC
    told,   \* the moves the last sweep end told of
    at,     \* where each host is
    gone,   \* when a host was last at an address, for those that hosts left
    steady, \* history: since when a host at an address was missed by no sweep
    seen,   \* history: addresses sighted in this sweep
    crowd,  \* history: two hosts were there at a time
    since,  \* history: when the entry last changed its address
    stray,  \* history: an address counted as new after its host had left it
    back,   \* history: a host came back to an address too soon
    debt,   \* history: the move of the host that is not told yet: [to, since]
    moves   \* moves and forgettings so far

entry   == <<ip, shared>>
world   == <<at, gone, moves>>
history == <<steady, seen, crowd, since, back, stray, debt>>
vars == <<now, sweep, trk, entry, told, world, history>>

Free == [first |-> 0, last |-> 0, from |-> None, used |-> FALSE]
NoMove == [to |-> None, since |-> 0]
Never == 0

Later(s, t) == IF s < t THEN t ELSE s

Tracked(t) == {a \in Addrs : t[a].used}
Occupied == {at[h] : h \in Hosts} \ {None}

TrackTypeOK ==
    /\ trk \in [Addrs -> [first : 1..now, last : 1..now, from : Addrs \cup {None}, used : {TRUE}]
                         \cup {Free}]
    /\ Cardinality(Tracked(trk)) <= Slots
    /\ ip \in Addrs \cup {None} /\ shared \in BOOLEAN
    /\ told \subseteq Addrs \X Addrs
    /\ at \in [Hosts -> Addrs \cup {None}] /\ gone \in [Addrs -> 0..now]
    /\ steady \in [Addrs -> 0..now] /\ seen \subseteq Addrs
    /\ {crowd, back, stray} \subseteq BOOLEAN
    /\ sweep \in 0..MaxSweeps /\ moves \in 0..MaxMoves

-----------------------------------------------------------------------------
(* The tracker.                                                            *)

Oldest(t) == {a \in Tracked(t) : \A x \in Tracked(t) : t[a].last <= t[x].last}

\* Mutant: an address that comes back counts from when it was first seen.
NotedFirst(t, a, n) ==
    IF t[a].used
    THEN {[t EXCEPT ![a].last = n]}
    ELSE LET new == [first |-> n, last |-> n, from |-> None, used |-> TRUE]
         IN IF Cardinality(Tracked(t)) < Slots THEN {[t EXCEPT ![a] = new]}
            ELSE {[t EXCEPT ![v] = Free, ![a] = new] : v \in Oldest(t)}

\* Mutant: an address unseen for as long as the window counts as new.
NotedOften(t, a, n) ==
    IF t[a].used
    THEN {[t EXCEPT ![a].last = n, ![a].first = IF n - t[a].last >= Confirm THEN n ELSE @]}
    ELSE LET new == [first |-> n, last |-> n, from |-> None, used |-> TRUE]
         IN IF Cardinality(Tracked(t)) < Slots THEN {[t EXCEPT ![a] = new]}
            ELSE {[t EXCEPT ![v] = Free, ![a] = new] : v \in Oldest(t)}

\* addr_note_locked() at time n: an address unseen for long counts as new, and
\* with no slot free the one unseen longest makes way.
Noted(t, a, n) ==
    IF t[a].used
    THEN {[t EXCEPT ![a].last = n, ![a].first = IF n - t[a].last > Confirm THEN n ELSE @]}
    ELSE LET new == [first |-> n, last |-> n, from |-> None, used |-> TRUE]
         IN IF Cardinality(Tracked(t)) < Slots THEN {[t EXCEPT ![a] = new]}
            ELSE {[t EXCEPT ![v] = Free, ![a] = new] : v \in Oldest(t)}

\* Mutant: the other address need not have been seen since.
OneSided(t, a) ==
    \E x \in Tracked(t) \ {a} : t[a].last > t[x].first + Confirm

\* addr_concurrent_locked(): another address was alive at the same time.
Concurrent(t, a) ==
    \E x \in Tracked(t) \ {a} : /\ t[a].last > t[x].first + Confirm
                                /\ t[x].last > t[a].first + Confirm

Resolves(a, n) == a \in Occupied \/ (gone[a] # Never /\ n - gone[a] <= MaxAge)

\* A MAC with no entry, or at its address and not under watch.
Plain(a) ==
    /\ ip = None \/ (ip = a /\ Tracked(trk) = {}) \/ shared
    /\ ip' = IF ip = None THEN a ELSE ip
    /\ UNCHANGED <<trk, shared>>

\* The address it had is noted first, as of now.
Watched(a, n) ==
    IF ip # a /\ ~trk[ip].used
    THEN UNION {Noted(t, a, n) : t \in Noted(trk, ip, n)} ELSE Noted(trk, a, n)

Declares(t) == trk' = [a \in Addrs |-> Free] /\ shared' = TRUE /\ UNCHANGED ip

\* The entry follows the address that appeared last, and owes the news of it.
Follows(t, a) ==
    LET u == IF t[ip].used THEN [t EXCEPT ![ip].from = None] ELSE t
    IN trk' = [u EXCEPT ![a].from = ip] /\ ip' = a /\ UNCHANGED shared

\* Mutant: an address that appeared in the same second is not followed.
JudgesStrict(t, a) ==
    IF Concurrent(t, a) THEN Declares(t)
    ELSE IF ip # a /\ (~t[ip].used \/ t[a].first > t[ip].first) THEN Follows(t, a)
    ELSE trk' = t /\ UNCHANGED entry

\* The rest of addr_track_locked(): the verdict, or the newest is followed.
Judges(t, a) ==
    IF Concurrent(t, a) THEN Declares(t)
    ELSE IF ip # a /\ (~t[ip].used \/ t[a].first >= t[ip].first) THEN Follows(t, a)
    ELSE trk' = t /\ UNCHANGED entry

\* device_db_upsert_seen(), by a harvest at once or by probes one after another.
Sighted(a, n) ==
    /\ Resolves(a, n) /\ n \in {now, now + 1} /\ n < sweep * Period + Walk
    /\ n = now => a \notin seen
    /\ now' = n /\ seen' = seen \cup {a}
    /\ \/ Plain(a) /\ UNCHANGED stray
       \/ /\ ip # None /\ ~shared /\ (ip # a \/ Tracked(trk) # {})
          /\ \E t \in Watched(a, n) :
                /\ Judges(t, a)
                /\ stray' = (stray \/ (a \notin Occupied /\ t[a].first # trk[a].first))
    /\ since' = IF ip' = ip THEN since ELSE n
    /\ UNCHANGED <<sweep, told, world, steady, crowd, back, debt>>

-----------------------------------------------------------------------------
(* The end of a sweep.                                                     *)

\* Mutant: a move is told at the end of the sweep that found it.
DueAtOnce == {a \in Tracked(trk) : trk[a].from # None}

\* collect_moves_due_locked(): those whose old address has gone quiet.
Due == {a \in Tracked(trk) : /\ trk[a].from # None
                             /\ \/ ~trk[trk[a].from].used
                                \/ now - trk[trk[a].from].last > Confirm}

\* The news is given, and what nobody has seen for long is dropped; the next
\* sweep comes when the interval is over.
SweepEnd ==
    /\ sweep < MaxSweeps
    /\ LET paid == [a \in Addrs |-> IF a \in Due THEN [trk[a] EXCEPT !.from = None] ELSE trk[a]]
       IN trk' = [a \in Addrs |-> IF paid[a].from = None /\ now - paid[a].last > Expire
                                  THEN Free ELSE paid[a]]
    /\ told' = {<<trk[a].from, a>> : a \in Due}
    /\ debt' = IF \E m \in told' : m[2] = debt.to THEN NoMove ELSE debt
    /\ steady' = [a \in Addrs |-> IF a \in Occupied \cap seen THEN steady[a] ELSE now]
    /\ sweep' = sweep + 1 /\ now' = (sweep + 1) * Period /\ seen' = {}
    /\ UNCHANGED <<entry, world, crowd, since, back, stray>>

\* Time passes: the walk takes longer, or the interval after it.
Passes ==
    /\ now + 1 < (sweep + 1) * Period /\ now' = now + 1
    /\ UNCHANGED <<sweep, trk, entry, told, world, history>>

\* device_db_remove(): what was worked out about the addresses starts over.
\* What becomes of a shared MAC and its other addresses is in DeviceDb.
Forget ==
    /\ ip # None /\ ~shared /\ moves < MaxMoves /\ moves' = moves + 1
    /\ ip' = None /\ trk' = [a \in Addrs |-> Free]
    /\ steady' = [a \in Addrs |-> now] /\ debt' = NoMove
    /\ UNCHANGED <<now, sweep, shared, told, at, gone, seen, crowd, since, back, stray>>

-----------------------------------------------------------------------------
(* The hosts.                                                              *)

\* A host gets another address, comes, or goes.
Moves(h, a) ==
    /\ a # at[h] /\ a \notin Occupied /\ moves < MaxMoves /\ moves' = moves + 1
    /\ at' = [at EXCEPT ![h] = a]
    /\ gone' = IF at[h] = None THEN gone ELSE [gone EXCEPT ![at[h]] = now]
    /\ steady' = IF a = None THEN steady ELSE [steady EXCEPT ![a] = now]
    /\ crowd' = (crowd \/ (a # None /\ \E k \in Hosts \ {h} : at[k] # None))
    /\ back' = (back \/ /\ a # None /\ gone[a] # Never
                        /\ now <= Later(gone[a], since) + MaxAge + Confirm)
    /\ debt' = IF at[h] # None /\ ip = at[h] /\ a # None
               THEN [to |-> a, since |-> now] ELSE NoMove
    /\ UNCHANGED <<now, sweep, trk, entry, told, seen, since, stray>>

Init ==
    /\ now = Period /\ sweep = 1
    /\ trk = [a \in Addrs |-> Free] /\ ip = None /\ shared = FALSE /\ told = {}
    /\ at = [h \in Hosts |-> None] /\ gone = [a \in Addrs |-> Never]
    /\ steady = [a \in Addrs |-> 0] /\ seen = {} /\ crowd = FALSE /\ back = FALSE /\ since = 0
    /\ stray = FALSE
    /\ debt = NoMove /\ moves = 0

Next ==
    \/ \E a \in Addrs, n \in {now, now + 1} : Sighted(a, n)
    \/ SweepEnd \/ Passes \/ Forget
    \/ \E h \in Hosts, a \in Addrs \cup {None} : Moves(h, a)

Spec == Init /\ [][Next]_vars

-----------------------------------------------------------------------------
(* Properties.                                                             *)

\* A MAC of one host is never taken for a shared one: a stale ARP entry "cannot
\* manage that" (addr_concurrent_locked).  Unless the host comes back to an
\* address before the ARP entry and the confirmation window that followed have
\* run out; or an address it passed through, still in the ARP table, is sighted
\* for the first time when the host is elsewhere.
OnlyShared == shared => crowd \/ back \/ stray

\* A host that is alone, and that every sweep finds where it is, is where the
\* entry says, once the ARP entries of where it was are gone.
EntryFollows ==
    \A a \in Occupied :
        /\ ip # None /\ ~crowd /\ ~back /\ ~stray
        /\ now > steady[a] + MaxAge + 2 * Period
        => ip = a

Roomy == Cardinality(Addrs) <= Slots

\* Two hosts behind one MAC that every sweep finds are told apart within three
\* sweeps and a walk of the confirmation window, however the entry follows now one
\* of them and now the other meanwhile; if each address has a slot.  Sweeps further
\* apart than the window never do it: an address seen in every one of them still
\* counts as new each time.
SharedIsFound ==
    \A a, b \in Occupied :
        /\ Roomy /\ a # b
        /\ now > Later(steady[a], steady[b]) + Confirm + 3 * Period + Walk
        => shared

\* The news of a move to an address that every sweep finds the host at comes
\* after the ARP entry and the window ("six to eleven minutes after the move",
\* docs/API.md), to the sweep, though stale sightings take the entry back and
\* forth; and no sweep that found a host at an address, or none of those since it
\* came there, ends with the news that it was left.
MovesAreTold ==
    Roomy =>
        /\ debt # NoMove /\ ~crowd /\ ~back /\ ~stray /\ steady[debt.to] <= debt.since
              => now <= debt.since + Later(MaxAge, Period + Walk) + Confirm + 2 * Period
        /\ \A m \in told : m[1] \in Occupied => sweep * Period <= steady[m[1]] + Period
=============================================================================
