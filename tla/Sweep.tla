------------------------------- MODULE Sweep -------------------------------
(***************************************************************************)
(* The network scanner (src/main/net/scanner.c): one task walks the        *)
(* addresses at a steady pace, one echo per slot, and learns who is there  *)
(* from lwIP's ARP table, which the probes themselves keep overwriting.    *)
(* A sighting marks the device; the end of a whole sweep counts a miss for *)
(* every device not marked (device_db_mark_sweep_end()).  Wi-Fi may go and *)
(* come back at any moment.  Time is counted in slots.  Round-trip times,  *)
(* progress, the trigger and the size limits of the subnet are left out.   *)
(***************************************************************************)
EXTENDS Naturals, Sequences, SequencesExt, FiniteSets

CONSTANTS Hosts,        \* number of addresses of the subnet, less our own
          Ring,         \* PENDING_RING
          Lag,          \* SCAN_ARP_LAG_MS, in slots
          Harvest,      \* SCAN_ARP_HARVEST_EVERY
          Table,        \* ARP_TABLE_SIZE
          Life,         \* slots before lwIP gives up an unanswered request
          MaxErrors,    \* SCAN_MAX_SEND_ERRORS
          OfflineAfter, \* NETDASH_OFFLINE_AFTER_MISSES
          MaxHere,      \* bound: hosts there at a time
          MaxMishaps,   \* bound: outages and failed sends
          MaxMoves      \* bound: hosts leaving or coming back

Addrs == 1..Hosts

ASSUME SweepAssumption ==
    /\ {Hosts, Ring, Lag, Harvest, Table, Life, MaxErrors, OfflineAfter} \subseteq Nat \ {0}
    /\ {MaxHere, MaxMishaps, MaxMoves} \subseteq Nat

VARIABLES
    haveIp,   \* s_have_ip
    settle,   \* s_settle_pending
    pc,       \* where the task is
    active,   \* this sweep walks: not passive_only
    addr,     \* the address to probe
    errors,   \* consecutive failed sends
    ring,     \* probes in flight, oldest first: address and age
    told,     \* s_seen_hash: recorded in this sweep
    arp,      \* lwIP's table, least recently updated first
    seen,     \* s_seen of the device database
    miss,     \* miss_count, by address, up to OfflineAfter
    here,     \* the hosts that are there
    asked,    \* those that have yet to answer a request
    left,     \* history: hosts that were away at some time
    mishaps,  \* history: outages and failed sends
    moves     \* hosts that left or came back so far

world   == <<here, left, moves>>
sweepOf == <<active, addr, errors, ring, told>>
db      == <<seen, miss>>
vars == <<haveIp, settle, pc, sweepOf, arp, db, world, asked, mishaps>>

SweepTypeOK ==
    /\ {haveIp, settle, active} \subseteq BOOLEAN
    /\ pc \in {"wait", "settle", "start", "probe", "pace", "last", "snapshot", "mark"}
    /\ addr \in Addrs /\ errors \in 0..MaxErrors - 1
    /\ Len(ring) <= Ring
    /\ ToSet(ring) \subseteq [host : Addrs, age : 0..Lag]
    /\ Len(arp) <= Table
    /\ ToSet(arp) \subseteq [host : Addrs, stable : BOOLEAN, age : 0..Life]
    /\ miss \in [Addrs -> 0..OfflineAfter]
    /\ UNION {told, seen, here, asked, left} \subseteq Addrs
    /\ mishaps \in 0..MaxMishaps /\ moves \in 0..MaxMoves

-----------------------------------------------------------------------------
(* lwIP's ARP table (external).                                            *)

Entry(h, stable) == [host |-> h, stable |-> stable, age |-> 0]
HasEntry(a, h) == \E i \in DOMAIN a : a[i].host = h
IsResolved(a, h) == \E i \in DOMAIN a : a[i].host = h /\ a[i].stable
Without(a, h) == SelectSeq(a, LAMBDA e : e.host # h)

\* The place for a new entry: a free one, or the oldest stable entry's, or
\* else the oldest pending one's.
Room(a) ==
    IF Len(a) < Table THEN a
    ELSE LET stable == {i \in DOMAIN a : a[i].stable}
         IN IF stable = {} THEN Tail(a)
            ELSE RemoveAt(a, CHOOSE i \in stable : \A j \in stable : i <= j)

\* A packet to h asks for its address, unless it is known or asked for.
Requested(a, h) == IF HasEntry(a, h) THEN a ELSE Append(Room(a), Entry(h, FALSE))

Answered(a, h) == Append(Room(Without(a, h)), Entry(h, TRUE))

\* A slot later, requests never answered are given up.
Older(a) ==
    SelectSeq([i \in DOMAIN a |-> IF a[i].stable THEN a[i] ELSE [a[i] EXCEPT !.age = @ + 1]],
              LAMBDA e : e.age < Life)

-----------------------------------------------------------------------------
(* Sightings.                                                              *)

\* device_db_upsert_seen() of each host in H.
Sights(H) ==
    /\ seen' = seen \union H
    /\ miss' = [h \in Addrs |-> IF h \in H THEN 0 ELSE miss[h]]
    /\ told' = told \union H

\* What resolving the ring entries E finds in table a.
Resolved(E, a) == {h \in {E[i].host : i \in DOMAIN E} : IsResolved(a, h)}

\* arp_snapshot() of table a: everything in it not recorded in this sweep.
Snapshot(a) == {h \in Addrs : IsResolved(a, h)} \ told

-----------------------------------------------------------------------------
(* The task.                                                               *)

\* The interval is over, a trigger came, or there is an address again.
Wake ==
    /\ pc = "wait" /\ haveIp
    /\ pc' = IF settle THEN "settle" ELSE "start"
    /\ settle' = FALSE
    /\ UNCHANGED <<haveIp, sweepOf, arp, db, world, asked, mishaps>>

Settled ==
    /\ pc = "settle"
    /\ pc' = IF haveIp THEN "start" ELSE "wait"
    /\ UNCHANGED <<haveIp, settle, sweepOf, arp, db, world, asked, mishaps>>

\* What a sweep before this one asked for was given up by lwIP.
Start(walk) ==
    /\ pc = "start"
    /\ arp' = SelectSeq(arp, LAMBDA e : e.stable)
    /\ IF haveIp
       THEN /\ pc' = IF walk THEN "probe" ELSE "snapshot"
            /\ active' = walk
            /\ addr' = 1 /\ errors' = 0 /\ ring' = <<>> /\ told' = {}
            /\ asked' = {}
       ELSE /\ pc' = "wait"
            /\ UNCHANGED <<sweepOf, asked>>
    /\ UNCHANGED <<haveIp, settle, db, world, mishaps>>

\* Given up: what is in flight is still resolved, and no sweep end is marked.
Abort ==
    /\ Sights(Resolved(ring, arp))
    /\ ring' = <<>> /\ pc' = "wait"
    /\ UNCHANGED <<haveIp, settle, active, addr, errors, arp, world, asked>>

\* ring_push(): a full ring first resolves its oldest probe.
Pushed(h) == [seq |-> Append(IF Len(ring) = Ring THEN Tail(ring) ELSE ring,
                             [host |-> h, age |-> 0]),
              popped |-> IF Len(ring) = Ring THEN <<Head(ring)>> ELSE <<>>]

HarvestDue == addr % Harvest = 0

\* One address: an echo is sent, and the table harvested now and then.
Probe ==
    /\ pc = "probe" /\ haveIp
    /\ LET p == Pushed(addr)
           a == Requested(arp, addr)
       IN /\ arp' = a /\ ring' = p.seq
          /\ Sights(Resolved(p.popped, a) \union (IF HarvestDue THEN Snapshot(a) ELSE {}))
          /\ asked' = IF IsResolved(arp, addr) THEN asked ELSE asked \union {addr}
    /\ errors' = 0 /\ pc' = "pace"
    /\ UNCHANGED <<haveIp, settle, active, addr, world, mishaps>>

\* The send fails for now; too many of those in a row end the sweep.
SendFails ==
    /\ pc = "probe" /\ haveIp
    /\ mishaps < MaxMishaps /\ mishaps' = mishaps + 1
    /\ IF errors + 1 >= MaxErrors THEN Abort
       ELSE /\ errors' = errors + 1 /\ pc' = "pace"
            /\ Sights(IF HarvestDue THEN Snapshot(arp) ELSE {})
            /\ UNCHANGED <<haveIp, settle, active, addr, ring, arp, world, asked>>

ProbeAborts == pc = "probe" /\ ~haveIp /\ Abort /\ UNCHANGED mishaps

\* A slot is over.  A host answers within the lag, if the network is there.
InTime == \A i \in DOMAIN ring :
             ring[i].age + 1 >= Lag /\ haveIp /\ ring[i].host \in here => ring[i].host \notin asked

Aged == [i \in DOMAIN ring |-> [ring[i] EXCEPT !.age = @ + 1]]
IsDue(e) == e.age >= Lag

\* pace_until(): probes that are due are resolved, then the walk goes on.
Pace ==
    /\ pc = "pace" /\ haveIp /\ InTime
    /\ Sights(Resolved(SelectSeq(Aged, IsDue), arp))
    /\ ring' = SelectSeq(Aged, LAMBDA e : ~IsDue(e))
    /\ arp' = Older(arp)
    /\ IF addr = Hosts THEN pc' = "last" /\ UNCHANGED addr
                       ELSE pc' = "probe" /\ addr' = addr + 1
    /\ UNCHANGED <<haveIp, settle, active, errors, world, asked, mishaps>>

PaceAborts == pc = "pace" /\ ~haveIp /\ Abort /\ UNCHANGED mishaps

\* Mutant: the last probes are not waited for.
LastAtOnce ==
    /\ pc = "last"
    /\ Sights(Resolved(ring, arp))
    /\ ring' = <<>> /\ pc' = "snapshot"
    /\ UNCHANGED <<haveIp, settle, active, addr, errors, arp, world, asked, mishaps>>

\* The last probes get their time, and what is left of Wi-Fi does not matter.
LastOnes ==
    /\ pc = "last"
    /\ haveIp => asked \intersect here \intersect {ring[i].host : i \in DOMAIN ring} = {}
    /\ Sights(Resolved(ring, arp))
    /\ ring' = <<>> /\ pc' = "snapshot"
    /\ UNCHANGED <<haveIp, settle, active, addr, errors, arp, world, asked, mishaps>>

TakeSnapshot ==
    /\ pc = "snapshot"
    /\ Sights(Snapshot(arp))
    /\ pc' = "mark"
    /\ UNCHANGED <<haveIp, settle, active, addr, errors, ring, arp, world, asked,
                   mishaps>>

\* Mutant: the marks stay.
MarkKeeping ==
    /\ pc = "mark"
    /\ miss' = [h \in Addrs |-> IF active /\ h \notin seen /\ miss[h] < OfflineAfter
                                THEN miss[h] + 1 ELSE miss[h]]
    /\ seen' = seen
    /\ pc' = "wait"
    /\ UNCHANGED <<haveIp, settle, sweepOf, arp, world, asked, mishaps>>

\* Only a walk is evidence of absence.
Mark ==
    /\ pc = "mark"
    /\ miss' = [h \in Addrs |-> IF active /\ h \notin seen /\ miss[h] < OfflineAfter
                                THEN miss[h] + 1 ELSE miss[h]]
    /\ seen' = IF active THEN {} ELSE seen
    /\ pc' = "wait"
    /\ UNCHANGED <<haveIp, settle, sweepOf, arp, world, asked, mishaps>>

Task == \/ Wake \/ Settled \/ (\E walk \in BOOLEAN : Start(walk))
        \/ Probe \/ SendFails \/ ProbeAborts \/ Pace \/ PaceAborts
        \/ LastOnes \/ TakeSnapshot \/ Mark

-----------------------------------------------------------------------------
(* The event handlers and the network.                                     *)

LosesIp ==
    /\ haveIp /\ haveIp' = FALSE
    /\ mishaps < MaxMishaps /\ mishaps' = mishaps + 1
    /\ UNCHANGED <<settle, pc, sweepOf, arp, db, world, asked>>

GotIp ==
    /\ ~haveIp /\ haveIp' = TRUE /\ settle' = TRUE
    /\ UNCHANGED <<pc, sweepOf, arp, db, world, asked, mishaps>>

\* The answer comes while the walk goes on, or never.
Answers(h) ==
    /\ haveIp /\ pc \in {"probe", "pace", "last"} /\ h \in asked \intersect here
    /\ asked' = asked \ {h}
    /\ arp' = Answered(arp, h)
    /\ UNCHANGED <<haveIp, settle, pc, sweepOf, db, world, mishaps>>

\* lwIP forgets a host minutes after it last answered a request.
Forgets(h) ==
    /\ IsResolved(arp, h) /\ pc = "wait"
    /\ arp' = Without(arp, h)
    /\ UNCHANGED <<haveIp, settle, pc, sweepOf, db, world, asked, mishaps>>

Moves(h) ==
    /\ moves < MaxMoves /\ moves' = moves + 1
    /\ here' = IF h \in here THEN here \ {h} ELSE here \union {h}
    /\ Cardinality(here') <= MaxHere
    /\ left' = left \union {h}
    /\ UNCHANGED <<haveIp, settle, pc, sweepOf, arp, db, asked, mishaps>>

-----------------------------------------------------------------------------
Init ==
    /\ haveIp = FALSE /\ settle = FALSE /\ pc = "wait" /\ active = FALSE
    /\ addr = 1 /\ errors = 0 /\ ring = <<>> /\ told = {} /\ arp = <<>>
    /\ seen = {} /\ miss = [h \in Addrs |-> OfflineAfter]
    /\ here \in {H \in SUBSET Addrs : Cardinality(H) <= MaxHere} /\ left = Addrs \ here
    /\ asked = {} /\ mishaps = 0 /\ moves = 0

Next == \/ Task \/ LosesIp \/ GotIp
        \/ \E h \in Addrs : Answers(h) \/ Forgets(h) \/ Moves(h)

\* The task runs, a host answers, and a gone one is forgotten by lwIP.
Fairness == /\ WF_vars(Task) /\ WF_vars(GotIp)
            /\ \A h \in Addrs : WF_vars(Answers(h)) /\ SF_vars(Forgets(h))

Spec == Init /\ [][Next]_vars /\ Fairness

-----------------------------------------------------------------------------
(* Properties.                                                             *)

\* A host that never left is not declared offline until as many mishaps,
\* outages that a sweep did not notice included, as misses are tolerated.
HereStaysOnline ==
    [][ \A h \in Addrs \ left :
          miss[h] < OfflineAfter /\ miss'[h] = OfflineAfter => mishaps >= OfflineAfter ]_vars

\* A host that has gone is offline in the end, if whole walks keep ending,
\* whatever marks and ARP entries it left behind.
GoneGoesOffline ==
    []<>(pc = "mark" /\ active) =>
        \A h \in Addrs : <>[](h \notin here) => <>[](miss[h] = OfflineAfter)
=============================================================================
