------------------------------ MODULE PortScan ------------------------------
(***************************************************************************)
(* The port scanner (src/main/net/portscan.c) with the port half of the    *)
(* device database it works on (device_db_add_open_port() and its          *)
(* neighbours, src/main/db/device_db.c).  One task takes a device through  *)
(* its tiers, batch by batch, under a ceiling that rises; a finished       *)
(* device is scanned again when its results are old, and what is no longer *)
(* open is then dropped.  The web page clears a device and asks for it to  *)
(* be scanned anew, in three steps that interleave with the task.          *)
(* Notifications, counts, rates and progress are left out; a batch is one  *)
(* port, and a device's record is in the register and in RAM throughout.   *)
(***************************************************************************)
EXTENDS Naturals, Sequences, SequencesExt, FiniteSets

CONSTANTS Devices,     \* number of devices in the table
          TierPorts,   \* the ports of each tier, in the order they are probed
          MaxTier,     \* portscan_max_tier
          RescanTier,  \* portscan_rescan_tier
          RescanOn,    \* portscan_rescan_days is not zero
          MaxOpen,     \* NETDASH_MAX_OPEN_PORTS
          MaxEvents    \* bound: requests of the web page, devices leaving, returning
                       \* or changing address, ports opening or closing, connects failing
                       \* though the port is open, results growing old, stops, restarts

Devs  == 1..Devices
Tiers == 1..Len(TierPorts)
Ports == UNION {ToSet(TierPorts[t]) : t \in Tiers}
Common == 1

ASSUME PortScanAssumption ==
    /\ TierPorts \in Seq(Seq(Nat))
    /\ Devices \in Nat \ {0} /\ MaxTier \in Tiers /\ RescanTier \in Tiers
    /\ RescanOn \in BOOLEAN /\ MaxOpen \in Nat \ {0}
    /\ MaxEvents \in Nat

VARIABLES
    ram,     \* tier and age of the results, s_ports of the device database
    reg,     \* the same in the register, and the open ports
    allowed, \* scanning is on and the station mode is up
    pc,      \* where the task is
    cur,     \* its locals: mac, have_dev, dev_tier, ceiling, jump, is_rescan; own: whether
             \* ip, taken when the device was chosen, is still the device's
    tier,    \* s_ps.tier, the ceiling
    index,   \* s_ps.device_index
    cursor,  \* s_ps.cursor
    jump,    \* s_ps.jump_valid
    rs,      \* s_rs
    adding,  \* the port being recorded, the ports being dropped
    web,     \* the handler of the web page: step and device
    online,  \* devices the database calls online
    here,    \* devices that are there
    open,    \* the ports open on each
    looked,  \* history: ports probed since the list was cleared
    doubt,   \* history: ports that were shut in this re-scan, whose device was away or at
             \* another address, or that a connect missed
    crossed, \* history: devices a tier of which was finished during a request
    events   \* those that MaxEvents bounds, so far

task    == <<pc, cur, tier, index, cursor, jump, rs, adding>>
world   == <<online, here, open>>
history == <<looked, doubt, crossed>>
vars == <<ram, reg, allowed, task, web, world, history, events>>

NoRescan == [active |-> FALSE, dev |-> 1, goal |-> 1, before |-> {}, found |-> {}, overflow |-> FALSE]
NoDevice == [dev |-> 1, have |-> FALSE, tier |-> Common, ceiling |-> Common, jump |-> FALSE,
             again |-> FALSE, own |-> TRUE]

Total == Len(TierPorts[cur.tier])

PortScanTypeOK ==
    /\ ram \in [Devs -> [tier : 0..MaxTier, scan : {"never", "fresh", "old"}]]
    /\ reg \in [Devs -> [tier : 0..MaxTier, scan : {"never", "fresh", "old"}, ports : SUBSET Ports]]
    /\ \A d \in Devs : Cardinality(reg[d].ports) <= MaxOpen
    /\ pc \in {"top", "jump", "pick", "advance", "begin", "work", "add", "move", "finish", "record"}
    /\ cur \in [dev : Devs, have : BOOLEAN, tier : Tiers, ceiling : 1..MaxTier, jump : BOOLEAN,
                again : BOOLEAN, own : BOOLEAN]
    /\ tier \in 1..MaxTier /\ index \in 1..Devices + 1
    /\ cursor \in Nat /\ (cur.have => cursor <= Total) /\ jump \in BOOLEAN
    /\ rs.goal \in 1..MaxTier /\ rs.before \cup rs.found \cup adding \subseteq Ports
    /\ Cardinality(rs.found) <= MaxOpen
    /\ web \in [step : {"idle", "clear", "jump"}, dev : Devs]
    /\ online \cup here \cup crossed \subseteq Devs
    /\ {open, looked} \subseteq [Devs -> SUBSET Ports] /\ doubt \subseteq Ports

-----------------------------------------------------------------------------
(* The database: a write to RAM under its lock, then one to the register.  *)

Higher(a, b) == IF a > b THEN a ELSE b
Lower(a, b)  == IF a < b THEN a ELSE b

\* The ports a re-scan as deep as goal has probed.
Covers(goal) == UNION {ToSet(TierPorts[t]) : t \in 1..goal}

-----------------------------------------------------------------------------
(* Which device next.                                                      *)

Unscanned == {d \in online : ram[d].tier = 0}
Unfinished == {d \in online : d >= index /\ ram[d].tier < cur.ceiling}
Due == {d \in online : RescanOn /\ ram[d].tier >= cur.ceiling /\ ram[d].scan = "old"}

FirstOf(D) == CHOOSE d \in D : \A e \in D : d <= e

Choice(d, t, again) == [cur EXCEPT !.dev = d, !.tier = t, !.again = again, !.own = TRUE]

\* Mutant: a device is probed at the ceiling, not at its own next tier.
ChosenAtCeiling ==
    IF Unscanned # {} THEN Choice(FirstOf(Unscanned), cur.ceiling, FALSE)
    ELSE IF Unfinished # {} THEN Choice(FirstOf(Unfinished), cur.ceiling, FALSE)
    ELSE Choice(FirstOf(Due), Common, TRUE)

\* next_device_for_tier(): one never scanned, one below the ceiling further
\* down the list, or one whose results are old.
Chosen ==
    IF Unscanned # {} THEN Choice(FirstOf(Unscanned), Common, FALSE)
    ELSE IF Unfinished # {}
    THEN LET d == FirstOf(Unfinished) IN Choice(d, ram[d].tier + 1, FALSE)
    ELSE Choice(FirstOf(Due), Common, TRUE)

-----------------------------------------------------------------------------
(* The task.                                                               *)

Happens == events < MaxEvents /\ events' = events + 1

\* reload_settings() and the checks at the top of the loop.
Top ==
    /\ pc = "top"
    /\ IF allowed
       THEN cur' = [cur EXCEPT !.ceiling = tier] /\ pc' = "jump"
       ELSE cur' = NoDevice /\ UNCHANGED pc
    /\ UNCHANGED <<ram, reg, allowed, tier, index, cursor, jump, rs, adding, web, world, history,
                   events>>

TakeJump ==
    /\ pc = "jump"
    /\ jump' = FALSE
    /\ cur' = IF jump THEN [NoDevice EXCEPT !.jump = TRUE, !.ceiling = cur.ceiling] ELSE cur
    /\ cursor' = IF jump THEN 0 ELSE cursor
    /\ pc' = IF cur'.have THEN "work" ELSE "pick"
    /\ UNCHANGED <<ram, reg, allowed, tier, index, rs, adding, web, world, history, events>>

Pick ==
    /\ pc = "pick"
    /\ IF Unscanned \cup Unfinished \cup Due = {}
       THEN pc' = "advance" /\ cur' = NoDevice
       ELSE pc' = "begin" /\ cur' = Chosen
    /\ UNCHANGED <<ram, reg, allowed, tier, index, cursor, jump, rs, adding, web, world, history,
                   events>>

\* Mutant: the walk through the devices is not started over.
AdvanceOnly ==
    /\ pc = "advance"
    /\ tier' = IF tier >= MaxTier THEN Common ELSE tier + 1
    /\ cursor' = 0 /\ pc' = "top"
    /\ UNCHANGED <<ram, reg, allowed, cur, index, jump, rs, adding, web, world, history, events>>

\* Nothing to do under this ceiling: the next one, or all over again.
Advance ==
    /\ pc = "advance"
    /\ tier' = IF tier >= MaxTier THEN Common ELSE tier + 1
    /\ index' = 1 /\ cursor' = 0 /\ pc' = "top"
    /\ UNCHANGED <<ram, reg, allowed, cur, jump, rs, adding, web, world, history, events>>

\* The device starts its tier; a re-scan notes what was open before.
Begin ==
    /\ pc = "begin"
    /\ index' = cur.dev
    /\ cursor' = IF cur.jump THEN cursor ELSE 0
    /\ cur' = [cur EXCEPT !.have = TRUE, !.jump = FALSE, !.again = FALSE]
    /\ rs' = IF cur.again
             THEN [active |-> TRUE, dev |-> cur.dev, goal |-> Lower(RescanTier, MaxTier),
                   before |-> reg[cur.dev].ports, found |-> {}, overflow |-> FALSE]
             ELSE NoRescan
    /\ doubt' = IF ~cur.again THEN {}
                ELSE IF cur.own /\ cur.dev \in here THEN Ports \ open[cur.dev] ELSE Ports
    /\ pc' = "work"
    /\ UNCHANGED <<ram, reg, allowed, tier, jump, adding, web, world, looked, crossed, events>>

IsRescan == rs.active /\ rs.dev = cur.dev

\* What a re-scan drops in the end.
Closed ==
    IF rs.overflow \/ cur.dev \notin online THEN {}
    ELSE (rs.before \ rs.found) \intersect Covers(rs.goal)

\* A re-scan goes one tier deeper.
Deeper ==
    /\ pc = "work" /\ cursor >= Total /\ IsRescan /\ cur.tier < rs.goal
    /\ cur' = [cur EXCEPT !.tier = @ + 1] /\ cursor' = 0 /\ pc' = "top"
    /\ UNCHANGED <<ram, reg, allowed, tier, index, jump, rs, adding, web, world, history, events>>

TierEnds ==
    /\ pc = "work" /\ cursor >= Total /\ ~(IsRescan /\ cur.tier < rs.goal)
    /\ adding' = IF IsRescan THEN Closed ELSE {}
    /\ rs' = IF IsRescan THEN NoRescan ELSE rs
    /\ pc' = "finish"
    /\ UNCHANGED <<ram, reg, allowed, cur, tier, index, cursor, jump, web, world, history, events>>

Probed == TierPorts[cur.tier][cursor + 1]

\* Mutant: only a port that was not known counts as found.
NotedIfNew(p) ==
    IF ~IsRescan \/ p \in rs.found \cup rs.before THEN rs
    ELSE IF Cardinality(rs.found) < MaxOpen THEN [rs EXCEPT !.found = @ \cup {p}]
    ELSE [rs EXCEPT !.overflow = TRUE]

\* rs_note_open()
Noted(p) ==
    IF ~IsRescan \/ p \in rs.found THEN rs
    ELSE IF Cardinality(rs.found) < MaxOpen THEN [rs EXCEPT !.found = @ \cup {p}]
    ELSE [rs EXCEPT !.overflow = TRUE]

Opens == cur.dev \in here /\ Probed \in open[cur.dev]

\* probe_batch() of one port.  At an address the device has left, anyone may
\* answer; and a connect may fail or take too long, whoever is there.
Probe ==
    /\ pc = "work" /\ cursor < Total
    /\ looked' = [looked EXCEPT ![cur.dev] = @ \cup {Probed}]
    /\ \/ /\ ~cur.own \/ Opens
          /\ rs' = Noted(Probed) /\ adding' = {Probed} /\ pc' = "add"
          /\ UNCHANGED <<doubt, events>>
       \/ /\ IF cur.own /\ Opens THEN Happens ELSE UNCHANGED events
          /\ doubt' = IF IsRescan THEN doubt \cup {Probed} ELSE doubt
          /\ pc' = "move" /\ UNCHANGED <<rs, adding>>
    /\ UNCHANGED <<ram, reg, allowed, cur, tier, index, cursor, jump, web, world, crossed>>

\* No socket: the probe is tried again.
NoSocket == /\ pc = "work" /\ cursor < Total /\ pc' = "top"
            /\ UNCHANGED <<ram, reg, allowed, cur, tier, index, cursor, jump, rs, adding, web, world,
                           history, events>>

\* device_db_add_open_port()
Add ==
    /\ pc = "add"
    /\ reg' = [reg EXCEPT ![cur.dev].ports =
                  IF Cardinality(@) < MaxOpen THEN @ \cup adding ELSE @]
    /\ adding' = {} /\ pc' = "move"
    /\ UNCHANGED <<ram, allowed, cur, tier, index, cursor, jump, rs, web, world, history, events>>

Move ==
    /\ pc = "move"
    /\ cursor' = cursor + 1 /\ pc' = "top"
    /\ UNCHANGED <<ram, reg, allowed, cur, tier, index, jump, rs, adding, web, world, history, events>>

\* rs_finish() removes the closed ports one by one.
Drop(p) ==
    /\ pc = "finish" /\ p \in adding
    /\ reg' = [reg EXCEPT ![cur.dev].ports = @ \ {p}]
    /\ adding' = adding \ {p}
    /\ UNCHANGED <<ram, allowed, pc, cur, tier, index, cursor, jump, rs, web, world, history, events>>

Requested(d) == jump \/ (web.step # "idle" /\ web.dev = d)
Crossing == crossed' = IF Requested(cur.dev) THEN crossed \cup {cur.dev} ELSE crossed

\* device_db_finish_tier(): in RAM,
Finish ==
    /\ pc = "finish" /\ adding = {}
    /\ ram' = [ram EXCEPT ![cur.dev] = [tier |-> Higher(@.tier, cur.tier), scan |-> "fresh"]]
    /\ Crossing /\ doubt' = {}
    /\ pc' = "record"
    /\ UNCHANGED <<reg, allowed, cur, tier, index, cursor, jump, rs, adding, web, world, looked,
                   events>>

\* and in the register; then on to the next device.
Record ==
    /\ pc = "record"
    /\ reg' = [reg EXCEPT ![cur.dev].tier = Higher(@, cur.tier), ![cur.dev].scan = "fresh"]
    /\ Crossing
    /\ index' = index + 1 /\ cursor' = 0 /\ pc' = "top"
    /\ cur' = NoDevice
    /\ UNCHANGED <<ram, allowed, tier, jump, rs, adding, web, world, looked, doubt, events>>

Task == \/ Top \/ TakeJump \/ Pick \/ Advance \/ Begin \/ Deeper \/ TierEnds
        \/ Probe \/ NoSocket \/ Add \/ Move \/ (\E p \in Ports : Drop(p)) \/ Finish \/ Record

-----------------------------------------------------------------------------
(* The web page asks for a scan (portscan_rescan_device()).                *)

ClearRam(d) ==
    /\ web.step = "idle" /\ Happens
    /\ ram' = [ram EXCEPT ![d] = [tier |-> 0, scan |-> "never"]]
    /\ web' = [step |-> "clear", dev |-> d]
    /\ UNCHANGED <<reg, allowed, task, world, history>>

ClearReg ==
    /\ web.step = "clear"
    /\ reg' = [reg EXCEPT ![web.dev] = [tier |-> 0, scan |-> "never", ports |-> {}]]
    /\ looked' = [looked EXCEPT ![web.dev] = {}]
    /\ web' = [web EXCEPT !.step = "jump"]
    /\ UNCHANGED <<ram, allowed, task, world, doubt, crossed, events>>

Jump ==
    /\ web.step = "jump"
    /\ jump' = TRUE /\ tier' = Common /\ cursor' = 0
    /\ web' = [web EXCEPT !.step = "idle"]
    /\ UNCHANGED <<ram, reg, allowed, pc, cur, index, rs, adding, world, history, events>>

Web == ClearReg \/ Jump

-----------------------------------------------------------------------------
(* The network, the clock, the switch and the power.                       *)

Rescans(d) == d = cur.dev /\ (rs.active \/ pc = "finish")

\* The database notices both late: sweeps, and the first packet.
GoesOffline(d) == d \in online \ here /\ online' = online \ {d}
                  /\ UNCHANGED <<ram, reg, allowed, task, web, here, open, history, events>>
ComesOnline(d) == d \in here \ online /\ online' = online \cup {d}
                  /\ UNCHANGED <<ram, reg, allowed, task, web, here, open, history, events>>

Moves(d) ==
    /\ Happens
    /\ here' = IF d \in here THEN here \ {d} ELSE here \cup {d}
    /\ doubt' = IF Rescans(d) THEN Ports ELSE doubt
    /\ UNCHANGED <<ram, reg, allowed, task, web, online, open, looked, crossed>>

Switches(d, p) ==
    /\ Happens
    /\ open' = [open EXCEPT ![d] = IF p \in @ THEN @ \ {p} ELSE @ \cup {p}]
    /\ doubt' = IF Rescans(d) THEN doubt \cup {p} ELSE doubt
    /\ UNCHANGED <<ram, reg, allowed, task, web, online, here, looked, crossed>>

\* The device at hand takes another address, or has taken it before it was
\* chosen and the database does not know.
Readdresses ==
    /\ cur.own /\ (cur.have \/ pc = "begin")
    /\ Happens
    /\ cur' = [cur EXCEPT !.own = FALSE]
    /\ doubt' = IF Rescans(cur.dev) THEN Ports ELSE doubt
    /\ UNCHANGED <<ram, reg, allowed, pc, tier, index, cursor, jump, rs, adding, web, world, looked,
                   crossed>>

Ages(d) ==
    /\ ram[d].scan = "fresh" /\ reg[d].scan = "fresh"
    /\ Happens
    /\ ram' = [ram EXCEPT ![d].scan = "old"] /\ reg' = [reg EXCEPT ![d].scan = "old"]
    /\ UNCHANGED <<allowed, task, web, world, history>>

Stop ==
    /\ allowed /\ allowed' = FALSE
    /\ Happens
    /\ UNCHANGED <<ram, reg, task, web, world, history>>

Resume == ~allowed /\ allowed' = TRUE
          /\ UNCHANGED <<ram, reg, task, web, world, history, events>>

TaskInit == /\ pc = "top" /\ cur = NoDevice /\ tier = Common /\ index = 1 /\ cursor = 0
            /\ jump = FALSE /\ rs = NoRescan /\ adding = {}

\* The power goes: RAM is what the register says.
Restart ==
    /\ Happens
    /\ ram' = [d \in Devs |-> [tier |-> reg[d].tier, scan |-> reg[d].scan]]
    /\ pc' = "top" /\ cur' = NoDevice /\ tier' = Common /\ index' = 1 /\ cursor' = 0
    /\ jump' = FALSE /\ rs' = NoRescan /\ adding' = {}
    /\ web' = [web EXCEPT !.step = "idle"] /\ online' = {}
    /\ UNCHANGED <<reg, allowed, here, open, history>>

-----------------------------------------------------------------------------
Init ==
    /\ TaskInit
    /\ reg = [d \in Devs |-> [tier |-> 0, scan |-> "never", ports |-> {}]]
    /\ ram = [d \in Devs |-> [tier |-> 0, scan |-> "never"]]
    /\ allowed = TRUE /\ web = [step |-> "idle", dev |-> 1]
    /\ online = {} /\ here = Devs
    /\ open = [d \in Devs |-> Ports]
    /\ looked = [d \in Devs |-> {}] /\ doubt = {} /\ crossed = {}
    /\ events = 0

Next == \/ Task \/ Web \/ Readdresses \/ Stop \/ Resume \/ Restart
        \/ \E d \in Devs : \/ ClearRam(d) \/ GoesOffline(d) \/ ComesOnline(d) \/ Moves(d) \/ Ages(d)
                           \/ \E p \in Ports : Switches(d, p)

\* The task runs, a socket comes free now and then, and so does the web page;
\* who is there is noticed.
Fairness == /\ WF_vars(Task) /\ SF_vars(Probe) /\ WF_vars(Web) /\ WF_vars(Resume)
            /\ \A d \in Devs : WF_vars(ComesOnline(d))

Spec == Init /\ [][Next]_vars /\ Fairness

-----------------------------------------------------------------------------
(* Properties.                                                             *)

\* A device always advances through its own tiers in order: what is recorded
\* as scanned up to a tier has had every port of every tier up to it probed
\* since its list was last cleared (portscan.c:435-442).  Not so for a device
\* one of whose tiers ended while a request to scan it anew was under way.
TiersInOrder ==
    \A d \in Devs \ crossed : Covers(reg[d].tier) \subseteq looked[d]

\* A device keeps a port that answers.  The task drops one only if, since the
\* re-scan of the device began, it was shut, a connect to it failed, or the
\* device was away or left the address the task had taken down; and nothing
\* is dropped of a device that is offline when its re-scan ends.
KeepsOpen ==
    [][ /\ \A d \in Devs :
             web.step = "clear" \/ reg[d].ports \ reg'[d].ports \subseteq doubt
        /\ TierEnds => adding' = {} \/ cur.dev \in online ]_vars

\* Every device that stays is scanned up to the last tier in the end.
EveryoneScanned ==
    \A d \in Devs : <>[](d \in here) => <>(ram[d].tier = MaxTier)
=============================================================================
