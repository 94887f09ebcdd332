--------------------------- MODULE PortScanProofs ---------------------------
(***************************************************************************)
(* Proofs about the port scanner, for any devices, tiers and ports.        *)
(*                                                                         *)
(* IInv is inductive.  The task's locals, the cursor and its place in the  *)
(* loop agree (PlaceSound); the tiers and ports of the device at hand that *)
(* the task is past were probed, unless a request to scan it anew is on    *)
(* the way (ProgressSound); and in a re-scan each of them was found open,  *)
(* or may have been shut (RescanSound).                                    *)
(***************************************************************************)
EXTENDS PortScan, FiniteSetTheorems, WellFoundedInduction, TLAPS

Scans == {"never", "fresh", "old"}

(* The database, the switch, the web page and the world.                    *)
TablesSound ==
    /\ ram \in [Devs -> [tier : 0..MaxTier, scan : Scans]]
    /\ reg \in [Devs -> [tier : 0..MaxTier, scan : Scans, ports : SUBSET Ports]]
    /\ \A d \in Devs : IsFiniteSet(reg[d].ports) /\ Cardinality(reg[d].ports) <= MaxOpen
    /\ web \in [step : {"idle", "clear", "jump"}, dev : Devs]
    /\ online \subseteq Devs /\ here \subseteq Devs /\ crossed \subseteq Devs
    /\ open \in [Devs -> SUBSET Ports] /\ looked \in [Devs -> SUBSET Ports]
    /\ doubt \subseteq Ports

LocalsSound ==
    /\ cur \in [dev : Devs, have : BOOLEAN, tier : 1..MaxTier, ceiling : 1..MaxTier,
                jump : BOOLEAN, again : BOOLEAN, own : BOOLEAN]
    /\ tier \in 1..MaxTier /\ cursor \in Nat /\ jump \in BOOLEAN
    /\ rs \in [active : BOOLEAN, dev : Devs, goal : 1..MaxTier, before : SUBSET Ports,
               found : SUBSET Ports, overflow : BOOLEAN]
    /\ IsFiniteSet(rs.found) /\ Cardinality(rs.found) <= MaxOpen
    /\ adding \subseteq Ports

(* Where the task is says whether it has a device, and how far it is in it. *)
PlaceSound ==
    /\ pc \in {"top", "jump", "pick", "advance", "begin", "work", "add", "move", "finish", "record"}
    /\ pc \in {"work", "add", "move", "finish", "record"} => cur.have
    /\ pc \in {"pick", "advance", "begin"} => ~cur.have
    /\ index \in 1..Devices + 1 /\ (cur.have => index \in Devs)
    /\ cur.have => cursor <= Total
    /\ cur.jump => cursor = 0 /\ ~cur.have
    /\ pc \in {"add", "move"} => cursor < Total
    /\ pc = "add" => \E p \in Ports : adding = {p}

(* The ports the task is past: c of tier t, and all of the tiers below.     *)
Past(t, c) == Covers(t - 1) \cup {TierPorts[t][k] : k \in 1..c}
Probes == IF pc = "begin" THEN 0 ELSE IF pc \in {"add", "move"} THEN cursor + 1 ELSE cursor
Behind == Past(cur.tier, Probes)

(* A tier is finished, in RAM or in the register, when all its ports and    *)
(* those of the tiers below were probed.                                    *)
ProgressSound ==
    /\ \A d \in Devs \ crossed : /\ Covers(ram[d].tier) \subseteq looked[d]
                                 /\ Covers(reg[d].tier) \subseteq looked[d]
                                 /\ web = [step |-> "clear", dev |-> d] => ram[d].tier = 0
    /\ (cur.have \/ pc = "begin") /\ cur.dev \notin crossed /\ ~Requested(cur.dev) =>
         /\ Behind \subseteq looked[cur.dev]
         /\ pc \in {"finish", "record"} => cursor >= Total

(* A port a re-scan is past was found open, or is in doubt; what is being   *)
(* dropped is in doubt.                                                     *)
RescanSound ==
    /\ pc = "begin" /\ cur.again => cur.tier = Common
    /\ cur.have /\ rs.active => rs.dev = cur.dev
    /\ cur.have /\ IsRescan =>
         /\ Ports \ open[cur.dev] \subseteq doubt
         /\ (cur.own /\ cur.dev \in here) \/ doubt = Ports
         /\ rs.overflow \/ Behind \subseteq rs.found \cup doubt
    /\ pc = "finish" => adding \subseteq doubt /\ ~rs.active

IInv == TablesSound /\ LocalsSound /\ PlaceSound /\ ProgressSound /\ RescanSound

-----------------------------------------------------------------------------
(* The constants, the tiers and their ports.                                *)

LEMMA Bounds ==
    /\ Devices \in Nat \ {0} /\ MaxOpen \in Nat \ {0} /\ Len(TierPorts) \in Nat
    /\ MaxTier \in 1..Len(TierPorts) /\ RescanTier \in 1..Len(TierPorts)
    /\ Tiers = 1..Len(TierPorts) /\ Devs = 1..Devices /\ MaxTier \in Nat
BY PortScanAssumption DEF Tiers, Devs

(* A tier is a sequence of ports.                                           *)
LEMMA TierFacts ==
    ASSUME NEW t \in Tiers
    PROVE  /\ Len(TierPorts[t]) \in Nat /\ DOMAIN TierPorts[t] = 1..Len(TierPorts[t])
           /\ ToSet(TierPorts[t]) = {TierPorts[t][k] : k \in 1..Len(TierPorts[t])}
           /\ ToSet(TierPorts[t]) \subseteq Ports
<1>1. TierPorts[t] \in Seq(Nat)
  BY PortScanAssumption DEF Tiers
<1>2. Len(TierPorts[t]) \in Nat /\ DOMAIN TierPorts[t] = 1..Len(TierPorts[t])
  BY <1>1
<1> QED
  BY <1>2 DEF ToSet, Ports

(* What a re-scan as deep as one tier covers.                               *)
LEMMA CoverFacts ==
    /\ Covers(0) = {}
    /\ \A t \in Tiers : Covers(t) = Covers(t - 1) \cup ToSet(TierPorts[t])
    /\ \A s, t \in Tiers : s <= t => Covers(s) \subseteq Covers(t)
<1>1. Covers(0) = {}
  BY DEF Covers
<1>2. ASSUME NEW t \in Tiers
      PROVE  Covers(t) = Covers(t - 1) \cup ToSet(TierPorts[t])
  <2>1. 1..t = (1..t - 1) \cup {t}
    BY Bounds
  <2> QED
    BY <2>1 DEF Covers
<1>3. ASSUME NEW s \in Tiers, NEW t \in Tiers, s <= t
      PROVE  Covers(s) \subseteq Covers(t)
  <2>1. 1..s \subseteq 1..t
    BY <1>3, Bounds
  <2> QED
    BY <2>1 DEF Covers
<1> QED
  BY <1>1, <1>2, <1>3

LEMMA CoveredArePorts ==
    ASSUME NEW t \in 0..Len(TierPorts)
    PROVE  Covers(t) \subseteq Ports
<1>1. 1..t \subseteq Tiers
  BY Bounds
<1> QED
  BY <1>1, TierFacts DEF Covers

(* The well-ordering of the numbers.                                        *)
LEMMA LeastNatural ==
    ASSUME NEW I \in SUBSET Nat, I # {}
    PROVE  \E n \in I : \A m \in I : n <= m
<1> DEFINE R == {mn \in Nat \X Nat : mn[1] < mn[2]}
<1>1. IsWellFoundedOn(R, Nat)
  BY NatLessThanWellFounded DEF OpToRel
<1>2. PICK n \in I : \A m \in I : <<m, n>> \notin R
  <2> HIDE DEF R
  <2> QED
    BY <1>1, WFMin
<1>3. \A m \in I : ~(m < n)
  BY <1>2
<1> QED
  BY <1>3

(* The first of some devices is one of them.                                *)
LEMMA FirstIsOne ==
    ASSUME NEW D \in SUBSET Devs, D # {}
    PROVE  FirstOf(D) \in D
<1>1. D \in SUBSET Nat
  BY Bounds
<1>2. \E d \in D : \A e \in D : d <= e
  BY <1>1, LeastNatural
<1> QED
  BY <1>2 DEF FirstOf

(* The device that is chosen starts at its own next tier, or at the first.  *)
LEMMA ChosenFacts ==
    ASSUME TablesSound, LocalsSound, Unscanned \cup Unfinished \cup Due # {}
    PROVE  \E d \in Devs, t \in 1..MaxTier, again \in BOOLEAN :
              /\ Chosen = [cur EXCEPT !.dev = d, !.tier = t, !.again = again, !.own = TRUE]
              /\ t = Common \/ t = ram[d].tier + 1
              /\ again => t = Common
<1> USE DEF Common
<1>1. Unscanned \subseteq Devs /\ Unfinished \subseteq Devs /\ Due \subseteq Devs
  BY DEF Unscanned, Unfinished, Due, TablesSound
<1>2. 1 \in 1..MaxTier
  BY Bounds
<1>3. CASE Unscanned # {}
  <2>1. FirstOf(Unscanned) \in Devs /\ Chosen = Choice(FirstOf(Unscanned), Common, FALSE)
    BY <1>1, <1>3, FirstIsOne DEF Chosen
  <2> QED
    BY <1>2, <2>1 DEF Choice
<1>4. CASE Unscanned = {} /\ Unfinished # {}
  <2> DEFINE d == FirstOf(Unfinished)
  <2>1. d \in Unfinished /\ d \in Devs
    BY <1>1, <1>4, FirstIsOne
  <2>2. Chosen = Choice(d, ram[d].tier + 1, FALSE)
    BY <1>4 DEF Chosen
  <2> HIDE DEF d
  <2>3. ram[d].tier \in 0..MaxTier /\ ram[d].tier < cur.ceiling /\ cur.ceiling \in 1..MaxTier
    BY <2>1 DEF Unfinished, TablesSound, LocalsSound
  <2>4. ram[d].tier + 1 \in 1..MaxTier
    BY <2>3, Bounds
  <2> QED
    BY <2>1, <2>2, <2>4 DEF Choice
<1>5. CASE Unscanned = {} /\ Unfinished = {}
  <2>1. FirstOf(Due) \in Devs /\ Chosen = Choice(FirstOf(Due), Common, TRUE)
    BY <1>1, <1>5, FirstIsOne DEF Chosen
  <2> QED
    BY <1>2, <2>1 DEF Choice
<1> QED
  BY <1>3, <1>4, <1>5

(* One more element of a set that is not full, and one less.                *)
LEMMA OneMore ==
    ASSUME NEW P, IsFiniteSet(P), NEW p, Cardinality(P) < MaxOpen
    PROVE  IsFiniteSet(P \cup {p}) /\ Cardinality(P \cup {p}) <= MaxOpen
<1>1. Cardinality(P) \in Nat /\ MaxOpen \in Nat
  BY FS_CardinalityType, Bounds
<1>2. IsFiniteSet(P \cup {p})
      /\ Cardinality(P \cup {p}) = IF p \in P THEN Cardinality(P) ELSE Cardinality(P) + 1
  BY FS_AddElement
<1> QED
  BY <1>1, <1>2

LEMMA OneLess ==
    ASSUME NEW P, IsFiniteSet(P), NEW p, Cardinality(P) <= MaxOpen
    PROVE  IsFiniteSet(P \ {p}) /\ Cardinality(P \ {p}) <= MaxOpen
<1>1. Cardinality(P) \in Nat /\ MaxOpen \in Nat
  BY FS_CardinalityType, Bounds
<1>2. IsFiniteSet(P \ {p})
      /\ Cardinality(P \ {p}) = IF p \in P THEN Cardinality(P) - 1 ELSE Cardinality(P)
  BY FS_RemoveElement
<1> QED
  BY <1>1, <1>2

(* The port that is probed is one of the tier.                              *)
LEMMA ProbedFacts ==
    ASSUME LocalsSound, cursor < Total
    PROVE  /\ cursor + 1 \in 1..Total /\ Probed \in Ports /\ Total \in Nat /\ cur.tier \in Tiers
           /\ Probed = TierPorts[cur.tier][cursor + 1]
<1>1. cur.tier \in Tiers /\ cursor \in Nat
  BY Bounds DEF LocalsSound
<1>2. Total \in Nat /\ Total = Len(TierPorts[cur.tier])
  BY <1>1, TierFacts DEF Total
<1>3. cursor + 1 \in 1..Len(TierPorts[cur.tier])
  BY <1>1, <1>2
<1> QED
  BY <1>1, <1>2, <1>3, TierFacts DEF Probed

(* The tier a device is scanned up to, once one more is finished.           *)
LEMMA FinishedTier ==
    ASSUME NEW a \in 0..MaxTier, LocalsSound
    PROVE  Higher(a, cur.tier) \in 0..MaxTier /\ Higher(a, cur.tier) \in {a, cur.tier}
BY Bounds DEF Higher, LocalsSound

-----------------------------------------------------------------------------
(* The tables.                                                              *)

(* One row of the register is rewritten.                                    *)
LEMMA RowKeeps ==
    ASSUME TablesSound, NEW d \in Devs, NEW t \in 0..MaxTier, NEW s \in Scans,
           NEW P \in SUBSET Ports, IsFiniteSet(P), Cardinality(P) <= MaxOpen,
           reg' = [reg EXCEPT ![d] = [tier |-> t, scan |-> s, ports |-> P]]
    PROVE  /\ reg' \in [Devs -> [tier : 0..MaxTier, scan : Scans, ports : SUBSET Ports]]
           /\ \A e \in Devs : IsFiniteSet(reg'[e].ports) /\ Cardinality(reg'[e].ports) <= MaxOpen
<1> DEFINE r == [tier |-> t, scan |-> s, ports |-> P]
<1>1. r \in [tier : 0..MaxTier, scan : Scans, ports : SUBSET Ports] /\ r.ports = P
  OBVIOUS
<1> HIDE DEF r
<1>2. reg' = [reg EXCEPT ![d] = r]
  BY DEF r
<1>3. reg \in [Devs -> [tier : 0..MaxTier, scan : Scans, ports : SUBSET Ports]]
      /\ \A e \in Devs : IsFiniteSet(reg[e].ports) /\ Cardinality(reg[e].ports) <= MaxOpen
  BY DEF TablesSound
<1>4. \A e \in Devs : reg'[e] = IF e = d THEN r ELSE reg[e]
  BY <1>2, <1>3
<1> QED
  BY <1>1, <1>2, <1>3, <1>4

(* One field of a row is.                                                   *)
LEMMA FieldChanged ==
    ASSUME TablesSound, NEW d \in Devs, NEW v
    PROVE  /\ [reg EXCEPT ![d].ports = v] =
                [reg EXCEPT ![d] = [tier |-> reg[d].tier, scan |-> reg[d].scan, ports |-> v]]
           /\ [reg EXCEPT ![d].scan = v] =
                [reg EXCEPT ![d] = [tier |-> reg[d].tier, scan |-> v, ports |-> reg[d].ports]]
<1> DEFINE r == reg[d]
<1>1. r \in [tier : 0..MaxTier, scan : Scans, ports : SUBSET Ports]
      /\ DOMAIN reg = Devs
  BY DEF TablesSound
<1> HIDE DEF r
<1>2. /\ [r EXCEPT !.ports = v] = [tier |-> r.tier, scan |-> r.scan, ports |-> v]
      /\ [r EXCEPT !.scan = v] = [tier |-> r.tier, scan |-> v, ports |-> r.ports]
  <2>1. r = [tier |-> r.tier, scan |-> r.scan, ports |-> r.ports]
    BY <1>1
  <2> QED
    BY <2>1
<1>3. /\ [reg EXCEPT ![d].ports = v] = [reg EXCEPT ![d] = [r EXCEPT !.ports = v]]
      /\ [reg EXCEPT ![d].scan = v] = [reg EXCEPT ![d] = [r EXCEPT !.scan = v]]
  BY DEF r
<1> QED
  BY <1>2, <1>3 DEF r

LEMMA TablesKeep ==
    ASSUME IInv, Next
    PROVE  TablesSound'
<1> DEFINE Row == [tier : 0..MaxTier, scan : Scans, ports : SUBSET Ports]
<1>1. /\ TablesSound /\ LocalsSound /\ PlaceSound /\ cur.dev \in Devs
      /\ web.dev \in Devs /\ MaxTier \in Nat
  BY Bounds DEF IInv, LocalsSound, TablesSound
<1>2. \A d \in Devs : /\ reg[d].tier \in 0..MaxTier /\ reg[d].scan \in Scans
                      /\ reg[d].ports \in SUBSET Ports /\ reg[d] \in Row
                      /\ IsFiniteSet(reg[d].ports) /\ Cardinality(reg[d].ports) <= MaxOpen
                      /\ ram[d].tier \in 0..MaxTier /\ ram[d].scan \in Scans
  BY DEF IInv, TablesSound
<1>3. CASE Top \/ TakeJump \/ Pick \/ Advance \/ Deeper \/ TierEnds \/ NoSocket \/ Move \/ Stop \/ Resume
  BY <1>1, <1>3 DEF Top, TakeJump, Pick, Advance, Deeper, TierEnds, NoSocket, Move, Stop, Resume,
                    TablesSound, world, history
<1>4. CASE Begin
  <2>1. doubt' \subseteq Ports
    BY <1>4 DEF Begin
  <2> QED
    BY <1>1, <1>4, <2>1 DEF Begin, TablesSound, world
<1>5. CASE Probe
  <2>1. looked' \in [Devs -> SUBSET Ports]
    <3>1. Probed \in Ports
      BY <1>1, <1>5, ProbedFacts DEF Probe
    <3> QED
      BY <1>1, <1>5, <3>1 DEF Probe, TablesSound
  <2>2. doubt' \subseteq Ports
    BY <1>1, <1>5, ProbedFacts DEF Probe, TablesSound
  <2> QED
    BY <1>1, <1>5, <2>1, <2>2 DEF Probe, TablesSound, world
<1>6. CASE Add
  <2> DEFINE d == cur.dev
             P == IF Cardinality(reg[d].ports) < MaxOpen THEN reg[d].ports \cup adding ELSE reg[d].ports
  <2>1. reg' = [reg EXCEPT ![d].ports = P]
    BY <1>6 DEF Add
  <2>2. PICK p \in Ports : adding = {p}
    BY <1>1, <1>6 DEF Add, PlaceSound
  <2>3. P \in SUBSET Ports /\ IsFiniteSet(P) /\ Cardinality(P) <= MaxOpen
    BY <1>1, <1>2, <2>2, OneMore
  <2> HIDE DEF P, d
  <2>4. reg' = [reg EXCEPT ![d] = [tier |-> reg[d].tier, scan |-> reg[d].scan, ports |-> P]]
    BY <1>1, <2>1, FieldChanged DEF d
  <2>5. /\ reg' \in [Devs -> Row]
        /\ \A e \in Devs : IsFiniteSet(reg'[e].ports) /\ Cardinality(reg'[e].ports) <= MaxOpen
    BY <1>1, <1>2, <2>3, <2>4, RowKeeps DEF d
  <2> QED
    BY <1>1, <1>6, <2>5 DEF Add, TablesSound, world, history
<1>7. ASSUME NEW p \in Ports, Drop(p)
      PROVE  TablesSound'
  <2> DEFINE d == cur.dev
             P == reg[d].ports \ {p}
  <2>1. reg' = [reg EXCEPT ![d].ports = P]
    BY <1>7 DEF Drop
  <2>2. P \in SUBSET Ports /\ IsFiniteSet(P) /\ Cardinality(P) <= MaxOpen
    BY <1>1, <1>2, OneLess
  <2> HIDE DEF P, d
  <2>3. reg' = [reg EXCEPT ![d] = [tier |-> reg[d].tier, scan |-> reg[d].scan, ports |-> P]]
    BY <1>1, <2>1, FieldChanged DEF d
  <2>4. /\ reg' \in [Devs -> Row]
        /\ \A e \in Devs : IsFiniteSet(reg'[e].ports) /\ Cardinality(reg'[e].ports) <= MaxOpen
    BY <1>1, <1>2, <2>2, <2>3, RowKeeps DEF d
  <2> QED
    BY <1>1, <1>7, <2>4 DEF Drop, TablesSound, world, history
<1>8. CASE Finish
  <2>1. ram' \in [Devs -> [tier : 0..MaxTier, scan : Scans]]
    <3>1. Higher(ram[cur.dev].tier, cur.tier) \in 0..MaxTier
      BY <1>1, <1>2, FinishedTier
    <3>2. [tier |-> Higher(ram[cur.dev].tier, cur.tier), scan |-> "fresh"]
            \in [tier : 0..MaxTier, scan : Scans]
      BY <3>1 DEF Scans
    <3> QED
      BY <1>1, <1>8, <3>2 DEF Finish, TablesSound
  <2>2. crossed' \subseteq Devs
    BY <1>1, <1>8 DEF Finish, Crossing, TablesSound
  <2> QED
    BY <1>1, <1>8, <2>1, <2>2 DEF Finish, TablesSound, world
<1>9. CASE Record
  <2> DEFINE d == cur.dev
             t == Higher(reg[d].tier, cur.tier)
  <2>1. reg' = [reg EXCEPT ![d].tier = t, ![d].scan = "fresh"]
    BY <1>9 DEF Record
  <2>2. t \in 0..MaxTier
    BY <1>1, <1>2, FinishedTier
  <2> HIDE DEF t, d
  <2>3. reg' = [reg EXCEPT ![d] = [tier |-> t, scan |-> "fresh", ports |-> reg[d].ports]]
    <3> DEFINE r == reg[d]
               q == [r EXCEPT !.tier = t]
    <3>1. r \in Row /\ d \in DOMAIN reg
      BY <1>1, <1>2 DEF d, TablesSound
    <3>2. reg' = [reg EXCEPT ![d] = [q EXCEPT !.scan = "fresh"]]
      BY <2>1, <3>1
    <3> HIDE DEF r
    <3>3. q = [tier |-> t, scan |-> r.scan, ports |-> r.ports]
      <4>1. r = [tier |-> r.tier, scan |-> r.scan, ports |-> r.ports]
        BY <3>1
      <4> QED
        BY <4>1
    <3> HIDE DEF q
    <3>4. [q EXCEPT !.scan = "fresh"] = [tier |-> t, scan |-> "fresh", ports |-> r.ports]
      BY <3>3
    <3> QED
      BY <3>2, <3>4 DEF r
  <2>4. /\ reg' \in [Devs -> Row]
        /\ \A e \in Devs : IsFiniteSet(reg'[e].ports) /\ Cardinality(reg'[e].ports) <= MaxOpen
    BY <1>1, <1>2, <2>2, <2>3, RowKeeps DEF d, Scans
  <2>5. crossed' \subseteq Devs
    BY <1>1, <1>9 DEF Record, Crossing, TablesSound
  <2> QED
    BY <1>1, <1>9, <2>4, <2>5 DEF Record, TablesSound, world
<1>10. ASSUME NEW d \in Devs, ClearRam(d)
       PROVE  TablesSound'
  <2>1. ram' \in [Devs -> [tier : 0..MaxTier, scan : Scans]]
    BY <1>1, <1>10 DEF ClearRam, TablesSound, Scans
  <2> QED
    BY <1>1, <1>10, <2>1 DEF ClearRam, TablesSound, world, history
<1>11. CASE ClearReg
  <2>1. IsFiniteSet({}) /\ Cardinality({}) <= MaxOpen
    BY FS_EmptySet, Bounds
  <2>2. /\ reg' \in [Devs -> Row]
        /\ \A e \in Devs : IsFiniteSet(reg'[e].ports) /\ Cardinality(reg'[e].ports) <= MaxOpen
    <3>1. reg' = [reg EXCEPT ![web.dev] = [tier |-> 0, scan |-> "never", ports |-> {}]]
      BY <1>11 DEF ClearReg
    <3>2. 0 \in 0..MaxTier /\ "never" \in Scans /\ {} \in SUBSET Ports
      BY <1>1 DEF Scans
    <3> QED
      BY <1>1, <2>1, <3>1, <3>2, RowKeeps
  <2>3. looked' \in [Devs -> SUBSET Ports]
        /\ web' \in [step : {"idle", "clear", "jump"}, dev : Devs]
    BY <1>1, <1>11 DEF ClearReg, TablesSound
  <2> QED
    BY <1>1, <1>11, <2>2, <2>3 DEF ClearReg, TablesSound, world
<1>12. CASE Jump
  <2>1. web' \in [step : {"idle", "clear", "jump"}, dev : Devs]
    BY <1>1, <1>12 DEF Jump, TablesSound
  <2> QED
    BY <1>1, <1>12, <2>1 DEF Jump, TablesSound, world, history
<1>13. ASSUME NEW d \in Devs, GoesOffline(d) \/ ComesOnline(d) \/ Moves(d)
       PROVE  TablesSound'
  <2>1. online' \subseteq Devs /\ here' \subseteq Devs /\ doubt' \subseteq Ports
    BY <1>1, <1>13 DEF GoesOffline, ComesOnline, Moves, TablesSound, history
  <2> QED
    BY <1>1, <1>13, <2>1 DEF GoesOffline, ComesOnline, Moves, TablesSound, history
<1>14. ASSUME NEW d \in Devs, NEW p \in Ports, Switches(d, p)
       PROVE  TablesSound'
  <2>1. open' \in [Devs -> SUBSET Ports] /\ doubt' \subseteq Ports
    BY <1>1, <1>14 DEF Switches, TablesSound
  <2> QED
    BY <1>1, <1>14, <2>1 DEF Switches, TablesSound
<1>15. ASSUME NEW d \in Devs, Ages(d)
       PROVE  TablesSound'
  <2>1. ram' \in [Devs -> [tier : 0..MaxTier, scan : Scans]]
    BY <1>1, <1>15 DEF Ages, TablesSound, Scans
  <2>2. reg' = [reg EXCEPT ![d] = [tier |-> reg[d].tier, scan |-> "old", ports |-> reg[d].ports]]
    BY <1>1, <1>15, FieldChanged DEF Ages
  <2>3. /\ reg' \in [Devs -> Row]
        /\ \A e \in Devs : IsFiniteSet(reg'[e].ports) /\ Cardinality(reg'[e].ports) <= MaxOpen
    BY <1>1, <1>2, <2>2, RowKeeps DEF Scans
  <2> QED
    BY <1>1, <1>15, <2>1, <2>3 DEF Ages, TablesSound, world, history
<1>16. CASE Restart
  <2>1. ram' \in [Devs -> [tier : 0..MaxTier, scan : Scans]]
    BY <1>1, <1>2, <1>16 DEF Restart
  <2>2. web' \in [step : {"idle", "clear", "jump"}, dev : Devs]
    BY <1>1, <1>16 DEF Restart, TablesSound
  <2> QED
    BY <1>1, <1>16, <2>1, <2>2 DEF Restart, TablesSound, history
<1>17. CASE Readdresses
  <2>1. doubt' \subseteq Ports
    BY <1>1, <1>17 DEF Readdresses, TablesSound
  <2> QED
    BY <1>1, <1>17, <2>1 DEF Readdresses, TablesSound, world
<1> QED
  BY <1>3, <1>4, <1>5, <1>6, <1>7, <1>8, <1>9, <1>10, <1>11, <1>12, <1>13, <1>14, <1>15, <1>16,
     <1>17 DEF Next, Task, Web

-----------------------------------------------------------------------------
(* The task's locals, and its place.                                        *)

Locals == [dev : Devs, have : BOOLEAN, tier : 1..MaxTier, ceiling : 1..MaxTier,
           jump : BOOLEAN, again : BOOLEAN, own : BOOLEAN]

LEMMA NoDeviceSound == /\ NoDevice \in Locals /\ ~NoDevice.have /\ ~NoDevice.jump
BY Bounds DEF NoDevice, Locals, Common

(* What is noted of a port found open in a re-scan.                         *)
LEMMA NotedFacts ==
    ASSUME LocalsSound, NEW p \in Ports
    PROVE  /\ Noted(p) \in [active : BOOLEAN, dev : Devs, goal : 1..MaxTier, before : SUBSET Ports,
                            found : SUBSET Ports, overflow : BOOLEAN]
           /\ IsFiniteSet(Noted(p).found) /\ Cardinality(Noted(p).found) <= MaxOpen
           /\ Noted(p).active = rs.active /\ Noted(p).dev = rs.dev
           /\ rs.found \subseteq Noted(p).found /\ (rs.overflow => Noted(p).overflow)
           /\ IsRescan => p \in Noted(p).found \/ Noted(p).overflow
<1>1. rs \in [active : BOOLEAN, dev : Devs, goal : 1..MaxTier, before : SUBSET Ports,
              found : SUBSET Ports, overflow : BOOLEAN]
      /\ IsFiniteSet(rs.found) /\ Cardinality(rs.found) <= MaxOpen
  BY DEF LocalsSound
<1>2. CASE ~IsRescan \/ p \in rs.found
  BY <1>1, <1>2 DEF Noted
<1>3. CASE ~(~IsRescan \/ p \in rs.found) /\ Cardinality(rs.found) < MaxOpen
  <2> DEFINE f == rs.found \cup {p}
  <2>1. IsFiniteSet(f) /\ Cardinality(f) <= MaxOpen /\ rs.found \subseteq f /\ p \in f
        /\ f \in SUBSET Ports
    BY <1>1, <1>3, OneMore
  <2>2. Noted(p) = [rs EXCEPT !.found = f]
    BY <1>3 DEF Noted
  <2> HIDE DEF f
  <2>3. Noted(p) = [active |-> rs.active, dev |-> rs.dev, goal |-> rs.goal, before |-> rs.before,
                    found |-> f, overflow |-> rs.overflow]
    BY <1>1, <2>2
  <2> QED
    BY <1>1, <2>1, <2>3
<1>4. CASE ~(~IsRescan \/ p \in rs.found) /\ ~(Cardinality(rs.found) < MaxOpen)
  <2>1. Noted(p) = [rs EXCEPT !.overflow = TRUE]
    BY <1>4 DEF Noted
  <2>2. Noted(p) = [active |-> rs.active, dev |-> rs.dev, goal |-> rs.goal, before |-> rs.before,
                    found |-> rs.found, overflow |-> TRUE]
    BY <1>1, <2>1
  <2> QED
    BY <1>1, <2>2
<1> QED
  BY <1>2, <1>3, <1>4

LEMMA NoRescanSound ==
    /\ NoRescan \in [active : BOOLEAN, dev : Devs, goal : 1..MaxTier, before : SUBSET Ports,
                     found : SUBSET Ports, overflow : BOOLEAN]
    /\ IsFiniteSet(NoRescan.found) /\ Cardinality(NoRescan.found) <= MaxOpen /\ ~NoRescan.active
<1>1. NoRescan.found = {} /\ Cardinality({}) <= MaxOpen /\ IsFiniteSet({})
  BY Bounds, FS_EmptySet DEF NoRescan
<1> QED
  BY <1>1, Bounds DEF NoRescan

LEMMA LocalsKeep ==
    ASSUME IInv, Next
    PROVE  LocalsSound'
<1> DEFINE R == [active : BOOLEAN, dev : Devs, goal : 1..MaxTier, before : SUBSET Ports,
                 found : SUBSET Ports, overflow : BOOLEAN]
<1>1. /\ cur \in Locals /\ tier \in 1..MaxTier /\ cursor \in Nat /\ jump \in BOOLEAN
      /\ rs \in R /\ IsFiniteSet(rs.found) /\ Cardinality(rs.found) <= MaxOpen
      /\ adding \subseteq Ports /\ LocalsSound /\ TablesSound
  BY DEF IInv, LocalsSound, Locals
<1>2. LocalsSound' <=> /\ cur' \in Locals /\ tier' \in 1..MaxTier /\ cursor' \in Nat
                       /\ jump' \in BOOLEAN
                       /\ rs' \in R /\ IsFiniteSet(rs'.found) /\ Cardinality(rs'.found) <= MaxOpen
                       /\ adding' \subseteq Ports
  BY DEF LocalsSound, Locals
<1> HIDE DEF R
<1>3. CASE UNCHANGED task
  BY <1>1, <1>2, <1>3 DEF task
<1>4. CASE Top
  <2>1. cur' \in Locals
    BY <1>1, <1>4, NoDeviceSound DEF Top, Locals
  <2> QED
    BY <1>1, <1>2, <1>4, <2>1 DEF Top
<1>5. CASE TakeJump
  <2>1. cur' \in Locals
    BY <1>1, <1>5, NoDeviceSound DEF TakeJump, Locals
  <2> QED
    BY <1>1, <1>2, <1>5, <2>1 DEF TakeJump
<1>6. CASE Pick
  <2>1. cur' \in Locals
    <3>1. CASE Unscanned \cup Unfinished \cup Due = {}
      BY <1>6, <3>1, NoDeviceSound DEF Pick
    <3>2. CASE Unscanned \cup Unfinished \cup Due # {}
      <4>1. PICK d \in Devs, t \in 1..MaxTier, again \in BOOLEAN :
                Chosen = [cur EXCEPT !.dev = d, !.tier = t, !.again = again, !.own = TRUE]
        BY <1>1, <3>2, ChosenFacts
      <4>2. cur' = [dev |-> d, have |-> cur.have, tier |-> t, ceiling |-> cur.ceiling,
                    jump |-> cur.jump, again |-> again, own |-> TRUE]
        BY <1>1, <1>6, <3>2, <4>1 DEF Pick, Locals
      <4> QED
        BY <1>1, <4>2 DEF Locals
    <3> QED
      BY <3>1, <3>2
  <2> QED
    BY <1>1, <1>2, <1>6, <2>1 DEF Pick
<1>7. CASE Advance
  <2>1. tier' \in 1..MaxTier
    BY <1>1, <1>7, Bounds DEF Advance, Common
  <2> QED
    BY <1>1, <1>2, <1>7, <2>1 DEF Advance
<1>8. CASE Begin
  <2>1. cur' \in Locals
    BY <1>1, <1>8 DEF Begin, Locals
  <2>2. rs' \in R /\ IsFiniteSet(rs'.found) /\ Cardinality(rs'.found) <= MaxOpen
    <3>1. CASE cur.again
      <4>1. rs' = [active |-> TRUE, dev |-> cur.dev, goal |-> Lower(RescanTier, MaxTier),
                   before |-> reg[cur.dev].ports, found |-> {}, overflow |-> FALSE]
        BY <1>8, <3>1 DEF Begin
      <4>2. Lower(RescanTier, MaxTier) \in 1..MaxTier
        BY Bounds DEF Lower
      <4>3. reg[cur.dev].ports \in SUBSET Ports /\ cur.dev \in Devs
        BY <1>1 DEF TablesSound, Locals
      <4>4. IsFiniteSet({}) /\ Cardinality({}) <= MaxOpen
        BY FS_EmptySet, Bounds
      <4> QED
        BY <4>1, <4>2, <4>3, <4>4 DEF R
    <3>2. CASE ~cur.again
      BY <1>8, <3>2, NoRescanSound DEF Begin, R
    <3> QED
      BY <3>1, <3>2
  <2>3. cursor' \in Nat
    BY <1>1, <1>8 DEF Begin
  <2> QED
    BY <1>1, <1>2, <1>8, <2>1, <2>2, <2>3 DEF Begin
<1>9. CASE Deeper
  <2>1. cur.tier + 1 \in 1..MaxTier
    BY <1>1, <1>9, Bounds DEF Deeper, Locals, R
  <2>2. cur' \in Locals
    BY <1>1, <1>9, <2>1 DEF Deeper, Locals
  <2> QED
    BY <1>1, <1>2, <1>9, <2>2 DEF Deeper
<1>10. CASE TierEnds
  <2>1. adding' \subseteq Ports
    BY <1>1, <1>10 DEF TierEnds, Closed, R
  <2>2. rs' \in R /\ IsFiniteSet(rs'.found) /\ Cardinality(rs'.found) <= MaxOpen
    BY <1>1, <1>10, NoRescanSound DEF TierEnds, R
  <2> QED
    BY <1>1, <1>2, <1>10, <2>1, <2>2 DEF TierEnds
<1>11. CASE Probe
  <2>1. Probed \in Ports
    BY <1>1, <1>11, ProbedFacts DEF Probe
  <2>2. rs' \in R /\ IsFiniteSet(rs'.found) /\ Cardinality(rs'.found) <= MaxOpen
    BY <1>1, <1>11, <2>1, NotedFacts DEF Probe, R
  <2>3. adding' \subseteq Ports
    BY <1>1, <1>11, <2>1 DEF Probe
  <2> QED
    BY <1>1, <1>2, <1>11, <2>2, <2>3 DEF Probe
<1>12. CASE NoSocket \/ Add \/ (\E p \in Ports : Drop(p)) \/ Finish
  <2>1. adding' \subseteq adding /\ UNCHANGED <<cur, tier, cursor, jump, rs>>
    BY <1>12 DEF NoSocket, Add, Drop, Finish
  <2> QED
    BY <1>1, <1>2, <2>1
<1>13. CASE Move
  BY <1>1, <1>2, <1>13 DEF Move
<1>14. CASE Record
  BY <1>1, <1>2, <1>14, NoDeviceSound DEF Record
<1>15. CASE Jump
  BY <1>1, <1>2, <1>15, Bounds DEF Jump, Common
<1>16. CASE Restart
  <2>1. /\ cur' = NoDevice /\ tier' = 1 /\ cursor' = 0 /\ jump' = FALSE
        /\ rs' = NoRescan /\ adding' = {}
    BY <1>16 DEF Restart, Common
  <2>2. 1 \in 1..MaxTier
    BY Bounds
  <2>3. rs' \in R /\ IsFiniteSet(rs'.found) /\ Cardinality(rs'.found) <= MaxOpen
    BY <2>1, NoRescanSound DEF R
  <2> QED
    BY <1>2, <2>1, <2>2, <2>3, NoDeviceSound
<1>17. CASE ClearReg \/ Stop \/ Resume \/ \E d \in Devs : \/ ClearRam(d) \/ GoesOffline(d) \/ ComesOnline(d)
                                                        \/ Moves(d) \/ Ages(d)
                                                        \/ \E p \in Ports : Switches(d, p)
  BY <1>3, <1>17 DEF ClearReg, Stop, Resume, ClearRam, GoesOffline, ComesOnline, Moves, Ages, Switches
<1>18. CASE Readdresses
  <2>1. cur' \in Locals
    BY <1>1, <1>18 DEF Readdresses, Locals
  <2> QED
    BY <1>1, <1>2, <1>18, <2>1 DEF Readdresses
<1> QED
  BY <1>4, <1>5, <1>6, <1>7, <1>8, <1>9, <1>10, <1>11, <1>12, <1>13, <1>14, <1>15, <1>16, <1>17,
     <1>18 DEF Next, Task, Web

LEMMA PlaceKeeps ==
    ASSUME IInv, Next
    PROVE  PlaceSound'
<1>1. /\ PlaceSound /\ LocalsSound /\ TablesSound /\ cur \in Locals /\ cur.dev \in Devs
      /\ cursor \in Nat /\ Devices \in Nat \ {0} /\ Devs = 1..Devices
      /\ cur.tier \in Tiers /\ Total \in Nat
  <2>1. cur \in Locals /\ cur.tier \in Tiers
    BY Bounds DEF IInv, LocalsSound, Locals
  <2> QED
    BY <2>1, Bounds, TierFacts DEF IInv, LocalsSound, Locals, Total
<1>2. CASE UNCHANGED task
  BY <1>1, <1>2 DEF task, PlaceSound, Total
<1>3. CASE Top
  <2>1. \/ /\ cur' = [cur EXCEPT !.ceiling = tier] /\ pc' = "jump"
        \/ cur' = NoDevice /\ pc' = "top"
    BY <1>3 DEF Top
  <2>2. \/ pc' = "jump" /\ cur'.have = cur.have /\ cur'.jump = cur.jump /\ cur'.tier = cur.tier
        \/ pc' = "top" /\ ~cur'.have /\ ~cur'.jump
    BY <1>1, <2>1, NoDeviceSound DEF Locals
  <2> QED
    BY <1>1, <1>3, <2>2 DEF Top, PlaceSound, Total
<1>4. CASE TakeJump
  <2>1. CASE jump
    <3>1. cur' = [NoDevice EXCEPT !.jump = TRUE, !.ceiling = cur.ceiling] /\ cursor' = 0
      BY <1>4, <2>1 DEF TakeJump
    <3>2. ~cur'.have
      BY <3>1 DEF NoDevice
    <3> QED
      BY <1>1, <1>4, <3>1, <3>2 DEF TakeJump, PlaceSound
  <2>2. CASE ~jump
    <3>1. cur' = cur /\ cursor' = cursor /\ pc' \in {"work", "pick"} /\ (pc' = "work" <=> cur.have)
      BY <1>4, <2>2 DEF TakeJump
    <3> QED
      BY <1>1, <1>4, <3>1 DEF TakeJump, PlaceSound, Total
  <2> QED
    BY <2>1, <2>2
<1>5. CASE Pick
  <2>1. ~cur.have
    BY <1>1, <1>5 DEF Pick, PlaceSound
  <2>2. CASE Unscanned \cup Unfinished \cup Due = {}
    BY <1>1, <1>5, <2>2, NoDeviceSound DEF Pick, PlaceSound
  <2>3. CASE Unscanned \cup Unfinished \cup Due # {}
    <3>1. PICK d \in Devs, t \in 1..MaxTier, again \in BOOLEAN :
              Chosen = [cur EXCEPT !.dev = d, !.tier = t, !.again = again, !.own = TRUE]
      BY <1>1, <2>3, ChosenFacts
    <3>2. cur' = Chosen /\ pc' = "begin" /\ cursor' = cursor /\ index' = index /\ adding' = adding
      BY <1>5, <2>3 DEF Pick
    <3>3. cur'.have = cur.have /\ cur'.jump = cur.jump
      BY <1>1, <3>1, <3>2 DEF Locals
    <3> QED
      BY <1>1, <2>1, <3>2, <3>3 DEF PlaceSound
  <2> QED
    BY <2>2, <2>3
<1>6. CASE Advance
  BY <1>1, <1>6 DEF Advance, PlaceSound
<1>7. CASE Begin
  <2>1. cursor' = 0 /\ index' = cur.dev /\ pc' = "work"
    BY <1>1, <1>7 DEF Begin, PlaceSound
  <2>2. cur'.have /\ ~cur'.jump /\ cur'.tier = cur.tier
    BY <1>1, <1>7 DEF Begin, Locals
  <2>3. Total' = Total
    BY <2>2 DEF Total
  <2> QED
    BY <1>1, <2>1, <2>2, <2>3 DEF PlaceSound
<1>8. CASE Deeper
  <2>1. cursor' = 0 /\ index' = index /\ pc' = "top" /\ pc = "work"
    BY <1>8 DEF Deeper
  <2>2. cur'.have = cur.have /\ cur'.jump = cur.jump /\ cur'.tier = cur.tier + 1
    BY <1>1, <1>8 DEF Deeper, Locals
  <2>3. 0 <= Total'
    <3>1. LocalsSound'
      BY LocalsKeep
    <3>2. cur'.tier \in Tiers
      BY <3>1, Bounds DEF LocalsSound
    <3> QED
      BY <3>2, TierFacts DEF Total
  <2> QED
    BY <1>1, <2>1, <2>2, <2>3 DEF PlaceSound
<1>9. CASE TierEnds
  BY <1>1, <1>9 DEF TierEnds, PlaceSound, Total
<1>10. CASE Probe
  <2>1. pc' = "move" \/ (pc' = "add" /\ adding' = {Probed})
    BY <1>10 DEF Probe
  <2>2. Probed \in Ports
    BY <1>1, <1>10, ProbedFacts DEF Probe
  <2>3. pc = "work" /\ cursor < Total /\ UNCHANGED <<cur, index, cursor>>
    BY <1>10 DEF Probe
  <2>4. Total' = Total
    BY <2>3 DEF Total
  <2> QED
    BY <1>1, <2>1, <2>2, <2>3, <2>4 DEF PlaceSound
<1>11. CASE NoSocket \/ Add \/ (\E p \in Ports : Drop(p)) \/ Finish
  <2>1. /\ UNCHANGED <<cur, index, cursor>>
        /\ \/ pc = "work" /\ pc' = "top"
           \/ pc = "add" /\ pc' = "move"
           \/ pc = "finish" /\ pc' \in {"finish", "record"}
    BY <1>11 DEF NoSocket, Add, Drop, Finish
  <2>2. Total' = Total
    BY <2>1 DEF Total
  <2> QED
    BY <1>1, <2>1, <2>2 DEF PlaceSound
<1>12. CASE Move
  <2>1. pc = "move" /\ cursor < Total /\ cursor' = cursor + 1 /\ cur.have
    BY <1>1, <1>12 DEF Move, PlaceSound
  <2>2. UNCHANGED <<cur, index>> /\ pc' = "top" /\ Total' = Total
    BY <1>12 DEF Move, Total
  <2>3. ~cur.jump
    BY <1>1, <2>1 DEF PlaceSound
  <2> QED
    BY <1>1, <2>1, <2>2, <2>3 DEF PlaceSound
<1>13. CASE Record
  <2>1. index' \in 1..Devices + 1
    BY <1>1, <1>13 DEF Record, PlaceSound
  <2> QED
    BY <1>13, <2>1, NoDeviceSound DEF Record, PlaceSound
<1>14. CASE Jump
  <2>1. cursor' = 0 /\ UNCHANGED <<pc, cur, index, adding>>
    BY <1>14 DEF Jump
  <2>2. Total' = Total
    BY <2>1 DEF Total
  <2> QED
    BY <1>1, <2>1, <2>2 DEF PlaceSound
<1>15. CASE Restart
  <2>1. index' \in 1..Devices + 1
    BY <1>1, <1>15 DEF Restart
  <2> QED
    BY <1>15, <2>1, NoDeviceSound DEF Restart, PlaceSound
<1>16. CASE ClearReg \/ Stop \/ Resume \/ \E d \in Devs : \/ ClearRam(d) \/ GoesOffline(d) \/ ComesOnline(d)
                                                        \/ Moves(d) \/ Ages(d)
                                                        \/ \E p \in Ports : Switches(d, p)
  BY <1>2, <1>16 DEF ClearReg, Stop, Resume, ClearRam, GoesOffline, ComesOnline, Moves, Ages, Switches
<1>17. CASE Readdresses
  <2>1. UNCHANGED <<pc, index, cursor, adding>>
    BY <1>17 DEF Readdresses
  <2>2. cur'.have = cur.have /\ cur'.jump = cur.jump /\ cur'.tier = cur.tier
    BY <1>1, <1>17 DEF Readdresses, Locals
  <2> QED
    BY <1>1, <2>1, <2>2 DEF PlaceSound, Total
<1> QED
  BY <1>3, <1>4, <1>5, <1>6, <1>7, <1>8, <1>9, <1>10, <1>11, <1>12, <1>13, <1>14, <1>15, <1>16,
     <1>17 DEF Next, Task, Web

-----------------------------------------------------------------------------
(* What is behind the task.                                                 *)

LEMMA PastFacts ==
    ASSUME LocalsSound
    PROVE  /\ Past(cur.tier, 0) = Covers(cur.tier - 1)
           /\ cursor < Total => Past(cur.tier, cursor + 1) = Past(cur.tier, cursor) \cup {Probed}
           /\ cursor >= Total => Covers(cur.tier) \subseteq Past(cur.tier, cursor)
           /\ \A c \in Nat : Past(cur.tier, 0) \subseteq Past(cur.tier, c)
           /\ \A c \in Nat : Past(cur.tier, 1) \subseteq Past(cur.tier, c + 1)
<1> DEFINE t == cur.tier
<1>1. t \in Tiers /\ cursor \in Nat
  BY Bounds DEF LocalsSound
<1>2. /\ Total = Len(TierPorts[t]) /\ Total \in Nat /\ ToSet(TierPorts[t]) = {TierPorts[t][k] : k \in 1..Total}
      /\ Covers(t) = Covers(t - 1) \cup ToSet(TierPorts[t]) /\ Probed = TierPorts[t][cursor + 1]
  BY <1>1, TierFacts, CoverFacts DEF Total, Probed
<1> HIDE DEF t
<1>3. 1..0 = {} /\ 1..cursor + 1 = (1..cursor) \cup {cursor + 1}
  BY <1>1
<1>4. Past(t, 0) = Covers(t - 1)
  BY <1>3 DEF Past
<1>5. Past(t, cursor + 1) = Past(t, cursor) \cup {Probed}
  BY <1>2, <1>3 DEF Past
<1>6. ASSUME cursor >= Total PROVE Covers(t) \subseteq Past(t, cursor)
  <2>1. 1..Total \subseteq 1..cursor
    BY <1>1, <1>2, <1>6
  <2> QED
    BY <1>2, <2>1 DEF Past
<1>7. ASSUME NEW c \in Nat PROVE Past(t, 1) \subseteq Past(t, c + 1) /\ Past(t, 0) \subseteq Past(t, c)
  <2>1. 1..1 \subseteq 1..c + 1 /\ 1..0 \subseteq 1..c
    OBVIOUS
  <2> QED
    BY <2>1 DEF Past
<1> QED
  BY <1>4, <1>5, <1>6, <1>7 DEF t

(* What a request to scan a device anew asks of it.                         *)
Unasked(d) == d \notin crossed /\ ~Requested(d)

(* The first part of ProgressSound, of one device.                          *)
TiersDone(d) ==
    /\ Covers(ram[d].tier) \subseteq looked[d]
    /\ Covers(reg[d].tier) \subseteq looked[d]
    /\ web = [step |-> "clear", dev |-> d] => ram[d].tier = 0

(* Steps that change neither the tables nor the page: the first part stays. *)
LEMMA DoneKeeps ==
    ASSUME IInv, Next
    PROVE  \A d \in Devs \ crossed' : TiersDone(d)'
<1>1. /\ \A d \in Devs \ crossed : TiersDone(d)
      /\ TablesSound /\ LocalsSound /\ cur.dev \in Devs /\ web.dev \in Devs
  BY DEF IInv, ProgressSound, TiersDone, TablesSound, LocalsSound
<1>2. \A d \in Devs : ram[d].tier \in 0..MaxTier /\ reg[d].tier \in 0..MaxTier
  BY DEF IInv, TablesSound
<1> SUFFICES ASSUME NEW d \in Devs, d \notin crossed'
             PROVE  TiersDone(d)'
  OBVIOUS
<1>3. CASE UNCHANGED <<ram, reg, web, looked, crossed>>
  BY <1>1, <1>3 DEF TiersDone
<1>4. CASE Probe
  <2>1. UNCHANGED <<ram, reg, web, crossed>> /\ looked[d] \subseteq looked'[d]
    BY <1>1, <1>4 DEF Probe, TablesSound
  <2> QED
    BY <1>1, <2>1 DEF TiersDone
<1>5. CASE Add \/ \E p \in Ports : Drop(p)
  <2>1. PICK P : reg' = [reg EXCEPT ![cur.dev].ports = P]
    BY <1>5 DEF Add, Drop
  <2>2. reg'[d].tier = reg[d].tier
    BY <1>1, <2>1 DEF TablesSound
  <2> QED
    BY <1>1, <1>5, <2>2 DEF TiersDone, Add, Drop, history
<1>6. CASE Finish \/ Record
  <2>1. /\ UNCHANGED <<web, looked, cur, cursor>> \/ (UNCHANGED <<web, looked>> /\ Record)
        /\ crossed' = IF Requested(cur.dev) THEN crossed \cup {cur.dev} ELSE crossed
    BY <1>6 DEF Finish, Record, Crossing
  <2>2. /\ ram'[d].tier \in {ram[d].tier} \cup (IF d = cur.dev THEN {cur.tier} ELSE {})
        /\ reg'[d].tier \in {reg[d].tier} \cup (IF d = cur.dev THEN {cur.tier} ELSE {})
    <3>1. CASE Finish
      BY <1>1, <1>2, <3>1, FinishedTier DEF Finish, TablesSound
    <3>2. CASE Record
      <4> DEFINE t == Higher(reg[cur.dev].tier, cur.tier)
      <4>1. reg' = [reg EXCEPT ![cur.dev].tier = t, ![cur.dev].scan = "fresh"] /\ ram' = ram
        BY <3>2 DEF Record
      <4>2. t \in {reg[cur.dev].tier, cur.tier}
        BY <1>1, <1>2, FinishedTier
      <4> HIDE DEF t
      <4>3. reg'[d].tier = IF d = cur.dev THEN t ELSE reg[d].tier
        BY <1>1, <4>1 DEF TablesSound
      <4> QED
        BY <4>1, <4>2, <4>3
    <3> QED
      BY <1>6, <3>1, <3>2
  <2>3. CASE d # cur.dev
    BY <1>1, <2>1, <2>2, <2>3 DEF TiersDone
  <2>4. CASE d = cur.dev
    <3>1. ~Requested(d) /\ d \notin crossed
      BY <2>1, <2>4
    <3>2. web # [step |-> "clear", dev |-> d]
      BY <3>1 DEF Requested
    <3>3. Behind \subseteq looked[d] /\ cursor >= Total /\ Behind = Past(cur.tier, cursor)
      BY <1>6, <2>4, <3>1 DEF IInv, ProgressSound, PlaceSound, Behind, Probes, Finish, Record
    <3>4. Covers(cur.tier) \subseteq looked[d]
      BY <1>1, <3>3, PastFacts
    <3> QED
      BY <1>1, <2>1, <2>2, <3>1, <3>2, <3>4 DEF TiersDone
  <2> QED
    BY <2>3, <2>4
<1>7. ASSUME NEW e \in Devs, ClearRam(e)
      PROVE  TiersDone(d)'
  <2>1. /\ UNCHANGED <<reg, looked, crossed>> /\ web' = [step |-> "clear", dev |-> e]
        /\ ram'[d].tier = (IF d = e THEN 0 ELSE ram[d].tier)
    BY <1>1, <1>7 DEF ClearRam, TablesSound, history
  <2> QED
    BY <1>1, <2>1, CoverFacts DEF TiersDone
<1>8. CASE ClearReg
  <2>1. /\ UNCHANGED <<ram, crossed>> /\ web'.step = "jump"
        /\ reg'[d].tier = (IF d = web.dev THEN 0 ELSE reg[d].tier)
        /\ looked'[d] = (IF d = web.dev THEN {} ELSE looked[d])
    BY <1>1, <1>8 DEF ClearReg, TablesSound
  <2>2. web.step = "clear" /\ web = [step |-> web.step, dev |-> web.dev]
    BY <1>1, <1>8 DEF ClearReg, TablesSound
  <2>3. d = web.dev => ram[d].tier = 0
    BY <1>1, <2>1, <2>2 DEF TiersDone
  <2> QED
    BY <1>1, <2>1, <2>3, CoverFacts DEF TiersDone
<1>9. CASE Jump
  <2>1. UNCHANGED <<ram, reg, looked, crossed>> /\ web'.step = "idle"
    BY <1>1, <1>9 DEF Jump, TablesSound, history
  <2> QED
    BY <1>1, <2>1 DEF TiersDone
<1>10. ASSUME NEW e \in Devs, Ages(e)
       PROVE  TiersDone(d)'
  <2>1. UNCHANGED <<web, looked, crossed>> /\ ram'[d].tier = ram[d].tier /\ reg'[d].tier = reg[d].tier
    BY <1>1, <1>10 DEF Ages, TablesSound, history
  <2> QED
    BY <1>1, <2>1 DEF TiersDone
<1>11. CASE Restart
  <2>1. UNCHANGED <<reg, looked, crossed>> /\ web'.step = "idle" /\ ram'[d].tier = reg[d].tier
    BY <1>1, <1>11 DEF Restart, TablesSound, history
  <2> QED
    BY <1>1, <2>1 DEF TiersDone
<1> QED
  BY <1>3, <1>4, <1>5, <1>6, <1>7, <1>8, <1>9, <1>10, <1>11
     DEF Next, Task, Web, Top, TakeJump, Pick, Advance, Begin, Deeper, TierEnds, NoSocket, Move,
         Stop, Resume, Readdresses, GoesOffline, ComesOnline, Moves, Switches, history

(* The second part: the device at hand.                                     *)

LEMMA ProgressKeeps ==
    ASSUME IInv, Next
    PROVE  ProgressSound'
<1> DEFINE Goal == (cur.have \/ pc = "begin") /\ cur.dev \notin crossed /\ ~Requested(cur.dev) =>
                      /\ Behind \subseteq looked[cur.dev]
                      /\ pc \in {"finish", "record"} => cursor >= Total
<1>1. Goal /\ PlaceSound /\ LocalsSound /\ TablesSound /\ cur.dev \in Devs /\ cur \in Locals
      /\ cursor \in Nat /\ cur.tier \in Tiers
  BY Bounds DEF IInv, ProgressSound, LocalsSound, Locals
<1>2. ProgressSound' <=> (\A d \in Devs \ crossed' : TiersDone(d)') /\ Goal'
  BY DEF ProgressSound, TiersDone
<1>3. SUFFICES Goal'
  BY <1>2, DoneKeeps
(* Steps of the world: the task, what it probed and the page stay.          *)
<1>4. CASE UNCHANGED <<pc, cur, cursor, jump, web, looked, crossed>>
  BY <1>1, <1>4 DEF Behind, Probes, Requested, Total
<1>5. CASE Top
  <2>1. CASE allowed
    <3>1. pc = "top" /\ pc' = "jump" /\ cur'.dev = cur.dev /\ cur'.have = cur.have /\ cur'.tier = cur.tier
      BY <1>1, <1>5, <2>1 DEF Top, Locals
    <3>2. UNCHANGED <<cursor, jump, web, looked, crossed>>
      BY <1>5 DEF Top, history
    <3>3. Probes' = Probes
      BY <3>1, <3>2 DEF Probes
    <3> QED
      BY <1>1, <3>1, <3>2, <3>3 DEF Behind, Requested
  <2>2. CASE ~allowed
    BY <1>5, <2>2, NoDeviceSound DEF Top
  <2> QED
    BY <2>1, <2>2
<1>6. CASE TakeJump
  <2>1. CASE jump
    <3>1. ~cur'.have /\ pc' # "begin"
      BY <1>6, <2>1 DEF TakeJump, NoDevice
    <3> QED
      BY <3>1
  <2>2. CASE ~jump
    <3>1. /\ UNCHANGED <<cur, cursor, web, looked, crossed>> /\ ~jump'
          /\ pc = "jump" /\ pc' \in {"work", "pick"}
      BY <1>6, <2>2 DEF TakeJump, history
    <3>2. Probes' = Probes
      BY <3>1 DEF Probes
    <3> QED
      BY <1>1, <2>2, <3>1, <3>2 DEF Behind, Requested
  <2> QED
    BY <2>1, <2>2
<1>7. CASE Pick
  <2>1. CASE Unscanned \cup Unfinished \cup Due = {}
    BY <1>7, <2>1, NoDeviceSound DEF Pick
  <2>2. CASE Unscanned \cup Unfinished \cup Due # {}
    <3>1. PICK d \in Devs, t \in 1..MaxTier, again \in BOOLEAN :
              /\ Chosen = [cur EXCEPT !.dev = d, !.tier = t, !.again = again, !.own = TRUE]
              /\ t = Common \/ t = ram[d].tier + 1
      BY <1>1, <2>2, ChosenFacts
    <3>2. cur' = Chosen /\ pc' = "begin" /\ UNCHANGED <<ram, jump, web, looked, crossed>>
      BY <1>7, <2>2 DEF Pick, history
    <3>3. cur'.dev = d /\ cur'.tier = t
      BY <1>1, <3>1, <3>2 DEF Locals
    <3>4. Behind' = Covers(t - 1)
      <4>1. Behind' = Past(t, 0)
        BY <3>2, <3>3 DEF Behind, Probes
      <4> QED
        BY <4>1 DEF Past
    <3>5. d \notin crossed => Covers(ram[d].tier) \subseteq looked[d]
      BY DEF IInv, ProgressSound
    <3>6. t - 1 = 0 \/ t - 1 = ram[d].tier
      <4>1. ram[d].tier \in 0..MaxTier
        BY <1>1 DEF TablesSound
      <4> QED
        BY <3>1, <4>1, Bounds DEF Common
    <3> QED
      BY <3>2, <3>3, <3>4, <3>5, <3>6, CoverFacts
  <2> QED
    BY <2>1, <2>2
<1>8. CASE Begin
  <2>1. /\ pc = "begin" /\ pc' = "work" /\ cursor' = 0
        /\ UNCHANGED <<jump, web, looked, crossed>>
    BY <1>1, <1>8 DEF Begin, PlaceSound
  <2>2. cur'.dev = cur.dev /\ cur'.tier = cur.tier
    BY <1>1, <1>8 DEF Begin, Locals
  <2>3. Probes' = Probes
    BY <2>1 DEF Probes
  <2> QED
    BY <1>1, <2>1, <2>2, <2>3 DEF Behind, Requested
<1>9. CASE Deeper
  <2>1. /\ pc = "work" /\ pc' = "top" /\ cursor' = 0 /\ cursor >= Total
        /\ UNCHANGED <<jump, web, looked, crossed>>
    BY <1>9 DEF Deeper, history
  <2>2. cur'.dev = cur.dev /\ cur'.tier = cur.tier + 1 /\ cur'.have = cur.have
    BY <1>1, <1>9 DEF Deeper, Locals
  <2>3. Behind' = Past(cur.tier + 1, 0) /\ Behind = Past(cur.tier, cursor)
    BY <2>1, <2>2 DEF Behind, Probes
  <2>4. Past(cur.tier + 1, 0) = Covers(cur.tier)
    <3>1. (cur.tier + 1) - 1 = cur.tier
      BY <1>1, Bounds
    <3>2. Past(cur.tier + 1, 0) = Covers((cur.tier + 1) - 1)
      BY DEF Past
    <3> QED
      BY <3>1, <3>2
  <2>5. Behind' \subseteq Behind
    BY <1>1, <2>1, <2>3, <2>4, PastFacts
  <2> QED
    BY <1>1, <2>1, <2>2, <2>5 DEF Requested
<1>10. CASE TierEnds
  <2>1. /\ pc = "work" /\ pc' = "finish" /\ cursor >= Total
        /\ UNCHANGED <<cur, cursor, jump, web, looked, crossed>>
    BY <1>10 DEF TierEnds, history
  <2>2. Probes' = Probes
    BY <2>1 DEF Probes
  <2> QED
    BY <1>1, <2>1, <2>2 DEF Behind, Requested, Total
<1>11. CASE Probe
  <2>1. /\ pc = "work" /\ pc' \in {"add", "move"} /\ cursor < Total
        /\ looked' = [looked EXCEPT ![cur.dev] = @ \cup {Probed}]
        /\ UNCHANGED <<cur, cursor, jump, web, crossed>>
    BY <1>11 DEF Probe
  <2>2. looked'[cur.dev] = looked[cur.dev] \cup {Probed}
    BY <1>1, <2>1 DEF TablesSound
  <2>3. Behind' = Past(cur.tier, cursor + 1) /\ Behind = Past(cur.tier, cursor)
    BY <2>1 DEF Behind, Probes
  <2>4. Behind' = Behind \cup {Probed}
    BY <1>1, <2>1, <2>3, PastFacts
  <2> HIDE DEF Probed
  <2>5. cur.have
    BY <1>1, <2>1 DEF PlaceSound
  <2> QED
    BY <1>1, <2>1, <2>2, <2>4, <2>5 DEF Requested
<1>12. CASE NoSocket \/ Add \/ Move
  <2>1. /\ UNCHANGED <<cur, jump, web, looked, crossed>>
        /\ \/ pc = "work" /\ pc' = "top" /\ cursor' = cursor
           \/ pc = "add" /\ pc' = "move" /\ cursor' = cursor
           \/ pc = "move" /\ pc' = "top" /\ cursor' = cursor + 1
    BY <1>12 DEF NoSocket, Add, Move, history
  <2>2. Probes' = Probes /\ cur.have
    BY <1>1, <2>1 DEF Probes, PlaceSound
  <2> QED
    BY <1>1, <2>1, <2>2 DEF Behind, Requested
<1>13. CASE Finish
  <2>1. /\ pc = "finish" /\ pc' = "record" /\ UNCHANGED <<cur, cursor, jump, web, looked>>
        /\ crossed \subseteq crossed'
    BY <1>13 DEF Finish, Crossing
  <2>2. Probes' = Probes
    BY <2>1 DEF Probes
  <2> QED
    BY <1>1, <2>1, <2>2 DEF Behind, Requested, Total
<1>14. CASE Advance \/ Record \/ Restart
  <2>1. ~cur'.have /\ pc' = "top"
    BY <1>1, <1>14, NoDeviceSound DEF Advance, Record, Restart, PlaceSound
  <2> QED
    BY <2>1
<1>15. ASSUME NEW e \in Devs, ClearRam(e)
       PROVE  Goal'
  <2>1. /\ UNCHANGED <<pc, cur, cursor, jump, looked, crossed>> /\ web.step = "idle"
        /\ web' = [step |-> "clear", dev |-> e]
    BY <1>15 DEF ClearRam, task, history
  <2>2. Probes' = Probes /\ (Requested(cur.dev) => Requested(cur.dev)')
    BY <2>1 DEF Probes, Requested
  <2> QED
    BY <1>1, <2>1, <2>2 DEF Behind, Total
<1>16. CASE ClearReg
  <2>1. /\ UNCHANGED <<pc, cur, cursor, jump, crossed>> /\ web.step = "clear"
        /\ web'.step = "jump" /\ web'.dev = web.dev
        /\ cur.dev # web.dev => looked'[cur.dev] = looked[cur.dev]
    BY <1>1, <1>16 DEF ClearReg, task, TablesSound
  <2>2. Probes' = Probes /\ (cur.dev = web.dev => Requested(cur.dev)')
        /\ (Requested(cur.dev) => Requested(cur.dev)')
    BY <2>1 DEF Probes, Requested
  <2> QED
    BY <1>1, <2>1, <2>2 DEF Behind, Total
<1>17. CASE Jump
  BY <1>17 DEF Jump, Requested
<1>18. CASE Readdresses
  <2>1. UNCHANGED <<pc, cursor, jump, web, looked, crossed>> /\ Probes' = Probes
    BY <1>18 DEF Readdresses, Probes
  <2>2. cur'.dev = cur.dev /\ cur'.have = cur.have /\ cur'.tier = cur.tier
    BY <1>1, <1>18 DEF Readdresses, Locals
  <2> QED
    BY <1>1, <2>1, <2>2 DEF Behind, Requested, Total
<1> QED
  BY <1>4, <1>5, <1>6, <1>7, <1>8, <1>9, <1>10, <1>11, <1>12, <1>13, <1>14, <1>15, <1>16, <1>17,
     <1>18
     DEF Next, Task, Web, Drop, Stop, Resume, GoesOffline, ComesOnline, Moves, Switches, Ages,
         task, history

-----------------------------------------------------------------------------
(* A re-scan.                                                               *)

(* What is dropped may have been shut: it was open before, a tier the       *)
(* re-scan is past has it, and it was not found.                            *)
LEMMA ClosedFacts ==
    ASSUME IInv, pc = "work", cursor >= Total, IsRescan, ~(cur.tier < rs.goal)
    PROVE  Closed \subseteq doubt
<1>1. /\ LocalsSound /\ cur.have /\ cur.tier \in Tiers /\ rs.goal \in Tiers
      /\ rs.goal <= cur.tier
  BY Bounds DEF IInv, PlaceSound, LocalsSound
<1>2. rs.overflow \/ Past(cur.tier, cursor) \subseteq rs.found \cup doubt
  BY <1>1 DEF IInv, RescanSound, Behind, Probes
<1>3. Covers(rs.goal) \subseteq Past(cur.tier, cursor)
  BY <1>1, CoverFacts, PastFacts
<1> QED
  BY <1>2, <1>3 DEF Closed

(* RescanSound of the device and the list at hand, and its other parts.     *)
Doubtful == /\ Ports \ open[cur.dev] \subseteq doubt
            /\ (cur.own /\ cur.dev \in here) \/ doubt = Ports
Accounted == rs.overflow \/ Behind \subseteq rs.found \cup doubt

LEMMA RescanKeeps ==
    ASSUME IInv, Next
    PROVE  RescanSound'
<1>1. /\ PlaceSound /\ LocalsSound /\ TablesSound /\ cur.dev \in Devs /\ cur \in Locals
      /\ cursor \in Nat /\ cur.tier \in Tiers /\ doubt \subseteq Ports
  <2>1. PlaceSound /\ LocalsSound /\ TablesSound
    BY DEF IInv
  <2>2. cur \in Locals /\ cursor \in Nat
    BY <2>1 DEF LocalsSound, Locals
  <2>3. doubt \subseteq Ports
    BY <2>1 DEF TablesSound
  <2>4. cur.dev \in Devs /\ cur.tier \in Tiers
    BY <2>2, Bounds DEF Locals
  <2> QED
    BY <2>1, <2>2, <2>3, <2>4
<1>2. /\ pc = "begin" /\ cur.again => cur.tier = Common
      /\ cur.have /\ rs.active => rs.dev = cur.dev
      /\ cur.have /\ IsRescan => Doubtful /\ Accounted
      /\ pc = "finish" => adding \subseteq doubt /\ ~rs.active
  BY DEF IInv, RescanSound, Doubtful, Accounted
<1>3. RescanSound' <=> /\ pc' = "begin" /\ cur'.again => cur'.tier = Common
                       /\ cur'.have /\ rs'.active => rs'.dev = cur'.dev
                       /\ cur'.have /\ IsRescan' => Doubtful' /\ Accounted'
                       /\ pc' = "finish" => adding' \subseteq doubt' /\ ~rs'.active
  BY DEF RescanSound, Doubtful, Accounted
<1>4. CASE UNCHANGED <<pc, cur, cursor, rs, adding, open, here, doubt>>
  <2>1. Probes' = Probes
    BY <1>4 DEF Probes
  <2> QED
    BY <1>2, <1>3, <1>4, <2>1 DEF IsRescan, Doubtful, Accounted, Behind
<1>5. CASE Top
  <2>1. CASE allowed
    <3>1. /\ pc = "top" /\ pc' = "jump" /\ cur'.dev = cur.dev /\ cur'.have = cur.have
          /\ cur'.tier = cur.tier /\ cur'.own = cur.own
          /\ UNCHANGED <<cursor, rs, open, here, doubt>>
      BY <1>1, <1>5, <2>1 DEF Top, Locals, world, history
    <3>2. Probes' = Probes
      BY <3>1 DEF Probes
    <3> QED
      BY <1>2, <1>3, <3>1, <3>2 DEF IsRescan, Doubtful, Accounted, Behind
  <2>2. CASE ~allowed
    <3>1. ~cur'.have /\ pc' = "top"
      BY <1>5, <2>2, NoDeviceSound DEF Top
    <3> QED
      BY <1>3, <3>1
  <2> QED
    BY <2>1, <2>2
<1>6. CASE TakeJump
  <2>1. CASE jump
    <3>1. ~cur'.have /\ pc' \in {"work", "pick"}
      BY <1>6, <2>1 DEF TakeJump, NoDevice
    <3> QED
      BY <1>3, <3>1
  <2>2. CASE ~jump
    <3>1. /\ UNCHANGED <<cur, cursor, rs, open, here, doubt>>
          /\ pc = "jump" /\ pc' \in {"work", "pick"}
      BY <1>6, <2>2 DEF TakeJump, world, history
    <3>2. Probes' = Probes
      BY <3>1 DEF Probes
    <3> QED
      BY <1>2, <1>3, <3>1, <3>2 DEF IsRescan, Doubtful, Accounted, Behind
  <2> QED
    BY <2>1, <2>2
<1>7. CASE Pick
  <2>1. CASE Unscanned \cup Unfinished \cup Due = {}
    <3>1. ~cur'.have /\ pc' = "advance"
      BY <1>7, <2>1, NoDeviceSound DEF Pick
    <3> QED
      BY <1>3, <3>1
  <2>2. CASE Unscanned \cup Unfinished \cup Due # {}
    <3>1. PICK d \in Devs, t \in 1..MaxTier, again \in BOOLEAN :
              /\ Chosen = [cur EXCEPT !.dev = d, !.tier = t, !.again = again, !.own = TRUE]
              /\ again => t = Common
      BY <1>1, <2>2, ChosenFacts
    <3>2. cur' = Chosen /\ pc' = "begin" /\ pc = "pick"
      BY <1>7, <2>2 DEF Pick
    <3>3. cur'.tier = t /\ cur'.again = again /\ cur'.have = cur.have
      BY <1>1, <3>1, <3>2 DEF Locals
    <3> QED
      BY <1>1, <1>3, <3>1, <3>2, <3>3 DEF PlaceSound
  <2> QED
    BY <2>1, <2>2
<1>8. CASE Begin
  <2>1. /\ pc = "begin" /\ pc' = "work" /\ cursor' = 0 /\ UNCHANGED <<open, here>>
        /\ cur'.dev = cur.dev /\ cur'.tier = cur.tier /\ cur'.own = cur.own
    BY <1>1, <1>8 DEF Begin, PlaceSound, Locals, world
  <2>2. CASE cur.again
    <3>1. rs'.active /\ rs'.dev = cur.dev /\ cur.tier = Common
          /\ doubt' = IF cur.own /\ cur.dev \in here THEN Ports \ open[cur.dev] ELSE Ports
      BY <1>2, <1>8, <2>1, <2>2 DEF Begin
    <3>2. Behind' = {}
      <4>1. Behind' = Past(cur.tier, 0)
        BY <2>1 DEF Behind, Probes
      <4> QED
        BY <1>1, <3>1, <4>1, PastFacts, CoverFacts DEF Common
    <3> QED
      BY <1>3, <2>1, <3>1, <3>2 DEF Doubtful, Accounted
  <2>3. CASE ~cur.again
    <3>1. ~rs'.active
      BY <1>8, <2>3 DEF Begin, NoRescan
    <3> QED
      BY <1>3, <2>1, <3>1 DEF IsRescan
  <2> QED
    BY <2>2, <2>3
<1>9. CASE Deeper
  <2>1. /\ pc = "work" /\ pc' = "top" /\ cursor' = 0 /\ cursor >= Total
        /\ UNCHANGED <<rs, open, here, doubt>>
    BY <1>9 DEF Deeper, world, history
  <2>2. /\ cur'.dev = cur.dev /\ cur'.tier = cur.tier + 1 /\ cur'.have = cur.have
        /\ cur'.own = cur.own
    BY <1>1, <1>9 DEF Deeper, Locals
  <2>3. Behind' = Past(cur.tier + 1, 0) /\ Behind = Past(cur.tier, cursor)
    BY <2>1, <2>2 DEF Behind, Probes
  <2>4. Past(cur.tier + 1, 0) = Covers(cur.tier)
    <3>1. (cur.tier + 1) - 1 = cur.tier
      BY <1>1, Bounds
    <3>2. Past(cur.tier + 1, 0) = Covers((cur.tier + 1) - 1)
      BY DEF Past
    <3> QED
      BY <3>1, <3>2
  <2>5. Behind' \subseteq Behind
    BY <1>1, <2>1, <2>3, <2>4, PastFacts
  <2> QED
    BY <1>2, <1>3, <2>1, <2>2, <2>5 DEF IsRescan, Doubtful, Accounted
<1>10. CASE TierEnds
  <2>1. pc = "work" /\ pc' = "finish" /\ UNCHANGED <<cur, doubt>> /\ cur.have
    BY <1>1, <1>10 DEF TierEnds, history, PlaceSound
  <2>2. CASE IsRescan
    <3>1. rs' = NoRescan /\ adding' = Closed
      BY <1>10, <2>2 DEF TierEnds
    <3>2. Closed \subseteq doubt
      BY <1>10, <2>2, ClosedFacts DEF TierEnds
    <3>3. ~rs'.active
      BY <3>1, NoRescanSound
    <3> QED
      BY <1>3, <2>1, <3>1, <3>2, <3>3 DEF IsRescan
  <2>3. CASE ~IsRescan
    <3>1. rs' = rs /\ adding' = {} /\ ~rs.active
      BY <1>2, <1>10, <2>1, <2>3 DEF TierEnds, IsRescan
    <3> QED
      BY <1>3, <2>1, <3>1 DEF IsRescan
  <2> QED
    BY <2>2, <2>3
<1>11. CASE Probe
  <2>1. /\ pc = "work" /\ pc' \in {"add", "move"} /\ cursor < Total
        /\ UNCHANGED <<cur, cursor, open, here>> /\ cur.have
    BY <1>1, <1>11 DEF Probe, PlaceSound, world
  <2>2. Probed \in Ports
    BY <1>1, <2>1, ProbedFacts
  <2>3. Behind' = Behind \cup {Probed}
    <3>1. Behind' = Past(cur.tier, cursor + 1) /\ Behind = Past(cur.tier, cursor)
      BY <2>1 DEF Behind, Probes
    <3> QED
      BY <1>1, <2>1, <3>1, PastFacts
  <2>4. \/ rs' = Noted(Probed) /\ doubt' = doubt
        \/ rs' = rs /\ doubt' = IF IsRescan THEN doubt \cup {Probed} ELSE doubt
    BY <1>11 DEF Probe
  <2> DEFINE p == Probed
  <2> HIDE DEF p
  <2>5. CASE rs' = Noted(p) /\ doubt' = doubt
    <3>1. /\ rs'.active = rs.active /\ rs'.dev = rs.dev /\ rs.found \subseteq rs'.found
          /\ rs.overflow => rs'.overflow
          /\ IsRescan => p \in rs'.found \/ rs'.overflow
      BY <1>1, <2>2, <2>5, NotedFacts DEF p
    <3> QED
      BY <1>2, <1>3, <2>1, <2>3, <2>5, <3>1 DEF IsRescan, Doubtful, Accounted, p
  <2>6. CASE rs' = rs /\ doubt' = IF IsRescan THEN doubt \cup {p} ELSE doubt
    <3>1. doubt \subseteq doubt' /\ (IsRescan => p \in doubt') /\ doubt' \subseteq Ports
      BY <1>1, <2>2, <2>6 DEF p
    <3> QED
      BY <1>2, <1>3, <2>1, <2>3, <2>6, <3>1 DEF IsRescan, Doubtful, Accounted, p
  <2> QED
    BY <2>4, <2>5, <2>6 DEF p
<1>12. CASE NoSocket \/ Add \/ Move
  <2>1. /\ UNCHANGED <<cur, rs, open, here, doubt>>
        /\ \/ pc = "work" /\ pc' = "top" /\ cursor' = cursor
           \/ pc = "add" /\ pc' = "move" /\ cursor' = cursor
           \/ pc = "move" /\ pc' = "top" /\ cursor' = cursor + 1
    BY <1>12 DEF NoSocket, Add, Move, world, history
  <2>2. Probes' = Probes
    BY <2>1 DEF Probes
  <2> QED
    BY <1>2, <1>3, <2>1, <2>2 DEF IsRescan, Doubtful, Accounted, Behind
<1>13. CASE \E p \in Ports : Drop(p)
  <2>1. /\ pc = "finish" /\ UNCHANGED <<pc, cur, rs, doubt>> /\ adding' \subseteq adding
    BY <1>13 DEF Drop, history
  <2> QED
    BY <1>2, <1>3, <2>1 DEF IsRescan
<1>14. CASE Finish
  <2>1. pc = "finish" /\ pc' = "record" /\ UNCHANGED <<cur, rs>>
    BY <1>14 DEF Finish
  <2> QED
    BY <1>2, <1>3, <2>1 DEF IsRescan
<1>15. CASE Advance \/ Record \/ Restart
  <2>1. ~cur'.have /\ pc' = "top"
    BY <1>1, <1>15, NoDeviceSound DEF Advance, Record, Restart, PlaceSound
  <2> QED
    BY <1>3, <2>1
<1>16. CASE Jump
  <2>1. cursor' = 0 /\ UNCHANGED <<pc, cur, rs, adding, open, here, doubt>>
    BY <1>16 DEF Jump, world, history
  <2>2. cur.have => Behind' \subseteq Behind
    <3>1. Behind' = Past(cur.tier, Probes') /\ Behind = Past(cur.tier, Probes)
      BY <2>1 DEF Behind
    <3>2. \/ Probes' = 0 /\ Probes \in Nat
          \/ Probes' = 1 /\ Probes = cursor + 1
      BY <1>1, <2>1 DEF Probes
    <3> QED
      BY <1>1, <3>1, <3>2, PastFacts
  <2> QED
    BY <1>2, <1>3, <2>1, <2>2 DEF IsRescan, Doubtful, Accounted
<1>18. CASE Readdresses
  <2>1. /\ UNCHANGED <<pc, cursor, rs, adding, open, here>> /\ Probes' = Probes
        /\ doubt' = IF Rescans(cur.dev) THEN Ports ELSE doubt
    BY <1>18 DEF Readdresses, world, Probes
  <2>2. /\ cur'.dev = cur.dev /\ cur'.have = cur.have /\ cur'.tier = cur.tier
        /\ cur'.again = cur.again
    BY <1>1, <1>18 DEF Readdresses, Locals
  <2>3. doubt \subseteq doubt' /\ (IsRescan => doubt' = Ports)
    BY <1>1, <2>1 DEF Rescans, IsRescan
  <2> QED
    BY <1>2, <1>3, <2>1, <2>2, <2>3 DEF IsRescan, Doubtful, Accounted, Behind
(* The world changes: what may have been shut takes it in.                  *)
<1>17. ASSUME NEW d \in Devs, Moves(d) \/ \E p \in Ports : Switches(d, p)
       PROVE  RescanSound'
  <2>1. UNCHANGED <<pc, cur, cursor, rs, adding>> /\ Probes' = Probes
    BY <1>17 DEF Moves, Switches, task, Probes
  <2>2. doubt \subseteq doubt'
    BY <1>1, <1>17 DEF Moves, Switches
  <2>3. rs.active => (Doubtful => Doubtful')
    <3>1. CASE Moves(d)
      BY <1>1, <2>1, <3>1 DEF Moves, Doubtful, Rescans
    <3>2. ASSUME NEW p \in Ports, Switches(d, p)
          PROVE  rs.active => (Doubtful => Doubtful')
      <4>1. here' = here /\ cur' = cur
            /\ doubt' = IF Rescans(d) THEN doubt \cup {p} ELSE doubt
        BY <2>1, <3>2 DEF Switches
      <4>2. Ports \ open'[cur.dev] \subseteq (Ports \ open[cur.dev]) \cup (IF d = cur.dev THEN {p} ELSE {})
        BY <1>1, <3>2 DEF Switches, TablesSound
      <4> QED
        BY <1>1, <4>1, <4>2, <3>2 DEF Doubtful, Rescans
    <3> QED
      BY <1>17, <3>1, <3>2
  <2> QED
    BY <1>2, <1>3, <2>1, <2>2, <2>3 DEF IsRescan, Accounted, Behind
<1> QED
  BY <1>4, <1>5, <1>6, <1>7, <1>8, <1>9, <1>10, <1>11, <1>12, <1>13, <1>14, <1>15, <1>16, <1>17,
     <1>18
     DEF Next, Task, Web, Stop, Resume, ClearRam, ClearReg, GoesOffline, ComesOnline, Ages,
         task, world, history

-----------------------------------------------------------------------------
(* The invariant holds, and what follows from it.                           *)

LEMMA InitSound == Init => IInv
<1> SUFFICES ASSUME Init PROVE IInv
  OBVIOUS
<1>1. /\ TaskInit /\ crossed = {} /\ doubt = {} /\ online = {} /\ here = Devs
      /\ web = [step |-> "idle", dev |-> 1] /\ 1 \in Devs
  BY Bounds DEF Init
<1>2. /\ pc = "top" /\ cur = NoDevice /\ tier = 1 /\ index = 1 /\ cursor = 0 /\ jump = FALSE
      /\ rs = NoRescan /\ adding = {}
  BY <1>1 DEF TaskInit, Common
<1>3. /\ reg = [d \in Devs |-> [tier |-> 0, scan |-> "never", ports |-> {}]]
      /\ ram = [d \in Devs |-> [tier |-> 0, scan |-> "never"]]
      /\ open = [d \in Devs |-> Ports] /\ looked = [d \in Devs |-> {}]
  BY DEF Init
<1>4. TablesSound
  <2>1. IsFiniteSet({}) /\ Cardinality({}) <= MaxOpen /\ 0 \in 0..MaxTier
    BY FS_EmptySet, Bounds
  <2>2. reg \in [Devs -> [tier : 0..MaxTier, scan : Scans, ports : SUBSET Ports]]
        /\ ram \in [Devs -> [tier : 0..MaxTier, scan : Scans]]
    BY <1>3, <2>1 DEF Scans
  <2>3. \A d \in Devs : reg[d].ports = {}
    BY <1>3
  <2> QED
    BY <1>1, <1>3, <2>1, <2>2, <2>3 DEF TablesSound
<1>5. LocalsSound
  <2>1. 1 \in 1..MaxTier
    BY Bounds
  <2> QED
    BY <1>2, <2>1, NoDeviceSound, NoRescanSound DEF LocalsSound, Locals
<1>6. PlaceSound
  <2>1. 1 \in 1..Devices + 1
    BY Bounds
  <2> QED
    BY <1>2, <2>1, NoDeviceSound DEF PlaceSound
<1>7. ProgressSound
  <2>1. \A d \in Devs : ram[d].tier = 0 /\ reg[d].tier = 0
    BY <1>3
  <2> QED
    BY <1>1, <1>2, <2>1, NoDeviceSound, CoverFacts DEF ProgressSound
<1>8. RescanSound
  BY <1>2, NoDeviceSound DEF RescanSound
<1> QED
  BY <1>4, <1>5, <1>6, <1>7, <1>8 DEF IInv

LEMMA NextKeeps == IInv /\ [Next]_vars => IInv'
<1>1. ASSUME IInv, Next PROVE IInv'
  BY <1>1, TablesKeep, LocalsKeep, PlaceKeeps, ProgressKeeps, RescanKeeps DEF IInv
<1>2. ASSUME IInv, UNCHANGED vars PROVE IInv'
  <2>1. TablesSound'
    BY <1>2 DEF IInv, TablesSound, vars, world, history
  <2>2. LocalsSound'
    BY <1>2 DEF IInv, LocalsSound, vars, task
  <2>3. PlaceSound' /\ Behind' = Behind
    BY <1>2 DEF IInv, PlaceSound, Total, Behind, Probes, vars, task
  <2>4. ProgressSound'
    BY <1>2, <2>3 DEF IInv, ProgressSound, Requested, Total, vars, task, history
  <2>5. RescanSound'
    BY <1>2, <2>3 DEF IInv, RescanSound, IsRescan, vars, task, world, history
  <2> QED
    BY <2>1, <2>2, <2>3, <2>4, <2>5 DEF IInv
<1> QED
  BY <1>1, <1>2

LEMMA AlwaysSound == Spec => []IInv
BY InitSound, NextKeeps, PTL DEF Spec

LEMMA SoundIsTyped == IInv => PortScanTypeOK
<1> SUFFICES ASSUME IInv PROVE PortScanTypeOK
  OBVIOUS
<1>1. 1..MaxTier \subseteq Tiers
  BY Bounds
<1>2. /\ ram \in [Devs -> [tier : 0..MaxTier, scan : {"never", "fresh", "old"}]]
      /\ reg \in [Devs -> [tier : 0..MaxTier, scan : {"never", "fresh", "old"}, ports : SUBSET Ports]]
      /\ \A d \in Devs : Cardinality(reg[d].ports) <= MaxOpen
      /\ web \in [step : {"idle", "clear", "jump"}, dev : Devs]
      /\ online \cup here \cup crossed \subseteq Devs
      /\ {open, looked} \subseteq [Devs -> SUBSET Ports] /\ doubt \subseteq Ports
  BY DEF IInv, TablesSound, Scans
<1>3. /\ cur \in [dev : Devs, have : BOOLEAN, tier : Tiers, ceiling : 1..MaxTier, jump : BOOLEAN,
                  again : BOOLEAN, own : BOOLEAN]
      /\ tier \in 1..MaxTier /\ cursor \in Nat /\ jump \in BOOLEAN
      /\ rs.goal \in 1..MaxTier /\ rs.before \cup rs.found \cup adding \subseteq Ports
      /\ Cardinality(rs.found) <= MaxOpen
  BY <1>1 DEF IInv, LocalsSound
<1> QED
  BY <1>2, <1>3 DEF IInv, PlaceSound, PortScanTypeOK

(* The scanner's state has its types; the list of open ports of a device    *)
(* never outgrows NETDASH_MAX_OPEN_PORTS (device_db_add_open_port()), nor   *)
(* what a re-scan found, and the cursor never leaves its tier.              *)
THEOREM TypesKept == Spec => []PortScanTypeOK
BY AlwaysSound, SoundIsTyped, PTL

(* A device that the register says is scanned up to a tier has had every    *)
(* port of it and of the tiers below probed since its list was cleared,     *)
(* unless a tier ended while a request to scan it anew was under way        *)
(* (portscan.c:435-442).                                                    *)
THEOREM ScannedInOrder == Spec => []TiersInOrder
<1>1. IInv => TiersInOrder
  BY DEF IInv, ProgressSound, TiersInOrder
<1> QED
  BY <1>1, AlwaysSound, PTL

(* The task drops a port only if it was shut, a connect to it failed, or    *)
(* its device was away or at another address, at some time since the        *)
(* re-scan began; and none of a device that is offline when the re-scan     *)
(* ends (rs_finish()).                                                      *)
THEOREM OpenPortsKept == Spec => KeepsOpen
<1> DEFINE Kept == /\ \A d \in Devs :
                        web.step = "clear" \/ reg[d].ports \ reg'[d].ports \subseteq doubt
                   /\ TierEnds => adding' = {} \/ cur.dev \in online
<1>1. ASSUME IInv, [Next]_vars PROVE Kept
  <2>1. /\ TablesSound /\ LocalsSound /\ cur.dev \in Devs
        /\ reg \in [Devs -> [tier : 0..MaxTier, scan : Scans, ports : SUBSET Ports]]
    BY <1>1 DEF IInv, TablesSound, LocalsSound
  <2>8. TierEnds => adding' = {} \/ cur.dev \in online
    BY DEF TierEnds, Closed
  <2> SUFFICES ASSUME NEW d \in Devs
               PROVE  web.step = "clear" \/ reg[d].ports \ reg'[d].ports \subseteq doubt
    BY <2>8
  <2>2. CASE UNCHANGED reg
    BY <2>2
  <2>3. CASE Add
    <3>1. PICK P : reg' = [reg EXCEPT ![cur.dev].ports = P] /\ reg[cur.dev].ports \subseteq P
      BY <2>3 DEF Add
    <3>2. reg[d].ports \subseteq reg'[d].ports
      BY <2>1, <3>1
    <3> QED
      BY <3>2
  <2>4. ASSUME NEW p \in Ports, Drop(p)
        PROVE  reg[d].ports \ reg'[d].ports \subseteq doubt
    <3>1. p \in doubt
      BY <1>1, <2>4 DEF IInv, RescanSound, Drop
    <3>2. reg[d].ports \ reg'[d].ports \subseteq {p}
      BY <2>1, <2>4 DEF Drop
    <3> QED
      BY <3>1, <3>2
  <2>5. CASE Record
    <3> DEFINE t == Higher(reg[cur.dev].tier, cur.tier)
    <3>1. reg' = [reg EXCEPT ![cur.dev].tier = t, ![cur.dev].scan = "fresh"]
      BY <2>5 DEF Record
    <3> HIDE DEF t
    <3>2. reg'[d].ports = reg[d].ports
      BY <2>1, <3>1
    <3> QED
      BY <3>2
  <2>6. CASE ClearReg
    BY <2>6 DEF ClearReg
  <2>7. ASSUME NEW e \in Devs, Ages(e)
        PROVE  reg[d].ports \ reg'[d].ports \subseteq doubt
    <3>1. reg'[d].ports = reg[d].ports
      BY <2>1, <2>7 DEF Ages
    <3> QED
      BY <3>1
  <2> QED
    BY <1>1, <2>2, <2>3, <2>4, <2>5, <2>6, <2>7
       DEF Next, Task, Web, Top, TakeJump, Pick, Advance, Begin, Deeper, TierEnds, Probe, NoSocket,
           Move, Finish, Jump, Stop, Resume, Restart, Readdresses, ClearRam, GoesOffline, ComesOnline, Moves,
           Switches, vars
<1>2. IInv /\ [Next]_vars => [Kept]_vars
  BY <1>1
<1> QED
  BY <1>2, AlwaysSound, PTL DEF Spec, KeepsOpen
=============================================================================
