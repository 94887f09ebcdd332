-------------------------- MODULE AddrTrackProofs --------------------------
(***************************************************************************)
(* What holds of the address tracker for any number of addresses, hosts    *)
(* and slots, and any interval between sweeps: a host that is alone behind *)
(* its MAC is never taken for two (OneHostIsOne), and the entry is where   *)
(* it is (EntryIsThere).  With sweeps that follow each other within the    *)
(* window, several hosts are told apart in time (HostsAreFound), and the   *)
(* news of a move come in time (MovesTold).                                *)
(*                                                                         *)
(* The argument compares any two addresses in the tracker.  One of the two *)
(* is over, as seen from the other: its host had left it by the time the   *)
(* other was first sighted, so that no sighting of it comes later than an  *)
(* ARP entry lasts, or it has gone unseen for so long that it will count   *)
(* as new (Over).  Nothing that is over can be alive at the same time.     *)
(***************************************************************************)
EXTENDS AddrTrack, FiniteSetTheorems, TLAPS

Slot == [first : Nat, last : Nat, from : Addrs \cup {None}, used : BOOLEAN]

\* One host at a time, and nothing of what OnlyShared excepts has happened.
Quiet == ~crowd /\ ~back /\ ~stray

\* The address a of the table t, at time n, has gone unseen for so long that its
\* next sighting makes it new; occ are the addresses occupied, g the departures.
Lapsed(t, a, n, occ, g) == t[a].last + Confirm < IF a \in occ THEN n ELSE g[a]

Over(t, a, x, n, occ, g) ==
    /\ t[a].first <= t[x].first
    /\ t[a].last <= t[x].first + MaxAge
    /\ \/ a \notin occ /\ g[a] <= t[x].first
       \/ Lapsed(t, a, n, occ, g)

Apart(t, n, occ, g) ==
    \A a, x \in Tracked(t) :
        a # x => Over(t, a, x, n, occ, g) \/ Over(t, x, a, n, occ, g)

\* An address nobody is at was last sighted while the ARP entry lasted, or noted
\* when the entry left it.
Silent(t, occ, g, s) ==
    \A a \in Tracked(t) \ occ : t[a].last <= g[a] + MaxAge \/ t[a].last <= s

\* Every slot is free, or its times are in order.
Ordered(t, n) ==
    \A a \in Addrs : IF t[a].used THEN t[a].first <= t[a].last /\ t[a].last <= n
                                  ELSE t[a] = Free

\* The entry is at the address that appeared last, if that has a slot.
Latest(t, i) ==
    i # None /\ t[i].used =>
        \A a \in Tracked(t) :
            \/ t[a].first < t[i].first
            \/ t[a].first = t[i].first /\ t[a].last <= t[i].last

\* If it has none, no other address can go on: it would be new, or cannot be
\* sighted.
Adrift(t, i, n, occ, g) ==
    i # None /\ ~t[i].used =>
        \A a \in Tracked(t) : \/ t[a].last + Confirm < n
                              \/ a \notin occ /\ g[a] + MaxAge < n

Types ==
    /\ now \in Nat /\ sweep \in Nat /\ since \in Nat
    /\ trk \in [Addrs -> Slot]
    /\ ip \in Addrs \cup {None} /\ shared \in BOOLEAN
    /\ at \in [Hosts -> Addrs \cup {None}] /\ gone \in [Addrs -> Nat]
    /\ steady \in [Addrs -> Nat] /\ seen \subseteq Addrs
    /\ crowd \in BOOLEAN /\ back \in BOOLEAN /\ stray \in BOOLEAN

Clock ==
    /\ 1 <= now /\ sweep * Period <= now /\ now < sweep * Period + Period
    /\ since <= now
    /\ \A a \in Addrs : gone[a] <= now /\ steady[a] <= now

Idle == ip = None \/ shared => Tracked(trk) = {}

Single == \A h, k \in Hosts : at[h] # None /\ at[k] # None => h = k

Visited == \A a \in Addrs : trk[a].used \/ ip = a => a \in Occupied \/ gone[a] # Never

Left == \A a \in Occupied, x \in Addrs : gone[x] <= steady[a]

\* The entry is elsewhere than the host only for so long.
Home ==
    \A a \in Occupied :
        ip # None /\ ip # a =>
            /\ sweep * Period <= steady[a] + MaxAge + Period
            /\ a \in seen => sweep * Period <= steady[a] + MaxAge

Alone ==
    /\ ~shared
    /\ Single /\ Visited /\ Left /\ Home
    /\ Silent(trk, Occupied, gone, since)
    /\ Apart(trk, now, Occupied, gone)
    /\ Adrift(trk, ip, now, Occupied, gone)

IInv ==
    /\ Types /\ Clock /\ Idle
    /\ Ordered(trk, now)
    /\ Latest(trk, ip)
    /\ Quiet => Alone

-----------------------------------------------------------------------------
(* The operators of the model.                                             *)

\* Constants, as the code gives them.
LEMMA ConstantTypes ==
    /\ None \notin Addrs /\ MaxAge \in Nat /\ Confirm \in Nat /\ Expire \in Nat
    /\ Period \in Nat /\ 1 <= Period /\ MaxAge < Confirm /\ Confirm <= Expire
    /\ Walk \in Nat /\ 1 <= Walk /\ Walk <= Period
  BY TrackAssumption DEF TrackAssumption

\* Sweeps are one Period apart.
LEMMA NextSweep == ASSUME NEW s \in Nat
                   PROVE  /\ (s + 1) * Period = s * Period + Period
                          /\ s * Period \in Nat
  BY ConstantTypes

\* A walk is over before the next begins.
LEMMA SightedInTime ==
    ASSUME Types, NEW a, NEW n \in {now, now + 1}, Sighted(a, n)
    PROVE  n < (sweep + 1) * Period /\ n < sweep * Period + Walk
<1>1. n < sweep * Period + Walk
  BY DEF Sighted
<1>2. sweep \in Nat /\ n \in Nat
  BY DEF Types
<1> QED
  BY <1>1, <1>2, NextSweep, ConstantTypes

\* A free slot is a slot.
LEMMA FreeIsSlot == Free \in Slot
  BY DEF Free, Slot

\* What addr_note_locked() leaves: the address noted was seen now, and is new or
\* was seen within the window; no other address is touched, but for the one that
\* makes way for a new one.
LEMMA NotedSlots ==
    ASSUME NEW t \in [Addrs -> Slot], NEW a \in Addrs, NEW n \in Nat,
           NEW u \in Noted(t, a, n)
    PROVE  /\ u \in [Addrs -> Slot]
           /\ u[a].used /\ u[a].last = n
           /\ \/ u[a].first = n
              \/ /\ t[a].used /\ u[a].first = t[a].first
                 /\ n <= t[a].last + Confirm
           /\ \A x \in Addrs \ {a} : \/ u[x] = t[x]
                                     \/ u[x] = Free /\ u[a].first = n
<1>1. CASE t[a].used
  <2> DEFINE f == IF n - t[a].last > Confirm THEN n ELSE t[a].first
  <2>1. u = [t EXCEPT ![a] = [t[a] EXCEPT !.last = n, !.first = f]]
    BY <1>1 DEF Noted
  <2>2. t[a] \in Slot
    OBVIOUS
  <2>3. t[a] = [first |-> t[a].first, last |-> t[a].last, from |-> t[a].from, used |-> t[a].used]
    BY <2>2 DEF Slot
  <2>4. u[a] = [first |-> f, last |-> n, from |-> t[a].from, used |-> t[a].used]
    BY <2>1, <2>3
  <2>5. f \in Nat /\ (f = n \/ (f = t[a].first /\ n <= t[a].last + Confirm))
    BY <2>2, ConstantTypes DEF Slot
  <2>6. u[a] \in Slot
    BY <2>2, <2>4, <2>5 DEF Slot
  <2> HIDE DEF f
  <2> QED
    BY <1>1, <2>1, <2>4, <2>5, <2>6
<1>2. CASE ~t[a].used
  <2> DEFINE new == [first |-> n, last |-> n, from |-> None, used |-> TRUE]
  <2>1. new \in Slot
    BY DEF Slot
  <2>2. \/ u = [t EXCEPT ![a] = new]
        \/ \E v \in Oldest(t) : u = [t EXCEPT ![v] = Free, ![a] = new]
    BY <1>2 DEF Noted
  <2>3. ASSUME u = [t EXCEPT ![a] = new]
        PROVE  u \in [Addrs -> Slot] /\ u[a] = new /\ \A x \in Addrs \ {a} : u[x] = t[x]
    BY <2>1, <2>3
  <2>4. ASSUME NEW v \in Oldest(t), u = [t EXCEPT ![v] = Free, ![a] = new]
        PROVE  /\ u \in [Addrs -> Slot] /\ u[a] = new
               /\ \A x \in Addrs \ {a} : u[x] = t[x] \/ u[x] = Free
    <3>1. v \in Addrs
      BY DEF Oldest, Tracked
    <3> QED
      BY <2>1, <2>4, <3>1, FreeIsSlot
  <2>5. /\ u \in [Addrs -> Slot] /\ u[a] = new
        /\ \A x \in Addrs \ {a} : u[x] = t[x] \/ u[x] = Free
    BY <2>2, <2>3, <2>4
  <2>6. new.first = n /\ new.last = n /\ new.used
    OBVIOUS
  <2> HIDE DEF new
  <2> QED
    BY <2>5, <2>6
<1> QED
  BY <1>1, <1>2

\* What a sighting leaves for the verdict: besides the address sighted, the table
\* holds what it held, and the entry's address as of now if it had no slot.
LEMMA WatchedSlots ==
    ASSUME Types, ip # None, NEW a \in Addrs, NEW n \in Nat, NEW t \in Watched(a, n)
    PROVE  /\ t \in [Addrs -> Slot]
           /\ t[a].used /\ t[a].last = n
           /\ \/ t[a].first = n
              \/ /\ trk[a].used /\ t[a].first = trk[a].first
                 /\ n <= trk[a].last + Confirm
           /\ \A x \in Addrs \ {a} :
                 t[x].used => \/ t[x] = trk[x]
                              \/ /\ x = ip /\ ~trk[ip].used
                                 /\ t[x].first = n /\ t[x].last = n
           /\ \A x \in Addrs \ {a} : ~t[x].used => t[x] = trk[x] \/ t[x] = Free
           /\ ip # a /\ ~t[ip].used => t[a].first = n
<1>1. trk \in [Addrs -> Slot] /\ ip \in Addrs
  BY DEF Types
<1>2. ~Free.used
  BY DEF Free
<1>3. CASE ip # a /\ ~trk[ip].used
  <2>1. PICK w \in Noted(trk, ip, n) : t \in Noted(w, a, n)
    BY <1>3 DEF Watched
  <2>2. /\ w \in [Addrs -> Slot]
        /\ w[ip].used /\ w[ip].last = n /\ w[ip].first = n
        /\ \A x \in Addrs \ {ip} : w[x] = trk[x] \/ w[x] = Free
    BY <1>1, <1>3, <2>1, NotedSlots
  <2>3. /\ t \in [Addrs -> Slot]
        /\ t[a].used /\ t[a].last = n
        /\ \/ t[a].first = n
           \/ w[a].used /\ t[a].first = w[a].first /\ n <= w[a].last + Confirm
        /\ \A x \in Addrs \ {a} : t[x] = w[x] \/ (t[x] = Free /\ t[a].first = n)
    BY <2>1, <2>2, NotedSlots
  <2>4. w[a].used => w[a] = trk[a]
    BY <1>2, <1>3, <2>2
  <2> QED
    BY <1>1, <1>2, <1>3, <2>2, <2>3, <2>4
<1>4. CASE ~(ip # a /\ ~trk[ip].used)
  <2>1. t \in Noted(trk, a, n)
    BY <1>4 DEF Watched
  <2>2. /\ t \in [Addrs -> Slot]
        /\ t[a].used /\ t[a].last = n
        /\ \/ t[a].first = n
           \/ trk[a].used /\ t[a].first = trk[a].first /\ n <= trk[a].last + Confirm
        /\ \A x \in Addrs \ {a} : t[x] = trk[x] \/ (t[x] = Free /\ t[a].first = n)
    BY <1>1, <2>1, NotedSlots
  <2> QED
    BY <1>1, <1>2, <1>4, <2>2
<1> QED
  BY <1>3, <1>4

\* What the verdict leaves: the times are those of the table it judged.
LEMMA JudgedSlots ==
    ASSUME Types, ip # None, NEW a \in Addrs, NEW t \in [Addrs -> Slot], Judges(t, a)
    PROVE  \/ /\ trk' = [x \in Addrs |-> Free] /\ shared' = TRUE /\ ip' = ip
              /\ Concurrent(t, a)
           \/ /\ trk' \in [Addrs -> Slot] /\ shared' = shared
              /\ \A x \in Addrs : /\ trk'[x].first = t[x].first
                                  /\ trk'[x].last = t[x].last
                                  /\ trk'[x].used = t[x].used
                                  /\ ~t[x].used /\ x # a => trk'[x] = t[x]
              /\ ~Concurrent(t, a)
              /\ \/ /\ ip' = a /\ ip # a
                    /\ t[ip].used => t[ip].first <= t[a].first
                 \/ /\ ip' = ip
                    /\ ip # a => t[ip].used /\ ~(t[ip].first <= t[a].first)
<1>1. ip \in Addrs /\ ip \in Addrs \cup {None} /\ None \in Addrs \cup {None}
  BY DEF Types
<1>2. CASE Concurrent(t, a)
  BY <1>2 DEF Judges, Declares
<1>3. CASE /\ ~Concurrent(t, a)
           /\ ip # a /\ (~t[ip].used \/ t[a].first >= t[ip].first)
  <2> DEFINE u == IF t[ip].used THEN [t EXCEPT ![ip].from = None] ELSE t
  <2>1. trk' = [u EXCEPT ![a].from = ip] /\ ip' = a /\ shared' = shared
    BY <1>3 DEF Judges, Follows
  <2>2. /\ u \in [Addrs -> Slot]
        /\ \A x \in Addrs : /\ u[x].first = t[x].first /\ u[x].last = t[x].last
                            /\ u[x].used = t[x].used
                            /\ ~t[x].used => u[x] = t[x]
    BY <1>1 DEF Slot
  <2> HIDE DEF u
  <2>3. /\ trk' \in [Addrs -> Slot]
        /\ \A x \in Addrs : /\ trk'[x].first = u[x].first /\ trk'[x].last = u[x].last
                            /\ trk'[x].used = u[x].used
                            /\ x # a => trk'[x] = u[x]
    BY <1>1, <2>1, <2>2 DEF Slot
  <2>4. t[ip].used => t[ip].first <= t[a].first
    BY <1>1, <1>3 DEF Slot
  <2> QED
    BY <1>3, <2>1, <2>2, <2>3, <2>4
<1>4. CASE /\ ~Concurrent(t, a)
           /\ ~(ip # a /\ (~t[ip].used \/ t[a].first >= t[ip].first))
  <2>1. trk' = t /\ ip' = ip /\ shared' = shared
    BY <1>4 DEF Judges, entry
  <2>2. ip # a => t[ip].used /\ ~(t[ip].first <= t[a].first)
    BY <1>1, <1>4 DEF Slot
  <2> QED
    BY <1>4, <2>1, <2>2
<1> QED
  BY <1>2, <1>3, <1>4

-----------------------------------------------------------------------------
(* A sighting that the tracker judges.                                     *)

\* One host at a time is at one address at most.
LEMMA OnlyOccupied ==
    ASSUME Single, NEW a \in Occupied, NEW x \in Occupied
    PROVE  a = x
  BY DEF Single, Occupied

\* Two addresses one of which is over were not alive at the same time.
LEMMA ApartIsNotConcurrent ==
    ASSUME NEW t \in [Addrs -> Slot], NEW a \in Addrs, NEW n, NEW occ, NEW g,
           t[a].used, Apart(t, n, occ, g), Ordered(t, n)
    PROVE  ~Concurrent(t, a)
<1> SUFFICES ASSUME NEW x \in Tracked(t) \ {a},
                    t[a].last > t[x].first + Confirm, t[x].last > t[a].first + Confirm
             PROVE  FALSE
  BY DEF Concurrent
<1>1. x \in Addrs /\ a \in Tracked(t) /\ x \in Tracked(t) /\ x # a
  BY DEF Tracked
<1>2. Over(t, a, x, n, occ, g) \/ Over(t, x, a, n, occ, g)
  BY <1>1 DEF Apart
<1>3. t[a].last <= t[x].first + MaxAge \/ t[x].last <= t[a].first + MaxAge
  BY <1>2 DEF Over
<1>4. /\ t[a].first \in Nat /\ t[a].last \in Nat
      /\ t[x].first \in Nat /\ t[x].last \in Nat
  BY <1>1 DEF Slot
<1> QED
  BY <1>3, <1>4, ConstantTypes

\* A sighting leaves the times of every slot in order.
LEMMA WatchedOrdered ==
    ASSUME IInv, ip # None,
           NEW a \in Addrs, NEW n \in Nat, now <= n, NEW t \in Watched(a, n)
    PROVE  Ordered(t, n)
<1>1. /\ t \in [Addrs -> Slot]
      /\ t[a].used /\ t[a].last = n
      /\ \/ t[a].first = n
         \/ trk[a].used /\ t[a].first = trk[a].first /\ n <= trk[a].last + Confirm
      /\ \A x \in Addrs \ {a} :
            t[x].used => \/ t[x] = trk[x]
                         \/ x = ip /\ ~trk[ip].used /\ t[x].first = n /\ t[x].last = n
      /\ \A x \in Addrs \ {a} : ~t[x].used => t[x] = trk[x] \/ t[x] = Free
  BY WatchedSlots DEF IInv
<1>2. now \in Nat /\ trk \in [Addrs -> Slot]
  BY DEF IInv, Types
<1>3. \A x \in Addrs : /\ t[x].first \in Nat /\ t[x].last \in Nat
                       /\ trk[x].first \in Nat /\ trk[x].last \in Nat
  BY <1>1, <1>2 DEF Slot
<1>4. \A x \in Addrs : IF trk[x].used THEN trk[x].first <= trk[x].last /\ trk[x].last <= now
                                      ELSE trk[x] = Free
  BY DEF IInv, Ordered
<1> SUFFICES ASSUME NEW x \in Addrs
             PROVE  IF t[x].used THEN t[x].first <= t[x].last /\ t[x].last <= n
                                 ELSE t[x] = Free
  BY DEF Ordered
<1>5. ~Free.used
  BY DEF Free
<1> QED
  BY <1>1, <1>2, <1>3, <1>4, <1>5

\* A sighting that is no stray one keeps any two addresses apart.
LEMMA WatchedApart ==
    ASSUME IInv, Alone, ip # None,
           NEW a \in Addrs, NEW n \in Nat, now <= n, Resolves(a, n),
           NEW t \in Watched(a, n),
           a \in Occupied \/ t[a].first = trk[a].first
    PROVE  Apart(t, n, Occupied, gone)
<1>1. /\ t \in [Addrs -> Slot]
      /\ t[a].used /\ t[a].last = n
      /\ \/ t[a].first = n
         \/ trk[a].used /\ t[a].first = trk[a].first /\ n <= trk[a].last + Confirm
      /\ \A x \in Addrs \ {a} :
            t[x].used => \/ t[x] = trk[x]
                         \/ x = ip /\ ~trk[ip].used /\ t[x].first = n /\ t[x].last = n
      /\ \A x \in Addrs \ {a} : ~t[x].used => t[x] = trk[x] \/ t[x] = Free
  BY WatchedSlots DEF IInv
<1>2. /\ now \in Nat /\ trk \in [Addrs -> Slot] /\ ip \in Addrs /\ gone \in [Addrs -> Nat]
      /\ 1 <= now /\ \A x \in Addrs : gone[x] <= now
  BY DEF IInv, Types, Clock
<1>3. /\ MaxAge \in Nat /\ Confirm \in Nat /\ MaxAge < Confirm
  BY ConstantTypes
<1>4. \A x \in Addrs : /\ t[x].first \in Nat /\ t[x].last \in Nat
                       /\ trk[x].first \in Nat /\ trk[x].last \in Nat /\ gone[x] \in Nat
  BY <1>1, <1>2 DEF Slot
<1>5. \A x \in Addrs : trk[x].used => trk[x].first <= trk[x].last /\ trk[x].last <= now
  BY DEF IInv, Ordered
<1>6. a \notin Occupied => /\ trk[a].used /\ t[a].first = trk[a].first
                           /\ n <= gone[a] + MaxAge
  <2>1. SUFFICES ASSUME a \notin Occupied PROVE trk[a].used /\ n <= gone[a] + MaxAge
    OBVIOUS
  <2>2. n <= gone[a] + MaxAge
    BY <1>2, <1>3, <1>4, <2>1 DEF Resolves
  <2>3. ~trk[a].used => trk[a].first = 0
    BY DEF IInv, Ordered, Free
  <2>4. t[a].first = trk[a].first
    BY <2>1
  <2> QED
    BY <1>1, <1>2, <1>4, <2>2, <2>3, <2>4
<1>7. t[a].first = n \/ (trk[a].used /\ t[a].first = trk[a].first)
  BY <1>1
<1>8. trk[a].used /\ t[a].first = trk[a].first => n <= trk[a].last + Confirm
  BY <1>1, <1>2, <1>3, <1>4, <1>5
<1>9. Apart(trk, now, Occupied, gone) /\ Single /\ Adrift(trk, ip, now, Occupied, gone)
  BY DEF Alone
<1> DEFINE Either(x, y) == Over(t, x, y, n, Occupied, gone) \/ Over(t, y, x, n, Occupied, gone)
           Old(x) == x # a /\ trk[x].used /\ t[x] = trk[x]
           New(x) == x # a /\ x = ip /\ ~trk[ip].used /\ t[x].first = n /\ t[x].last = n
<1>10. ASSUME NEW x \in Addrs, NEW y \in Addrs, x # y, Old(x), Old(y)
       PROVE  Either(x, y)
  <2>1. Over(trk, x, y, now, Occupied, gone) \/ Over(trk, y, x, now, Occupied, gone)
    BY <1>9, <1>10 DEF Apart, Tracked
  <2>2. Over(trk, x, y, now, Occupied, gone) => Over(t, x, y, n, Occupied, gone)
    BY <1>2, <1>3, <1>4, <1>10 DEF Over, Lapsed
  <2>3. Over(trk, y, x, now, Occupied, gone) => Over(t, y, x, n, Occupied, gone)
    BY <1>2, <1>3, <1>4, <1>10 DEF Over, Lapsed
  <2> QED
    BY <2>1, <2>2, <2>3
<1>11. ASSUME NEW y \in Addrs, Old(y)
       PROVE  Either(a, y)
  <2>1. CASE a \in Occupied /\ t[a].first = n
    <3>1. y \notin Occupied
      BY <1>9, <1>11, <2>1, OnlyOccupied
    <3>2. Over(t, y, a, n, Occupied, gone)
      BY <1>2, <1>3, <1>4, <1>5, <1>11, <2>1, <3>1 DEF Over
    <3> QED
      BY <3>2
  <2>2. CASE trk[a].used /\ t[a].first = trk[a].first
    <3>1. Over(trk, a, y, now, Occupied, gone) \/ Over(trk, y, a, now, Occupied, gone)
      BY <1>9, <1>11, <2>2 DEF Apart, Tracked
    <3>2. Over(trk, y, a, now, Occupied, gone) => Over(t, y, a, n, Occupied, gone)
      BY <1>2, <1>3, <1>4, <1>11, <2>2 DEF Over, Lapsed
    <3>3. n <= trk[a].last + Confirm
      BY <1>8, <2>2
    <3>4. ~Lapsed(trk, a, now, Occupied, gone)
      BY <1>2, <1>3, <1>4, <3>3 DEF Lapsed
    <3>5. ASSUME Over(trk, a, y, now, Occupied, gone)
          PROVE  Over(t, a, y, n, Occupied, gone)
      <4>1. a \notin Occupied /\ gone[a] <= trk[y].first /\ trk[a].first <= trk[y].first
        BY <3>4, <3>5 DEF Over
      <4>2. n <= gone[a] + MaxAge
        BY <1>6, <4>1
      <4> QED
        BY <1>1, <1>3, <1>4, <1>11, <2>2, <4>1, <4>2 DEF Over
    <3> QED
      BY <3>1, <3>2, <3>5
  <2> QED
    BY <1>1, <1>6, <2>1, <2>2
<1>12. ASSUME NEW y \in Addrs, NEW z \in Addrs, Old(y), New(z)
       PROVE  Either(y, z)
  <2>1. y \in Occupied => trk[y].last + Confirm < now
    BY <1>2, <1>9, <1>12 DEF Adrift, Tracked
  <2>2. y \in Occupied => Lapsed(t, y, n, Occupied, gone)
    BY <1>2, <1>3, <1>4, <1>12, <2>1 DEF Lapsed
  <2>3. Over(t, y, z, n, Occupied, gone)
    BY <1>2, <1>3, <1>4, <1>5, <1>12, <2>2 DEF Over
  <2> QED
    BY <2>3
<1>13. ASSUME NEW z \in Addrs, New(z)
       PROVE  Either(a, z)
  <2>1. CASE a \in Occupied /\ t[a].first = n
    <3>1. z \notin Occupied
      BY <1>9, <1>13, <2>1, OnlyOccupied
    <3> QED
      BY <1>2, <1>3, <1>4, <1>13, <2>1, <3>1 DEF Over
  <2>2. CASE trk[a].used /\ t[a].first = trk[a].first
    <3>1. \/ trk[a].last + Confirm < now
          \/ a \notin Occupied /\ gone[a] + MaxAge < now
      BY <1>2, <1>9, <1>13, <2>2 DEF Adrift, Tracked
    <3> QED
      BY <1>2, <1>3, <1>4, <1>6, <1>8, <2>2, <3>1
  <2> QED
    BY <1>1, <1>6, <2>1, <2>2
<1>14. \A x \in Tracked(t) : x \in Addrs /\ (x = a \/ Old(x) \/ New(x))
  <2> SUFFICES ASSUME NEW x \in Tracked(t), x # a PROVE Old(x) \/ New(x)
    BY DEF Tracked
  <2>1. x \in Addrs /\ t[x].used
    BY DEF Tracked
  <2> QED
    BY <1>1, <2>1
<1> HIDE DEF Old, New
<1>15. \A x, y : Either(x, y) => Either(y, x)
  OBVIOUS
<1>16. ASSUME NEW x \in Tracked(t), NEW y \in Tracked(t), x # y
       PROVE  Either(x, y)
  <2>1. x \in Addrs /\ y \in Addrs /\ ~(New(x) /\ New(y))
    BY <1>14, <1>16 DEF New
  <2> HIDE DEF Either
  <2> QED
    BY <1>10, <1>11, <1>12, <1>13, <1>14, <1>15, <1>16, <2>1
<1> QED
  BY <1>16 DEF Apart

\* The address that holds the entry after a sighting is the one that appeared
\* last.
LEMMA JudgedLatest ==
    ASSUME IInv, ip # None,
           NEW a \in Addrs, NEW n \in Nat, now <= n, NEW t \in Watched(a, n), Judges(t, a)
    PROVE  Latest(trk', ip')
<1>1. /\ t \in [Addrs -> Slot]
      /\ t[a].used /\ t[a].last = n
      /\ \/ t[a].first = n
         \/ trk[a].used /\ t[a].first = trk[a].first
      /\ \A x \in Addrs \ {a} :
            t[x].used => \/ t[x] = trk[x]
                         \/ x = ip /\ ~trk[ip].used /\ t[x].first = n /\ t[x].last = n
      /\ ip # a /\ ~t[ip].used => t[a].first = n
  BY WatchedSlots DEF IInv
<1>2. now \in Nat /\ trk \in [Addrs -> Slot] /\ ip \in Addrs
  BY DEF IInv, Types
<1>3. \A x \in Addrs : /\ t[x].first \in Nat /\ t[x].last \in Nat
                       /\ trk[x].first \in Nat /\ trk[x].last \in Nat
  BY <1>1, <1>2 DEF Slot
<1>4. \A x \in Addrs : t[x].used => t[x].first <= t[x].last /\ t[x].last <= n
  BY WatchedOrdered DEF Ordered
<1>5. \A x \in Addrs : trk[x].used => trk[x].first <= trk[x].last /\ trk[x].last <= now
  BY DEF IInv, Ordered
<1>6. trk[ip].used => \A x \in Addrs : trk[x].used =>
                         \/ trk[x].first < trk[ip].first
                         \/ trk[x].first = trk[ip].first /\ trk[x].last <= trk[ip].last
  BY <1>2 DEF IInv, Latest, Tracked
<1>7. CASE \A x \in Addrs : ~trk'[x].used
  BY <1>7 DEF Latest, Tracked
<1>8. ASSUME NEW j \in Addrs, ip' = j, t[j].used,
             \A x \in Addrs : trk'[x].first = t[x].first /\ trk'[x].last = t[x].last
                              /\ trk'[x].used = t[x].used,
             \A x \in Addrs : t[x].used => \/ t[x].first < t[j].first
                                           \/ t[x].first = t[j].first /\ t[x].last <= t[j].last
      PROVE  Latest(trk', ip')
  BY <1>8 DEF Latest, Tracked
<1>9. CASE ip' = a /\ ip # a
  <2>1. /\ \A x \in Addrs : trk'[x].first = t[x].first /\ trk'[x].last = t[x].last
                            /\ trk'[x].used = t[x].used
        /\ t[ip].used => t[ip].first <= t[a].first
    BY <1>1, <1>9, JudgedSlots DEF IInv
  <2>2. \A x \in Addrs : t[x].used => t[x].first <= t[a].first
    BY <1>1, <1>2, <1>3, <1>4, <1>5, <1>6, <1>9, <2>1
  <2>3. \A x \in Addrs : t[x].used => t[x].last <= t[a].last
    BY <1>1, <1>4
  <2> QED
    BY <1>1, <1>3, <1>8, <1>9, <2>1, <2>2, <2>3
<1>10. CASE /\ ip' = ip
            /\ \A x \in Addrs : trk'[x].first = t[x].first /\ trk'[x].last = t[x].last
                                /\ trk'[x].used = t[x].used
            /\ ip # a => t[ip].used /\ ~(t[ip].first <= t[a].first)
  <2>1. ASSUME NEW x \in Addrs, t[x].used
        PROVE  \/ t[x].first < t[ip].first
               \/ t[x].first = t[ip].first /\ t[x].last <= t[ip].last
    <3>1. CASE x = ip
      BY <1>2, <1>3, <3>1
    <3>2. CASE ip = a /\ x # a
      <4>1. trk[x].used /\ t[x] = trk[x]
        BY <1>1, <2>1, <3>2
      <4>2. t[a].first # n => /\ trk[a].used /\ t[a].first = trk[a].first
                              /\ trk[a].last <= n
        BY <1>1, <1>2, <1>3, <1>5
      <4> QED
        BY <1>1, <1>2, <1>3, <1>4, <1>6, <2>1, <3>2, <4>1, <4>2
    <3>3. CASE ip # a /\ x = a
      BY <1>1, <1>2, <1>3, <1>10, <3>3
    <3>4. CASE ip # a /\ x # a /\ x # ip
      <4>1. trk[x].used /\ t[x] = trk[x]
        BY <1>1, <2>1, <3>4
      <4>2. \/ trk[ip].used /\ t[ip] = trk[ip]
            \/ t[ip].first = n /\ t[ip].last = n
        BY <1>1, <1>2, <1>10, <3>4
      <4> QED
        BY <1>2, <1>3, <1>4, <1>6, <2>1, <4>1, <4>2
    <3> QED
      BY <3>1, <3>2, <3>3, <3>4
  <2>2. t[ip].used
    BY <1>1, <1>10
  <2> QED
    BY <1>2, <1>8, <1>10, <2>1, <2>2
<1>11. ASSUME trk' = [x \in Addrs |-> Free]
       PROVE  \A x \in Addrs : ~trk'[x].used
  BY <1>11 DEF Free
<1>12. \/ trk' = [x \in Addrs |-> Free]
       \/ /\ \A x \in Addrs : trk'[x].first = t[x].first /\ trk'[x].last = t[x].last
                              /\ trk'[x].used = t[x].used
          /\ \/ ip' = a /\ ip # a
             \/ ip' = ip /\ (ip # a => t[ip].used /\ ~(t[ip].first <= t[a].first))
  <2>1. Types /\ ip # None /\ t \in [Addrs -> Slot] /\ Judges(t, a)
    BY <1>1 DEF IInv
  <2> HIDE <1>1
  <2>2. \/ trk' = [x \in Addrs |-> Free]
        \/ /\ \A x \in Addrs : /\ trk'[x].first = t[x].first
                               /\ trk'[x].last = t[x].last
                               /\ trk'[x].used = t[x].used
                               /\ ~t[x].used /\ x # a => trk'[x] = t[x]
           /\ \/ /\ ip' = a /\ ip # a
                 /\ t[ip].used => t[ip].first <= t[a].first
              \/ /\ ip' = ip
                 /\ ip # a => t[ip].used /\ ~(t[ip].first <= t[a].first)
    BY <2>1, JudgedSlots
  <2> QED
    BY <2>2
<1>13. CASE trk' = [x \in Addrs |-> Free]
  BY <1>7, <1>11, <1>13
<1>14. CASE trk' # [x \in Addrs |-> Free] /\ ~(ip' = a /\ ip # a)
  <2>1. /\ ip' = ip
        /\ \A x \in Addrs : trk'[x].first = t[x].first /\ trk'[x].last = t[x].last
                            /\ trk'[x].used = t[x].used
        /\ ip # a => t[ip].used /\ ~(t[ip].first <= t[a].first)
    BY <1>12, <1>14
  <2> QED
    BY <1>10, <2>1
<1> QED
  BY <1>9, <1>13, <1>14

\* A host that is alone and that is sighted takes the entry with it.
LEMMA SightedIsFollowed ==
    ASSUME IInv, Alone, ip # None,
           NEW a \in Occupied, a \in Addrs, NEW n \in Nat, now <= n, Resolves(a, n),
           NEW t \in Watched(a, n), Judges(t, a)
    PROVE  ip' = a
<1>1. /\ t \in [Addrs -> Slot] /\ t[a].used /\ t[a].last = n
  BY WatchedSlots DEF IInv
<1>2. Apart(t, n, Occupied, gone) /\ Ordered(t, n)
  BY WatchedApart, WatchedOrdered
<1>3. ~Concurrent(t, a)
  BY <1>1, <1>2, ApartIsNotConcurrent
<1>4. SUFFICES ASSUME ip' = ip, ip # a PROVE FALSE
  BY <1>1, <1>3, JudgedSlots DEF IInv
<1>5. ip \in Addrs /\ t[ip].used /\ ~(t[ip].first <= t[a].first)
  BY <1>1, <1>3, <1>4, JudgedSlots DEF IInv, Types
<1>6. Over(t, a, ip, n, Occupied, gone) \/ Over(t, ip, a, n, Occupied, gone)
  BY <1>1, <1>2, <1>4, <1>5 DEF Apart, Tracked
<1>7. ~Over(t, a, ip, n, Occupied, gone)
  BY <1>1, ConstantTypes DEF Over, Lapsed
<1> QED
  BY <1>5, <1>6, <1>7 DEF Over

-----------------------------------------------------------------------------
(* Every step keeps the invariant.                                         *)

\* A device the tracker does not watch is sighted.
LEMMA SightedPlainKeeps ==
    ASSUME IInv, NEW a \in Addrs, NEW n \in {now, now + 1}, Sighted(a, n),
           Plain(a), UNCHANGED stray
    PROVE  IInv'
<1>1. /\ Types /\ Clock /\ Idle /\ Ordered(trk, now) /\ Latest(trk, ip)
      /\ Quiet => Alone
  BY DEF IInv
<1>0. n < (sweep + 1) * Period
  BY <1>1, SightedInTime
<1>2. /\ now' = n /\ seen' = seen \cup {a} /\ n < (sweep + 1) * Period
      /\ since' = IF ip' = ip THEN since ELSE n
      /\ sweep' = sweep /\ at' = at /\ gone' = gone /\ steady' = steady
      /\ crowd' = crowd /\ back' = back /\ stray' = stray
      /\ Resolves(a, n)
  BY <1>0 DEF Sighted, world
<1>3. /\ trk' = trk /\ shared' = shared
      /\ ip = None \/ (ip = a /\ Tracked(trk) = {}) \/ shared
      /\ ip' = IF ip = None THEN a ELSE ip
  BY DEF Plain
<1>4. now \in Nat /\ n \in Nat /\ now <= n
  BY <1>1 DEF Types
<1>5. Occupied' = Occupied /\ Tracked(trk') = Tracked(trk)
  BY <1>2, <1>3 DEF Occupied
<1>6. Tracked(trk) = {} \/ ~(ip = None \/ shared)
  BY <1>1 DEF Idle
<1>7. Tracked(trk) = {}
  BY <1>3, <1>6
<1>8. \A x \in Addrs : ~trk[x].used
  BY <1>7 DEF Tracked
<1>9. ip' # None /\ ip' \in Addrs
  BY <1>1, <1>3, ConstantTypes DEF Types
<1>10. Types'
  BY <1>1, <1>2, <1>3, <1>4, <1>9 DEF Types
<1>11. Clock'
  <2>1. (sweep + 1) * Period = sweep * Period + Period /\ sweep * Period \in Nat
    BY <1>1, NextSweep DEF Types
  <2> QED
    BY <1>1, <1>2, <1>4, <2>1, ConstantTypes DEF Clock, Types
<1>12. Idle'
  BY <1>5, <1>7 DEF Idle
<1>13. Ordered(trk', now')
  BY <1>1, <1>3, <1>8 DEF Ordered
<1>14. Latest(trk', ip')
  BY <1>3, <1>8, <1>9 DEF Latest
<1>15. ASSUME Quiet' PROVE Alone'
  <2>1. Alone
    BY <1>1, <1>2, <1>15 DEF Quiet
  <2>2. ~shared' /\ Single' /\ Left'
    BY <1>2, <1>3, <1>5, <2>1 DEF Alone, Single, Left
  <2>3. a \in Occupied \/ gone[a] # Never
    BY <1>2 DEF Resolves
  <2>4. Visited'
    BY <1>2, <1>3, <1>5, <1>8, <2>1, <2>3 DEF Alone, Visited
  <2>5. Silent(trk', Occupied', gone', since') /\ Apart(trk', now', Occupied', gone')
    BY <1>5, <1>7 DEF Silent, Apart
  <2>6. Adrift(trk', ip', now', Occupied', gone')
    BY <1>5, <1>7 DEF Adrift
  <2>7. Home'
    <3> SUFFICES ASSUME NEW b \in Occupied, ip' # b
                 PROVE  /\ sweep * Period <= steady[b] + MaxAge + Period
                        /\ b \in seen' => sweep * Period <= steady[b] + MaxAge
      BY <1>2, <1>5 DEF Home
    <3>1. b \in Addrs
      BY <1>1 DEF Occupied, Types
    <3>2. CASE ip = None
      <4>1. a \notin Occupied
        BY <1>3, <2>1, <3>2, OnlyOccupied DEF Alone
      <4>2. n - gone[a] <= MaxAge /\ gone[a] <= steady[b]
        BY <1>2, <2>1, <4>1 DEF Resolves, Alone, Left
      <4> QED
        BY <1>1, <1>4, <3>1, <4>2, NextSweep, ConstantTypes DEF Clock, Types
    <3>3. CASE ip # None
      <4>1. ip = a /\ a # b
        BY <1>3, <2>1, <3>3 DEF Alone
      <4> QED
        BY <1>2, <2>1, <3>3, <4>1 DEF Alone, Home
    <3> QED
      BY <3>2, <3>3
  <2> QED
    BY <2>2, <2>4, <2>5, <2>6, <2>7 DEF Alone
<1> QED
  BY <1>10, <1>11, <1>12, <1>13, <1>14, <1>15 DEF IInv

\* A device the tracker watches is sighted.
LEMMA SightedWatchedKeeps ==
    ASSUME IInv, NEW a \in Addrs, NEW n \in {now, now + 1}, Sighted(a, n),
           ip # None, ~shared, NEW t \in Watched(a, n), Judges(t, a),
           stray' = (stray \/ (a \notin Occupied /\ t[a].first # trk[a].first))
    PROVE  IInv'
<1>1. /\ Types /\ Clock /\ Idle /\ Ordered(trk, now) /\ Latest(trk, ip)
      /\ Quiet => Alone
  BY DEF IInv
<1>0. n < (sweep + 1) * Period
  BY <1>1, SightedInTime
<1>2. /\ now' = n /\ seen' = seen \cup {a} /\ n < (sweep + 1) * Period
      /\ since' = IF ip' = ip THEN since ELSE n
      /\ sweep' = sweep /\ at' = at /\ gone' = gone /\ steady' = steady
      /\ crowd' = crowd /\ back' = back
      /\ Resolves(a, n)
  BY <1>0 DEF Sighted, world
<1>3. now \in Nat /\ n \in Nat /\ now <= n /\ ip \in Addrs
  BY <1>1 DEF Types
<1>4. Occupied' = Occupied
  BY <1>2 DEF Occupied
<1>5. /\ t \in [Addrs -> Slot] /\ t[a].used /\ t[a].last = n
      /\ \A x \in Addrs \ {a} :
            t[x].used => \/ t[x] = trk[x]
                         \/ /\ x = ip /\ ~trk[ip].used
                            /\ t[x].first = n /\ t[x].last = n
      /\ ip # a /\ ~t[ip].used => t[a].first = n
  BY <1>1, <1>3, WatchedSlots
<1> DEFINE Cleared == trk' = [x \in Addrs |-> Free] /\ shared' = TRUE /\ ip' = ip
           Kept == /\ trk' \in [Addrs -> Slot] /\ shared' = shared
                   /\ \A x \in Addrs : /\ trk'[x].first = t[x].first
                                       /\ trk'[x].last = t[x].last
                                       /\ trk'[x].used = t[x].used
                                       /\ ~t[x].used /\ x # a => trk'[x] = t[x]
<1>6. /\ Cleared \/ Kept
      /\ ~Concurrent(t, a) => Kept
      /\ ip' = a \/ (ip' = ip /\ (Cleared \/ ip = a \/ t[ip].used))
  <2>1. Types /\ t \in [Addrs -> Slot]
    BY <1>1, <1>5
  <2> HIDE <1>1, <1>5
  <2> QED
    BY <2>1, JudgedSlots
<1>7. Cleared => Tracked(trk') = {}
  BY DEF Tracked, Free
<1>8. Kept => Tracked(trk') = Tracked(t)
  BY DEF Tracked
<1>9. ip' \in Addrs /\ ip' # None
  BY <1>3, <1>6, ConstantTypes
<1>10. Types'
  <2>1. trk' \in [Addrs -> Slot] /\ shared' \in BOOLEAN
    BY <1>1, <1>6, FreeIsSlot DEF Types
  <2>2. stray' \in BOOLEAN
    BY <1>1
  <2> HIDE DEF Cleared, Kept
  <2> QED
    BY <1>1, <1>2, <1>3, <1>9, <2>1, <2>2 DEF Types
<1>11. Clock'
  <2>1. (sweep + 1) * Period = sweep * Period + Period /\ sweep * Period \in Nat
    BY <1>1, NextSweep DEF Types
  <2> HIDE DEF Cleared, Kept
  <2> QED
    BY <1>1, <1>2, <1>3, <2>1, ConstantTypes DEF Clock, Types
<1>12. Idle'
  BY <1>6, <1>7, <1>9 DEF Idle
<1>13. Ordered(trk', now')
  <2>1. Ordered(t, n)
    BY <1>3, WatchedOrdered
  <2>2. CASE Cleared
    BY <2>2 DEF Ordered, Free
  <2>3. CASE Kept
    BY <1>2, <1>5, <2>1, <2>3 DEF Ordered
  <2> QED
    BY <1>6, <2>2, <2>3
<1>14. Latest(trk', ip')
  BY <1>3, JudgedLatest
<1>15. ASSUME Quiet' PROVE Alone'
  <2>1. Alone /\ (a \in Occupied \/ t[a].first = trk[a].first)
    BY <1>1, <1>2, <1>15 DEF Quiet
  <2>2. Apart(t, n, Occupied, gone) /\ Ordered(t, n)
    BY <1>2, <1>3, <2>1, WatchedApart, WatchedOrdered
  <2>3. Kept
    BY <1>5, <1>6, <2>2, ApartIsNotConcurrent
  <2>4. ip' = a \/ (ip' = ip /\ t[ip].used)
    BY <1>5, <1>6, <2>3
  <2>5. a \in Occupied => ip' = a
    BY <1>2, <1>3, <2>1, SightedIsFollowed
  <2>6. /\ \A x \in Addrs : trk'[x].first = t[x].first /\ trk'[x].last = t[x].last
                            /\ trk'[x].used = t[x].used
        /\ Tracked(trk') = Tracked(t)
        /\ ~shared'
    BY <1>8, <2>1, <2>3 DEF Alone
  <2> HIDE DEF Cleared, Kept
  <2>7. a \in Occupied \/ (gone[a] # Never /\ n <= gone[a] + MaxAge)
    BY <1>1, <1>2, <1>3, ConstantTypes DEF Resolves, Types
  <2>8. Single' /\ Left'
    BY <1>2, <1>4, <2>1 DEF Alone, Single, Left
  <2>9. Visited'
    BY <1>2, <1>3, <1>4, <1>5, <2>1, <2>4, <2>6, <2>7 DEF Alone, Visited
  <2>10. Silent(trk', Occupied', gone', since')
    <3> SUFFICES ASSUME NEW x \in Tracked(t) \ Occupied
                 PROVE  t[x].last <= gone[x] + MaxAge \/ t[x].last <= since'
      BY <1>2, <1>4, <2>6 DEF Silent, Tracked
    <3>1. x \in Addrs /\ t[x].used
      BY DEF Tracked
    <3>2. CASE x = a
      BY <1>5, <2>7, <3>2
    <3>3. CASE x # a /\ t[x] = trk[x]
      <4>1. trk[x].last <= gone[x] + MaxAge \/ trk[x].last <= since
        BY <2>1, <3>1, <3>3 DEF Alone, Silent, Tracked
      <4>2. since <= since' /\ since \in Nat /\ since' \in Nat /\ trk[x].last \in Nat
        BY <1>1, <1>2, <1>3, <3>1 DEF Clock, Types, Slot
      <4> QED
        BY <3>3, <4>1, <4>2
    <3>4. CASE x # a /\ x = ip /\ ~trk[ip].used /\ t[x].last = n
      <4>1. ip' = a
        <5>1. SUFFICES ASSUME a \notin Occupied PROVE FALSE
          BY <2>5
        <5>0. t[a].first = trk[a].first
          BY <2>1, <5>1
        <5>2. trk[a].used
          <6>1. SUFFICES ASSUME ~trk[a].used PROVE FALSE
            OBVIOUS
          <6>2. trk[a].first = 0
            BY <1>1, <6>1 DEF Ordered, Free
          <6>3. t[a].first = n
            BY <1>1, <1>3, <6>1, WatchedSlots
          <6> QED
            BY <1>1, <1>3, <5>0, <6>2, <6>3 DEF Clock
        <5>3. trk[a].last + Confirm < now \/ gone[a] + MaxAge < now
          BY <2>1, <3>4, <5>2 DEF Alone, Adrift, Tracked
        <5>4. t[a].first = n \/ n <= trk[a].last + Confirm
          BY <1>1, <1>3, WatchedSlots
        <5>5. trk[a].first <= trk[a].last
          BY <1>1, <5>2 DEF Ordered
        <5>6. trk[a].first \in Nat /\ trk[a].last \in Nat /\ gone[a] \in Nat
          BY <1>1 DEF Types, Slot
        <5> QED
          BY <1>3, <2>7, <5>0, <5>1, <5>3, <5>4, <5>5, <5>6, ConstantTypes
      <4> QED
        BY <1>2, <1>3, <3>4, <4>1
    <3> QED
      BY <1>5, <3>1, <3>2, <3>3, <3>4
  <2>11. Apart(trk', now', Occupied', gone')
    <3>1. \A x \in Tracked(t), y \in Tracked(t) :
             Over(t, x, y, n, Occupied, gone) => Over(trk', x, y, n, Occupied, gone)
      BY <2>6 DEF Over, Lapsed, Tracked
    <3> QED
      BY <1>2, <1>4, <2>2, <2>6, <3>1 DEF Apart
  <2>12. Adrift(trk', ip', now', Occupied', gone')
    BY <1>3, <1>5, <2>4, <2>6 DEF Adrift
  <2>13. Home'
    <3> SUFFICES ASSUME NEW b \in Occupied, ip' # b
                 PROVE  /\ sweep * Period <= steady[b] + MaxAge + Period
                        /\ b \in seen' => sweep * Period <= steady[b] + MaxAge
      BY <1>2, <1>4 DEF Home
    <3>1. b \in Addrs /\ a # b
      BY <1>1, <2>5 DEF Occupied, Types
    <3>2. CASE ip = b
      <4>1. a \notin Occupied /\ gone[a] <= steady[b]
        BY <2>1, <3>1, OnlyOccupied DEF Alone, Left
      <4> QED
        BY <1>1, <1>3, <2>7, <3>1, <4>1, NextSweep, ConstantTypes DEF Clock, Types
    <3>3. CASE ip # b
      BY <1>2, <2>1, <3>1, <3>3 DEF Alone, Home
    <3> QED
      BY <3>2, <3>3
  <2> QED
    BY <2>6, <2>8, <2>9, <2>10, <2>11, <2>12, <2>13 DEF Alone
<1> QED
  BY <1>10, <1>11, <1>12, <1>13, <1>14, <1>15 DEF IInv

\* A sweep ends.
LEMMA SweepEndKeeps ==
    ASSUME IInv, SweepEnd
    PROVE  IInv'
<1>1. /\ Types /\ Clock /\ Idle /\ Ordered(trk, now) /\ Latest(trk, ip)
      /\ Quiet => Alone
  BY DEF IInv
<1> DEFINE paid == [a \in Addrs |-> IF a \in Due THEN [trk[a] EXCEPT !.from = None] ELSE trk[a]]
<1>2. /\ trk' = [a \in Addrs |-> IF paid[a].from = None /\ now - paid[a].last > Expire
                                 THEN Free ELSE paid[a]]
      /\ steady' = [a \in Addrs |-> IF a \in Occupied \cap seen THEN steady[a] ELSE now]
      /\ sweep' = sweep + 1 /\ now' = (sweep + 1) * Period /\ seen' = {}
      /\ ip' = ip /\ shared' = shared /\ at' = at /\ gone' = gone
      /\ crowd' = crowd /\ back' = back /\ stray' = stray /\ since' = since
  BY DEF SweepEnd, entry, world
<1>3. /\ (sweep + 1) * Period = sweep * Period + Period /\ sweep * Period \in Nat
      /\ ((sweep + 1) + 1) * Period = (sweep + 1) * Period + Period
  BY <1>1, NextSweep DEF Types
<1>4. /\ now \in Nat /\ now' \in Nat /\ now < now' /\ sweep \in Nat /\ ip \in Addrs \cup {None}
      /\ \A a \in Addrs : /\ trk[a] \in Slot /\ gone[a] \in Nat /\ steady[a] \in Nat
                          /\ trk[a].first \in Nat /\ trk[a].last \in Nat
  BY <1>1, <1>2, <1>3, ConstantTypes DEF Types, Clock, Slot
<1>5. Occupied' = Occupied
  BY <1>2 DEF Occupied
<1>6. ASSUME NEW a \in Addrs
      PROVE  /\ paid[a] \in Slot
             /\ paid[a].first = trk[a].first /\ paid[a].last = trk[a].last
             /\ paid[a].used = trk[a].used
             /\ ~trk[a].used => paid[a] = trk[a]
  <2>1. trk[a] \in Slot
    BY <1>4
  <2>2. ~trk[a].used => a \notin Due
    BY DEF Due, Tracked
  <2> QED
    BY <2>1, <2>2 DEF Slot
<1> HIDE DEF paid
<1>7. ASSUME NEW a \in Addrs
      PROVE  /\ trk'[a] \in Slot
             /\ \/ trk'[a] = Free /\ (~trk[a].used \/ trk[a].last + Expire < now)
                \/ /\ trk'[a].first = trk[a].first /\ trk'[a].last = trk[a].last
                   /\ trk'[a].used = trk[a].used
                   /\ ~trk[a].used => trk'[a] = trk[a]
  <2>1. paid[a].last = trk[a].last /\ trk[a].last \in Nat
    BY <1>4, <1>6
  <2>2. CASE paid[a].from = None /\ now - paid[a].last > Expire
    BY <1>2, <1>4, <2>1, <2>2, FreeIsSlot, ConstantTypes
  <2>3. CASE ~(paid[a].from = None /\ now - paid[a].last > Expire)
    BY <1>2, <1>6, <2>3
  <2> QED
    BY <2>2, <2>3
<1>8. \A a \in Tracked(trk') : /\ a \in Tracked(trk) /\ a \in Addrs
                               /\ trk'[a].first = trk[a].first
                               /\ trk'[a].last = trk[a].last
  BY <1>7 DEF Tracked, Free
<1>9. Types'
  <2>1. trk' \in [Addrs -> Slot]
    BY <1>2, <1>7
  <2>2. steady' \in [Addrs -> Nat]
    BY <1>2, <1>4
  <2> QED
    BY <1>1, <1>2, <1>4, <2>1, <2>2 DEF Types
<1>10. Clock'
  <2>1. \A a \in Addrs : steady'[a] <= now
    BY <1>1, <1>2, <1>4 DEF Clock
  <2>2. \A a \in Addrs : gone'[a] <= now' /\ steady'[a] <= now'
    <3>1. \A a \in Addrs : steady'[a] \in Nat
      BY <1>2, <1>4
    <3> QED
      BY <1>1, <1>2, <1>4, <2>1, <3>1 DEF Clock
  <2>3. 1 <= now' /\ sweep' * Period <= now' /\ now' < sweep' * Period + Period /\ since' <= now'
    BY <1>1, <1>2, <1>3, <1>4, ConstantTypes DEF Clock, Types
  <2> QED
    BY <2>2, <2>3 DEF Clock
<1>11. Idle'
  BY <1>1, <1>2, <1>8 DEF Idle
<1>12. Ordered(trk', now')
  <2> SUFFICES ASSUME NEW a \in Addrs
               PROVE  IF trk'[a].used THEN trk'[a].first <= trk'[a].last /\ trk'[a].last <= now'
                                      ELSE trk'[a] = Free
    BY DEF Ordered
  <2>1. IF trk[a].used THEN trk[a].first <= trk[a].last /\ trk[a].last <= now ELSE trk[a] = Free
    BY <1>1 DEF Ordered
  <2>2. ~Free.used
    BY DEF Free
  <2> QED
    BY <1>4, <1>7, <2>1, <2>2
<1>13. Latest(trk', ip')
  <2> SUFFICES ASSUME ip # None, trk'[ip].used, NEW a \in Tracked(trk')
               PROVE  \/ trk'[a].first < trk'[ip].first
                      \/ trk'[a].first = trk'[ip].first /\ trk'[a].last <= trk'[ip].last
    BY <1>2 DEF Latest
  <2>1. ip \in Addrs /\ ip \in Tracked(trk')
    BY <1>4 DEF Tracked
  <2>2. trk[ip].used
    BY <1>8, <2>1 DEF Tracked
  <2> QED
    BY <1>1, <1>8, <2>1, <2>2 DEF Latest
<1>14. ASSUME Quiet' PROVE Alone'
  <2>1. Alone
    BY <1>1, <1>2, <1>14 DEF Quiet
  <2>2. ~shared' /\ Single'
    BY <1>2, <2>1 DEF Alone, Single
  <2>3. Visited'
    BY <1>2, <1>5, <1>8, <2>1 DEF Alone, Visited, Tracked
  <2>4. Left'
    BY <1>1, <1>2, <1>4, <1>5, <2>1 DEF Alone, Left, Occupied, Clock, Types
  <2>5. Home'
    <3> SUFFICES ASSUME NEW b \in Occupied, ip # None, ip # b
                 PROVE  sweep' * Period <= steady'[b] + MaxAge + Period
      BY <1>2, <1>5 DEF Home
    <3>1. b \in Addrs
      BY <1>1 DEF Occupied, Types
    <3>2. CASE b \in seen
      <4>1. sweep * Period <= steady[b] + MaxAge /\ steady'[b] = steady[b]
        BY <1>2, <2>1, <3>1, <3>2 DEF Alone, Home
      <4> QED
        BY <1>2, <1>3, <1>4, <3>1, <4>1, ConstantTypes
    <3>3. CASE b \notin seen
      <4>1. steady'[b] = now /\ sweep * Period <= now
        BY <1>1, <1>2, <3>1, <3>3 DEF Clock
      <4> QED
        BY <1>2, <1>3, <1>4, <4>1, ConstantTypes
    <3> QED
      BY <3>2, <3>3
  <2>6. Silent(trk', Occupied', gone', since')
    BY <1>2, <1>5, <1>8, <2>1 DEF Alone, Silent
  <2>7. Apart(trk', now', Occupied', gone')
    <3>1. \A a, x \in Tracked(trk') :
             Over(trk, a, x, now, Occupied, gone) => Over(trk', a, x, now', Occupied, gone)
      BY <1>4, <1>8, ConstantTypes DEF Over, Lapsed
    <3> QED
      BY <1>2, <1>5, <1>8, <2>1, <3>1 DEF Alone, Apart
  <2>8. Adrift(trk', ip', now', Occupied', gone')
    <3> SUFFICES ASSUME ip # None, ~trk'[ip].used, NEW a \in Tracked(trk')
                 PROVE  \/ trk[a].last + Confirm < now'
                        \/ a \notin Occupied /\ gone[a] + MaxAge < now'
      BY <1>2, <1>5, <1>8 DEF Adrift
    <3>1. a \in Tracked(trk) /\ a \in Addrs /\ a # ip /\ ip \in Addrs
      BY <1>4, <1>8 DEF Tracked
    <3>2. CASE ~trk[ip].used
      <4>1. trk[a].last + Confirm < now \/ (a \notin Occupied /\ gone[a] + MaxAge < now)
        BY <2>1, <3>1, <3>2 DEF Alone, Adrift
      <4> QED
        BY <1>4, <3>1, <4>1, ConstantTypes
    <3>3. CASE trk[ip].used
      <4>1. trk[ip].last + Expire < now /\ trk[ip].first <= trk[ip].last
        BY <1>1, <1>7, <3>1, <3>3 DEF Ordered
      <4>2. \/ trk[a].first < trk[ip].first
            \/ trk[a].first = trk[ip].first /\ trk[a].last <= trk[ip].last
        BY <1>1, <3>1, <3>3 DEF Latest
      <4>3. Over(trk, a, ip, now, Occupied, gone) \/ Over(trk, ip, a, now, Occupied, gone)
        BY <2>1, <3>1, <3>3 DEF Alone, Apart, Tracked
      <4>4. CASE Over(trk, ip, a, now, Occupied, gone)
        BY <1>4, <3>1, <4>1, <4>2, <4>4, ConstantTypes DEF Over
      <4>5. CASE a \notin Occupied /\ gone[a] <= trk[ip].first
        BY <1>4, <3>1, <4>1, <4>5, ConstantTypes
      <4>6. CASE Lapsed(trk, a, now, Occupied, gone)
        <5>1. gone[a] <= now
          BY <1>1, <3>1 DEF Clock
        <5> QED
          BY <1>4, <3>1, <4>6, <5>1, ConstantTypes DEF Lapsed
      <4> QED
        BY <4>3, <4>4, <4>5, <4>6 DEF Over
    <3> QED
      BY <3>2, <3>3
  <2> QED
    BY <2>2, <2>3, <2>4, <2>5, <2>6, <2>7, <2>8 DEF Alone
<1> QED
  BY <1>9, <1>10, <1>11, <1>12, <1>13, <1>14 DEF IInv

\* Time passes.
LEMMA PassesKeeps ==
    ASSUME IInv, Passes
    PROVE  IInv'
<1>1. /\ Types /\ Clock /\ Idle /\ Ordered(trk, now) /\ Latest(trk, ip)
      /\ Quiet => Alone
  BY DEF IInv
<1>2. /\ now' = now + 1 /\ now + 1 < (sweep + 1) * Period
      /\ sweep' = sweep /\ trk' = trk /\ ip' = ip /\ shared' = shared
      /\ at' = at /\ gone' = gone /\ steady' = steady /\ seen' = seen /\ crowd' = crowd
      /\ since' = since /\ back' = back /\ stray' = stray
  BY DEF Passes, entry, world, history
<1>3. /\ now \in Nat /\ now' \in Nat /\ now < now' /\ sweep \in Nat /\ since \in Nat
      /\ \A a \in Addrs : /\ gone[a] \in Nat /\ steady[a] \in Nat
                          /\ trk[a].first \in Nat /\ trk[a].last \in Nat
  BY <1>1, <1>2 DEF Types, Slot
<1>4. Occupied' = Occupied
  BY <1>2 DEF Occupied
<1>5. Types'
  BY <1>1, <1>2, <1>3 DEF Types
<1>6. Clock'
  <2>1. \A a \in Addrs : gone[a] <= now' /\ steady[a] <= now'
    BY <1>1, <1>3 DEF Clock
  <2>2. 1 <= now' /\ sweep * Period <= now' /\ since <= now' /\ now' < sweep * Period + Period
    BY <1>1, <1>2, <1>3, NextSweep, ConstantTypes DEF Clock
  <2> QED
    BY <1>2, <2>1, <2>2 DEF Clock
<1>7. Idle' /\ Latest(trk', ip')
  BY <1>1, <1>2 DEF Idle
<1>8. Ordered(trk', now')
  <2> SUFFICES ASSUME NEW a \in Addrs
               PROVE  IF trk[a].used THEN trk[a].first <= trk[a].last /\ trk[a].last <= now'
                                     ELSE trk[a] = Free
    BY <1>2 DEF Ordered
  <2>1. IF trk[a].used THEN trk[a].first <= trk[a].last /\ trk[a].last <= now
                       ELSE trk[a] = Free
    BY <1>1 DEF Ordered
  <2> QED
    BY <1>3, <2>1
<1>9. ASSUME Quiet' PROVE Alone'
  <2>1. Alone
    BY <1>1, <1>2, <1>9 DEF Quiet
  <2>2. ~shared' /\ Single' /\ Visited' /\ Left' /\ Home' /\ Silent(trk', Occupied', gone', since')
    BY <1>2, <1>4, <2>1 DEF Alone, Single, Visited, Left, Home
  <2>3. \A a \in Tracked(trk) :
           Lapsed(trk, a, now, Occupied, gone) => Lapsed(trk, a, now', Occupied, gone)
    BY <1>3, ConstantTypes DEF Lapsed, Tracked
  <2>4. Apart(trk', now', Occupied', gone')
    BY <1>2, <1>4, <2>1, <2>3 DEF Alone, Apart, Over
  <2>5. Adrift(trk', ip', now', Occupied', gone')
    <3> SUFFICES ASSUME ip # None, ~trk[ip].used, NEW a \in Tracked(trk)
                 PROVE  \/ trk[a].last + Confirm < now'
                        \/ a \notin Occupied /\ gone[a] + MaxAge < now'
      BY <1>2, <1>4 DEF Adrift
    <3>1. trk[a].last + Confirm < now \/ (a \notin Occupied /\ gone[a] + MaxAge < now)
      BY <2>1 DEF Alone, Adrift
    <3> QED
      BY <1>3, <3>1, ConstantTypes DEF Tracked
  <2> QED
    BY <2>2, <2>4, <2>5 DEF Alone
<1> QED
  BY <1>5, <1>6, <1>7, <1>8, <1>9 DEF IInv

\* The device is forgotten.
LEMMA ForgetKeeps ==
    ASSUME IInv, Forget
    PROVE  IInv'
<1>1. /\ Types /\ Clock
      /\ Quiet => Alone
  BY DEF IInv
<1>2. /\ ip' = None /\ trk' = [a \in Addrs |-> Free] /\ steady' = [a \in Addrs |-> now]
      /\ now' = now /\ sweep' = sweep /\ shared' = shared /\ at' = at /\ gone' = gone
      /\ seen' = seen /\ crowd' = crowd /\ since' = since /\ back' = back /\ stray' = stray
  BY DEF Forget
<1>3. Tracked(trk') = {} /\ \A a \in Addrs : ~trk'[a].used
  BY <1>2 DEF Tracked, Free
<1>4. Types'
  BY <1>1, <1>2, FreeIsSlot DEF Types
<1>5. Clock'
  BY <1>1, <1>2 DEF Clock, Types
<1>6. Idle' /\ Ordered(trk', now') /\ Latest(trk', ip')
  BY <1>2, <1>3 DEF Idle, Ordered, Latest, Free
<1>7. ASSUME Quiet' PROVE Alone'
  <2>1. Alone /\ Occupied' = Occupied
    BY <1>1, <1>2, <1>7 DEF Quiet, Occupied
  <2>2. ~shared' /\ Single' /\ Home'
    BY <1>2, <2>1 DEF Alone, Single, Home
  <2>3. Visited'
    <3>1. None \notin Addrs
      BY ConstantTypes
    <3> QED
      BY <1>2, <1>3, <3>1 DEF Visited
  <2>4. Left'
    BY <1>1, <1>2, <2>1 DEF Left, Clock, Occupied, Types
  <2>5. /\ Silent(trk', Occupied', gone', since')
        /\ Apart(trk', now', Occupied', gone')
        /\ Adrift(trk', ip', now', Occupied', gone')
    BY <1>2, <1>3 DEF Silent, Apart, Adrift
  <2> QED
    BY <2>2, <2>3, <2>4, <2>5 DEF Alone
<1> QED
  BY <1>4, <1>5, <1>6, <1>7 DEF IInv

\* A host gets another address, comes, or goes.
LEMMA MovesKeeps ==
    ASSUME IInv, NEW h \in Hosts, NEW a \in Addrs \cup {None}, Moves(h, a)
    PROVE  IInv'
<1>1. /\ Types /\ Clock /\ Idle /\ Ordered(trk, now) /\ Latest(trk, ip)
      /\ Quiet => Alone
  BY DEF IInv
<1>2. /\ a # at[h] /\ a \notin Occupied
      /\ at' = [at EXCEPT ![h] = a]
      /\ gone' = IF at[h] = None THEN gone ELSE [gone EXCEPT ![at[h]] = now]
      /\ steady' = IF a = None THEN steady ELSE [steady EXCEPT ![a] = now]
      /\ crowd' = (crowd \/ (a # None /\ \E k \in Hosts \ {h} : at[k] # None))
      /\ back' = (back \/ /\ a # None /\ gone[a] # Never
                          /\ now <= Later(gone[a], since) + MaxAge + Confirm)
      /\ now' = now /\ sweep' = sweep /\ trk' = trk /\ ip' = ip /\ shared' = shared
      /\ seen' = seen /\ since' = since /\ stray' = stray
  BY DEF Moves, entry
<1>3. /\ now \in Nat /\ since \in Nat /\ at \in [Hosts -> Addrs \cup {None}]
      /\ at[h] \in Addrs \cup {None} /\ gone \in [Addrs -> Nat] /\ steady \in [Addrs -> Nat]
      /\ \A x \in Addrs : trk[x].first \in Nat /\ trk[x].last \in Nat
  BY <1>1 DEF Types, Slot
<1>4. gone' \in [Addrs -> Nat] /\ steady' \in [Addrs -> Nat]
  BY <1>2, <1>3
<1>5. Types'
  BY <1>1, <1>2, <1>3, <1>4 DEF Types
<1>6. \A x \in Addrs : /\ gone'[x] = IF x = at[h] THEN now ELSE gone[x]
                       /\ steady'[x] = IF x = a THEN now ELSE steady[x]
  BY <1>2, <1>3, ConstantTypes
<1>7. Clock'
  BY <1>1, <1>2, <1>3, <1>6 DEF Clock
<1>8. Idle' /\ Ordered(trk', now') /\ Latest(trk', ip')
  BY <1>1, <1>2 DEF Idle
<1>9. ASSUME Quiet' PROVE Alone'
  <2>1. Alone /\ Quiet
    BY <1>1, <1>2, <1>9 DEF Quiet
  <2>2. \A k \in Hosts \ {h} : a # None \/ at[h] # None => at[k] = None
    BY <1>2, <1>9, <2>1 DEF Quiet, Alone, Single
  <2>3. \A k \in Hosts : at'[k] = IF k = h THEN a ELSE at[k]
    BY <1>2, <1>3
  <2>4. Single'
    BY <1>2, <2>1, <2>2, <2>3 DEF Alone, Single
  <2>5. Occupied = {at[h]} \ {None} /\ Occupied' = {a} \ {None}
    BY <1>2, <2>2, <2>3 DEF Occupied
  <2>6. ASSUME a # None, gone[a] # Never
        PROVE  gone[a] + MaxAge + Confirm < now /\ since + MaxAge + Confirm < now
    <3>1. ~(now <= Later(gone[a], since) + MaxAge + Confirm)
      BY <1>2, <1>9, <2>6 DEF Quiet
    <3>2. gone[a] \in Nat
      BY <1>3, <2>6
    <3> QED
      BY <1>3, <3>1, <3>2, ConstantTypes DEF Later
  \* The address a host comes to has gone unseen for longer than the window.
  <2>7. ASSUME a # None, trk[a].used
        PROVE  trk[a].last + Confirm < now
    <3>1. a \in Addrs /\ gone[a] # Never
      BY <1>2, <2>1, <2>7 DEF Alone, Visited
    <3>2. trk[a].last <= gone[a] + MaxAge \/ trk[a].last <= since
      BY <1>2, <2>1, <2>7, <3>1 DEF Alone, Silent, Tracked
    <3> QED
      BY <1>3, <2>6, <2>7, <3>1, <3>2, ConstantTypes
  <2>8. Visited'
    <3>1. 1 <= now
      BY <1>1 DEF Clock
    <3> QED
      BY <1>2, <1>6, <2>1, <2>5, <3>1 DEF Alone, Visited, Never
  <2>9. Left'
    BY <1>1, <1>2, <1>3, <1>6, <2>5 DEF Left, Clock
  <2>10. Home'
    <3> SUFFICES ASSUME NEW b \in Occupied'
                 PROVE  sweep * Period <= steady'[b]
      BY <1>1, <1>2, <1>3, <1>4, <2>5, NextSweep, ConstantTypes DEF Home, Types
    <3>1. b = a /\ steady'[b] = now
      BY <1>6, <2>5
    <3> QED
      BY <1>1, <3>1 DEF Clock
  <2>11. Silent(trk', Occupied', gone', since')
    <3> SUFFICES ASSUME NEW x \in Tracked(trk) \ Occupied'
                 PROVE  trk[x].last <= gone'[x] + MaxAge \/ trk[x].last <= since
      BY <1>2 DEF Silent
    <3>1. x \in Addrs /\ trk[x].used
      BY DEF Tracked
    <3>2. CASE x = at[h]
      <4>1. trk[x].last <= now
        BY <1>1, <3>1 DEF Ordered
      <4> QED
        BY <1>3, <1>6, <3>1, <3>2, <4>1, ConstantTypes
    <3>3. CASE x # at[h]
      BY <1>6, <2>1, <2>5, <3>1, <3>3 DEF Alone, Silent, Tracked
    <3> QED
      BY <3>2, <3>3
  <2>12. ASSUME NEW x \in Addrs, trk[x].used, Lapsed(trk, x, now, Occupied, gone)
         PROVE  Lapsed(trk, x, now, Occupied', gone')
    BY <1>3, <1>6, <2>5, <2>7, <2>12, ConstantTypes DEF Lapsed
  <2>13. Apart(trk', now', Occupied', gone')
    <3>1. ASSUME NEW x \in Tracked(trk), NEW y \in Tracked(trk),
                 Over(trk, x, y, now, Occupied, gone)
          PROVE  Over(trk, x, y, now, Occupied', gone')
      <4>1. x \in Addrs /\ trk[x].used
        BY DEF Tracked
      <4>2. CASE Lapsed(trk, x, now, Occupied, gone)
        BY <2>12, <3>1, <4>1, <4>2 DEF Over
      <4>3. CASE x \notin Occupied /\ gone[x] <= trk[y].first
        <5>1. x # at[h]
          BY <2>5, <4>1, <4>3, ConstantTypes
        <5>2. CASE x = a
          <6>1. Lapsed(trk, x, now, Occupied', gone')
            BY <2>5, <2>7, <4>1, <5>2, ConstantTypes DEF Lapsed
          <6> QED
            BY <3>1, <6>1 DEF Over
        <5>3. CASE x # a
          BY <1>6, <2>5, <3>1, <4>1, <4>3, <5>1, <5>3 DEF Over
        <5> QED
          BY <5>2, <5>3
      <4> QED
        BY <3>1, <4>2, <4>3 DEF Over
    <3> QED
      BY <1>2, <2>1, <3>1 DEF Alone, Apart
  <2>14. Adrift(trk', ip', now', Occupied', gone')
    <3> SUFFICES ASSUME ip # None, ~trk[ip].used, NEW x \in Tracked(trk)
                 PROVE  \/ trk[x].last + Confirm < now
                        \/ x \notin Occupied' /\ gone'[x] + MaxAge < now
      BY <1>2 DEF Adrift
    <3>1. x \in Addrs /\ trk[x].used
      BY DEF Tracked
    <3>2. trk[x].last + Confirm < now \/ (x \notin Occupied /\ gone[x] + MaxAge < now)
      BY <2>1 DEF Alone, Adrift
    <3>3. CASE x = a
      BY <2>7, <3>1, <3>3, ConstantTypes
    <3>4. CASE x # a
      BY <1>6, <2>5, <3>1, <3>2, <3>4, ConstantTypes
    <3> QED
      BY <3>3, <3>4
  <2> QED
    BY <1>2, <2>1, <2>4, <2>8, <2>9, <2>10, <2>11, <2>13, <2>14 DEF Alone
<1> QED
  BY <1>5, <1>7, <1>8, <1>9 DEF IInv

\* Before the first sighting.
LEMMA InitKeeps == Init => IInv
<1> SUFFICES ASSUME Init PROVE IInv
  OBVIOUS
<1>1. /\ now = Period /\ sweep = 1 /\ since = 0 /\ ip = None /\ shared = FALSE
      /\ trk = [a \in Addrs |-> Free] /\ at = [h \in Hosts |-> None]
      /\ gone = [a \in Addrs |-> 0] /\ steady = [a \in Addrs |-> 0] /\ seen = {}
      /\ crowd = FALSE /\ back = FALSE /\ stray = FALSE
  BY DEF Init, Never
<1>2. Tracked(trk) = {} /\ Occupied = {} /\ \A a \in Addrs : trk[a] = Free /\ ~trk[a].used
  BY <1>1 DEF Tracked, Occupied, Free
<1>3. Types
  BY <1>1, FreeIsSlot, ConstantTypes DEF Types
<1>4. Clock
  BY <1>1, ConstantTypes DEF Clock
<1>5. Idle /\ Ordered(trk, now) /\ Latest(trk, ip)
  BY <1>1, <1>2 DEF Idle, Ordered, Latest
<1>6. Alone
  <2>1. Single /\ Visited /\ Left /\ Home
    BY <1>1, <1>2, ConstantTypes DEF Single, Visited, Left, Home
  <2>2. /\ Silent(trk, Occupied, gone, since)
        /\ Apart(trk, now, Occupied, gone) /\ Adrift(trk, ip, now, Occupied, gone)
    BY <1>2 DEF Silent, Apart, Adrift
  <2> QED
    BY <1>1, <2>1, <2>2 DEF Alone
<1> QED
  BY <1>3, <1>4, <1>5, <1>6 DEF IInv

\* A step that changes nothing.
LEMMA StutterKeeps ==
    ASSUME IInv, UNCHANGED vars
    PROVE  IInv'
<1>1. /\ now' = now /\ sweep' = sweep /\ trk' = trk /\ ip' = ip /\ shared' = shared
      /\ at' = at /\ gone' = gone /\ steady' = steady /\ seen' = seen /\ crowd' = crowd
      /\ since' = since /\ back' = back /\ stray' = stray
  BY DEF vars, entry, world, history
<1>2. Occupied' = Occupied
  BY <1>1 DEF Occupied
<1>3. Types' /\ Clock' /\ Idle' /\ Ordered(trk', now') /\ Latest(trk', ip')
  BY <1>1 DEF IInv, Types, Clock, Idle
<1>4. Quiet' => Alone'
  BY <1>1, <1>2 DEF IInv, Quiet, Alone, Single, Visited, Left, Home
<1> QED
  BY <1>3, <1>4 DEF IInv

\* The inductive invariant of the tracker.
LEMMA Invariance == Spec => []IInv
<1>1. IInv /\ [Next]_vars => IInv'
  <2> SUFFICES ASSUME IInv, [Next]_vars PROVE IInv'
    OBVIOUS
  <2>1. ASSUME NEW a \in Addrs, NEW n \in {now, now + 1}, Sighted(a, n)
        PROVE  IInv'
    <3>1. n \in Nat
      BY DEF IInv, Types
    <3>2. CASE Plain(a) /\ stray' = stray
      BY <2>1, <3>1, <3>2, SightedPlainKeeps
    <3>3. ASSUME ip # None, ~shared, ip # a \/ Tracked(trk) # {},
                 NEW t \in Watched(a, n), Judges(t, a),
                 stray' = (stray \/ (a \notin Occupied /\ t[a].first # trk[a].first))
          PROVE  IInv'
      BY <2>1, <3>1, <3>3, SightedWatchedKeeps
    <3> QED
      BY <2>1, <3>2, <3>3 DEF Sighted
  <2>2. CASE SweepEnd
    BY <2>2, SweepEndKeeps
  <2>3. CASE Forget
    BY <2>3, ForgetKeeps
  <2>4. ASSUME NEW h \in Hosts, NEW a \in Addrs \cup {None}, Moves(h, a)
        PROVE  IInv'
    BY <2>4, MovesKeeps
  <2>5. CASE UNCHANGED vars
    BY <2>5, StutterKeeps
  <2>6. CASE Passes
    BY <2>6, PassesKeeps
  <2> QED
    BY <2>1, <2>2, <2>3, <2>4, <2>5, <2>6 DEF Next
<1> QED
  BY InitKeeps, <1>1, PTL DEF Spec

-----------------------------------------------------------------------------
(* The theorems.                                                           *)

\* A MAC of one host is never taken for a shared one (addr_concurrent_locked),
\* whatever its ARP entries say of where it was, and whatever its number of
\* addresses and of slots.
THEOREM OneHostIsOne == Spec => []OnlyShared
<1>1. IInv => OnlyShared
  BY DEF IInv, Quiet, Alone, OnlyShared, Types
<1> QED
  BY Invariance, <1>1, PTL

\* The entry follows a host that is alone (addr_track_locked), however often stale
\* sightings take it back: once the ARP entries are gone it is where the host is.
THEOREM EntryIsThere == Spec => []EntryFollows
<1>1. IInv => EntryFollows
  <2> SUFFICES ASSUME IInv, NEW a \in Occupied, ip # None, ~crowd, ~back, ~stray,
                      now > steady[a] + MaxAge + 2 * Period, ip # a
               PROVE  FALSE
    BY DEF EntryFollows
  <2>1. Types /\ Clock /\ Home
    BY DEF IInv, Quiet, Alone
  <2>2. a \in Addrs
    BY <2>1 DEF Occupied, Types
  <2>3. sweep * Period <= steady[a] + MaxAge + Period
    BY <2>1 DEF Home
  <2>4. /\ now < sweep * Period + Period /\ sweep * Period \in Nat
        /\ now \in Nat /\ steady[a] \in Nat
    BY <2>1, <2>2, NextSweep DEF Clock, Types
  <2> QED
    BY <2>3, <2>4, ConstantTypes
<1> QED
  BY Invariance, <1>1, PTL
-----------------------------------------------------------------------------
(* With a slot for each address, none makes way for another.               *)

\* addr_note_locked() with a slot for every address.
LEMMA NotedRoomy ==
    ASSUME Roomy, NEW t \in [Addrs -> Slot], NEW a \in Addrs, NEW n \in Nat,
           NEW u \in Noted(t, a, n)
    PROVE  /\ \A x \in Addrs \ {a} : u[x] = t[x]
           /\ t[a].used /\ n <= t[a].last + Confirm => u[a].first = t[a].first
           /\ u[a].from = IF t[a].used THEN t[a].from ELSE None
<1>1. t[a] \in Slot
  OBVIOUS
<1>2. CASE t[a].used
  <2> DEFINE f == IF n - t[a].last > Confirm THEN n ELSE t[a].first
  <2>1. u = [t EXCEPT ![a] = [t[a] EXCEPT !.last = n, !.first = f]]
    BY <1>2 DEF Noted
  <2>2. t[a] = [first |-> t[a].first, last |-> t[a].last, from |-> t[a].from, used |-> t[a].used]
    BY <1>1 DEF Slot
  <2>3. u[a] = [first |-> f, last |-> n, from |-> t[a].from, used |-> t[a].used]
    BY <2>1, <2>2
  <2>4. n <= t[a].last + Confirm => f = t[a].first
    BY <1>1, ConstantTypes DEF Slot
  <2> HIDE DEF f
  <2> QED
    BY <1>2, <2>1, <2>3, <2>4
<1>3. CASE ~t[a].used
  <2> DEFINE new == [first |-> n, last |-> n, from |-> None, used |-> TRUE]
  <2>1. Cardinality(Tracked(t)) < Slots
    <3>1. IsFiniteSet(Addrs) /\ Slots \in Nat
      BY TrackAssumption DEF TrackAssumption
    <3>2. Tracked(t) \subseteq Addrs \ {a}
      BY <1>3 DEF Tracked
    <3>3. /\ IsFiniteSet(Addrs \ {a})
          /\ Cardinality(Addrs \ {a}) = Cardinality(Addrs) - 1
      BY <3>1, FS_RemoveElement
    <3>4. Cardinality(Tracked(t)) <= Cardinality(Addrs \ {a}) /\ IsFiniteSet(Tracked(t))
      BY <3>2, <3>3, FS_Subset
    <3>5. Cardinality(Tracked(t)) \in Nat /\ Cardinality(Addrs) \in Nat
      BY <3>1, <3>4, FS_CardinalityType
    <3> QED
      BY <3>1, <3>3, <3>4, <3>5 DEF Roomy
  <2>2. u = [t EXCEPT ![a] = new]
    BY <1>3, <2>1 DEF Noted
  <2> QED
    BY <1>3, <2>2
<1> QED
  BY <1>2, <1>3

\* What a sighting then leaves for the verdict.
LEMMA WatchedRoomy ==
    ASSUME Roomy, Types, ip # None, NEW a \in Addrs, NEW n \in Nat, NEW t \in Watched(a, n)
    PROVE  /\ \A x \in Addrs \ {a} :
                 \/ t[x] = trk[x] /\ (x = ip => trk[x].used)
                 \/ /\ x = ip /\ ~trk[x].used
                    /\ t[x].used /\ t[x].first = n /\ t[x].last = n /\ t[x].from = None
           /\ trk[a].used /\ n <= trk[a].last + Confirm => t[a].first = trk[a].first
           /\ t[a].from = IF trk[a].used THEN trk[a].from ELSE None
<1>1. trk \in [Addrs -> Slot] /\ ip \in Addrs
  BY DEF Types
<1>2. CASE ip # a /\ ~trk[ip].used
  <2>1. PICK w \in Noted(trk, ip, n) : t \in Noted(w, a, n)
    BY <1>2 DEF Watched
  <2>2. /\ w \in [Addrs -> Slot]
        /\ w[ip].used /\ w[ip].last = n /\ w[ip].first = n /\ w[ip].from = None
        /\ \A x \in Addrs \ {ip} : w[x] = trk[x]
    BY <1>1, <1>2, <2>1, NotedSlots, NotedRoomy
  <2>3. /\ \A x \in Addrs \ {a} : t[x] = w[x]
        /\ w[a].used /\ n <= w[a].last + Confirm => t[a].first = w[a].first
        /\ t[a].from = IF w[a].used THEN w[a].from ELSE None
    BY <2>1, <2>2, NotedRoomy
  <2> QED
    BY <1>1, <1>2, <2>2, <2>3
<1>3. CASE ~(ip # a /\ ~trk[ip].used)
  <2>1. t \in Noted(trk, a, n)
    BY <1>3 DEF Watched
  <2> QED
    BY <1>1, <1>3, <2>1, NotedRoomy
<1> QED
  BY <1>2, <1>3

\* What a sighting leaves of a MAC not declared shared: either the tracker has
\* nothing to do with it, or the address sighted and the entry's are in the table,
\* and none has been alive with the one sighted.
Unjudged(a) == Tracked(trk) = {} /\ trk' = trk /\ ip' = a /\ (ip = None \/ ip = a)

Judged(a, n) ==
    /\ ip # None /\ ip' # None
    /\ trk'[a].used /\ trk'[a].last = n
    /\ trk'[a].first = n \/ (trk[a].used /\ trk'[a].first = trk[a].first)
    /\ trk[a].used /\ n <= trk[a].last + Confirm => trk'[a].first = trk[a].first
    /\ \A x \in Addrs \ {a} :
          \/ /\ trk'[x].used = trk[x].used
             /\ trk'[x].first = trk[x].first /\ trk'[x].last = trk[x].last
             /\ x = ip => trk[x].used
          \/ x = ip /\ ~trk[x].used /\ trk'[x].used /\ trk'[x].first = n /\ trk'[x].last = n
    /\ \A x \in Addrs \ {a} :
          trk'[x].used => ~(n > trk'[x].first + Confirm /\ trk'[x].last > trk'[a].first + Confirm)

\* The entry follows the address and owes the news, or nothing is owed anew.
NewsOf(a) ==
    \/ /\ ip' = a /\ ip # a /\ trk'[a].from = ip /\ trk'[ip].from = None
       /\ \A x \in Addrs \ {a, ip} : trk'[x].from = trk[x].from
    \/ ip' = ip /\ \A x \in Addrs : trk'[x].from = trk[x].from

\* The news owed after the verdict.
LEMMA JudgedNews ==
    ASSUME Roomy, IInv, ip # None, ~shared', NEW a \in Addrs, NEW n \in Nat,
           NEW t \in Watched(a, n), Judges(t, a)
    PROVE  NewsOf(a)
<1>1. /\ Types /\ Ordered(trk, now) /\ ip \in Addrs
  BY DEF IInv, Types
<1>2. \A x \in Addrs : ~trk[x].used => trk[x].from = None
  BY <1>1 DEF Ordered, Free
<1>3. t \in [Addrs -> Slot]
  BY <1>1, WatchedSlots
<1>4. /\ \A x \in Addrs \ {a} :
            \/ t[x] = trk[x] /\ (x = ip => trk[x].used)
            \/ /\ x = ip /\ ~trk[x].used
               /\ t[x].used /\ t[x].first = n /\ t[x].last = n /\ t[x].from = None
      /\ t[a].from = IF trk[a].used THEN trk[a].from ELSE None
  BY <1>1, WatchedRoomy
<1>5. \A x \in Addrs : t[x].from = trk[x].from
  BY <1>2, <1>4
<1>6. ~Concurrent(t, a)
  BY DEF Judges, Declares
<1>7. CASE ip # a /\ (~t[ip].used \/ t[a].first >= t[ip].first)
  <2> DEFINE u == [t EXCEPT ![ip].from = None]
  <2>1. trk' = [u EXCEPT ![a].from = ip] /\ ip' = a
    <3>1. t[ip].used
      BY <1>1, <1>4, <1>7
    <3> QED
      BY <1>6, <1>7, <3>1 DEF Judges, Follows
  <2>2. u \in [Addrs -> Slot] /\ u[ip].from = None /\ \A x \in Addrs \ {ip} : u[x] = t[x]
    BY <1>1, <1>3 DEF Slot
  <2> HIDE DEF u
  <2>3. trk'[a].from = ip /\ \A x \in Addrs \ {a} : trk'[x] = u[x]
    BY <2>1, <2>2 DEF Slot
  <2> QED
    BY <1>1, <1>5, <1>7, <2>1, <2>2, <2>3 DEF NewsOf
<1>8. CASE ~(ip # a /\ (~t[ip].used \/ t[a].first >= t[ip].first))
  <2>1. trk' = t /\ ip' = ip
    BY <1>6, <1>8 DEF Judges, entry
  <2> QED
    BY <1>5, <2>1 DEF NewsOf
<1> QED
  BY <1>7, <1>8

\* A sighting that does not find the MAC shared does one or the other; and it takes
\* the entry to a host that is alone.
LEMMA SightingLeaves ==
    ASSUME Roomy, IInv, NEW a \in Addrs, NEW n \in {now, now + 1}, Sighted(a, n), ~shared'
    PROVE  /\ ~shared /\ n \in Nat /\ now <= n /\ sweep * Period <= n
           /\ n < sweep * Period + Walk
           /\ \/ Unjudged(a)
              \/ Judged(a, n) /\ NewsOf(a) /\ (Quiet /\ a \in Occupied => ip' = a)
<1>1. Types /\ Clock /\ Idle
  BY DEF IInv
<1>2. n \in Nat /\ now <= n /\ sweep * Period <= n /\ n < sweep * Period + Walk
  BY <1>1, NextSweep, SightedInTime DEF Clock, Types
<1>3. CASE Plain(a)
  BY <1>1, <1>2, <1>3 DEF Plain, Idle, Unjudged
<1>4. ASSUME ip # None, ~shared, NEW t \in Watched(a, n), Judges(t, a)
      PROVE  Judged(a, n) /\ NewsOf(a) /\ (Quiet /\ a \in Occupied => ip' = a)
  <2>1. /\ t \in [Addrs -> Slot] /\ t[a].used /\ t[a].last = n
        /\ t[a].first = n \/ (trk[a].used /\ t[a].first = trk[a].first)
    BY <1>1, <1>2, <1>4, WatchedSlots
  <2>2. /\ \A x \in Addrs \ {a} :
              \/ t[x] = trk[x] /\ (x = ip => trk[x].used)
              \/ /\ x = ip /\ ~trk[x].used
                 /\ t[x].used /\ t[x].first = n /\ t[x].last = n
        /\ trk[a].used /\ n <= trk[a].last + Confirm => t[a].first = trk[a].first
    BY <1>1, <1>2, <1>4, WatchedRoomy
  <2>3. /\ \A x \in Addrs : /\ trk'[x].first = t[x].first
                            /\ trk'[x].last = t[x].last
                            /\ trk'[x].used = t[x].used
        /\ ~Concurrent(t, a) /\ (ip' = a \/ ip' = ip)
    BY <1>1, <1>4, <2>1, JudgedSlots
  <2>4. \A x \in Addrs \ {a} :
           t[x].used => ~(n > t[x].first + Confirm /\ t[x].last > t[a].first + Confirm)
    BY <2>1, <2>3 DEF Concurrent, Tracked
  <2>5. a # None
    BY ConstantTypes
  <2>6. NewsOf(a)
    BY <1>2, <1>4, JudgedNews
  <2>7. Quiet /\ a \in Occupied => ip' = a
    <3>1. Resolves(a, n)
      BY DEF Sighted
    <3> QED
      BY <1>2, <1>4, <3>1, SightedIsFollowed DEF IInv
  <2>8. Judged(a, n)
    <3> HIDE <1>1
    <3> QED
      BY <1>4, <2>1, <2>2, <2>3, <2>4, <2>5 DEF Judged
  <2> QED
    BY <2>6, <2>7, <2>8
<1>5. Plain(a) \/ (ip # None /\ ~shared /\ \E t \in Watched(a, n) : Judges(t, a))
  BY DEF Sighted
<1>6. Plain(a) => ~shared
  BY DEF Plain
<1> QED
  BY <1>2, <1>3, <1>4, <1>5, <1>6

-----------------------------------------------------------------------------
(* Two hosts are told apart.                                               *)

\* Each walk finds an address before it counts as new again.
Dense == Period + Walk <= Confirm + 1

\* Sighted in this walk, which began after s, when sweeps began to find it.
Noticed(a, s) ==
    /\ ip # None
    /\ \/ /\ trk[a].used /\ sweep * Period <= trk[a].last
          /\ trk[a].first < s + Period + Walk
       \/ ip = a /\ Tracked(trk) = {} /\ sweep * Period <= s + Period

\* Sighted in the walk before, and first in the one that began after s.
Followed(a, s) ==
    /\ ip # None /\ trk[a].used
    /\ sweep * Period <= trk[a].last + Period /\ trk[a].first < s + Period + Walk

\* Two addresses that no sweep has missed since s, and that were not declared.
Paired(a, b, s) ==
    /\ s < sweep * Period /\ a \in seen => Noticed(a, s)
    /\ s + Period < sweep * Period => Followed(a, s)
    /\ a \in seen /\ b \in seen => sweep * Period < s + Period + Walk + Confirm
    /\ sweep * Period < s + 2 * Period + Walk + Confirm

InPairs ==
    ~shared => \A a, b \in Addrs, s \in Nat :
                  a # b /\ steady[a] <= s /\ steady[b] <= s => Paired(a, b, s)

\* A sighting keeps the two in step, or declares them.
LEMMA SightedPairs ==
    ASSUME Roomy, Dense, IInv, InPairs,
           NEW x \in Addrs, NEW n \in {now, now + 1}, Sighted(x, n)
    PROVE  InPairs'
<1> SUFFICES ASSUME ~shared', NEW a \in Addrs, NEW b \in Addrs, NEW s \in Nat,
                    a # b, steady'[a] <= s, steady'[b] <= s
             PROVE  Paired(a, b, s)'
  BY DEF InPairs
<1>1. /\ ~shared /\ n \in Nat /\ now <= n /\ sweep * Period <= n
      /\ n < sweep * Period + Walk
      /\ Unjudged(x) \/ Judged(x, n)
  BY SightingLeaves
<1>2. /\ sweep' = sweep /\ steady' = steady /\ seen' = seen \cup {x}
      /\ sweep * Period \in Nat /\ trk \in [Addrs -> Slot] /\ now \in Nat
      /\ \A y \in Addrs : trk[y].first \in Nat /\ trk[y].last \in Nat
      /\ \A y \in Addrs : trk[y].used => trk[y].first <= now
  <2>1. Types /\ Ordered(trk, now)
    BY DEF IInv
  <2>2. \A y \in Addrs : trk[y].first \in Nat /\ trk[y].last \in Nat
    BY <2>1 DEF Types, Slot
  <2>3. \A y \in Addrs : trk[y].used => trk[y].first <= now
    BY <2>1, <2>2 DEF Ordered, Types
  <2> QED
    BY <2>1, <2>2, <2>3, NextSweep DEF Sighted, Types
<1>3. Paired(a, b, s) /\ Paired(b, a, s)
  BY <1>1, <1>2 DEF InPairs
<1>4. CASE Unjudged(x)
  <2>1. \A y \in Addrs : ~trk[y].used
    BY <1>4 DEF Unjudged, Tracked
  <2>2. sweep * Period <= s + Period
    BY <1>2, <1>3, <2>1, ConstantTypes DEF Paired, Followed
  <2>3. ASSUME NEW y \in {a, b}, s < sweep * Period, y \in seen
        PROVE  y = x
    BY <1>3, <1>4, <2>1, <2>3 DEF Paired, Noticed, Unjudged
  <2>4. s < sweep * Period /\ a \in seen' => Noticed(a, s)'
    BY <1>2, <1>4, <2>2, <2>3, ConstantTypes DEF Unjudged, Noticed, Tracked
  <2>5. a \in seen' /\ b \in seen' => sweep * Period < s + Period + Walk + Confirm
    BY <1>2, <1>3, <2>3, ConstantTypes
  <2>6. sweep * Period < s + 2 * Period + Walk + Confirm
    BY <1>3 DEF Paired
  <2>7. ~(s + Period < sweep * Period)
    BY <1>2, <2>2, ConstantTypes
  <2> QED
    BY <1>2, <2>4, <2>5, <2>6, <2>7 DEF Paired
<1>5. CASE Judged(x, n)
  <2>1. ASSUME NEW y \in {a, b}, s + Period < sweep * Period
        PROVE  Followed(y, s)'
    <3>1. Followed(y, s)
      BY <1>3, <2>1 DEF Paired
    <3>2. CASE y = x
      <4>1. n <= trk[y].last + Confirm
        BY <1>1, <1>2, <3>1, ConstantTypes DEF Followed, Dense
      <4>2. trk'[y].first = trk[y].first /\ trk'[y].used /\ trk'[y].last = n /\ ip' # None
        BY <1>5, <3>1, <3>2, <4>1 DEF Judged, Followed
      <4>3. sweep * Period <= n + Period
        BY <1>1, <1>2, ConstantTypes
      <4> QED
        BY <1>2, <3>1, <4>2, <4>3 DEF Followed
    <3>3. CASE y # x
      <4>1. trk'[y].used /\ trk'[y].first = trk[y].first /\ trk'[y].last = trk[y].last
            /\ ip' # None
        BY <1>5, <3>1, <3>3 DEF Judged, Followed
      <4> QED
        BY <1>2, <3>1, <4>1 DEF Followed
    <3> QED
      BY <3>2, <3>3
  <2>2. ASSUME NEW y \in {a, b}, s < sweep * Period, y \in seen'
        PROVE  /\ trk'[y].used /\ sweep * Period <= trk'[y].last
               /\ trk'[y].first < s + Period + Walk
               /\ trk'[y].first \in Nat /\ trk'[y].last \in Nat
    <3>1. CASE y = x
      <4>1. /\ trk'[y].used /\ trk'[y].last = n
            /\ trk'[y].first = n \/ (trk[y].used /\ trk'[y].first = trk[y].first)
        BY <1>5, <3>1 DEF Judged
      <4>2. trk'[y].first <= n /\ trk'[y].first \in Nat
        BY <1>1, <1>2, <4>1
      <4>3. CASE sweep * Period <= s + Period
        BY <1>1, <1>2, <4>1, <4>2, <4>3, ConstantTypes
      <4>4. CASE ~(sweep * Period <= s + Period)
        <5>1. s + Period < sweep * Period
          BY <1>2, <4>4, ConstantTypes
        <5>2. Followed(y, s)'
          BY <2>1, <5>1
        <5> QED
          BY <1>1, <4>1, <4>2, <5>2 DEF Followed
      <4> QED
        BY <4>3, <4>4
    <3>2. CASE y # x
      <4>1. Noticed(y, s)
        BY <1>2, <1>3, <2>2, <3>2 DEF Paired
      <4>2. CASE trk[y].used
        <5>1. /\ sweep * Period <= trk[y].last /\ trk[y].first < s + Period + Walk
          BY <4>1, <4>2 DEF Noticed, Tracked
        <5>2. trk'[y].used /\ trk'[y].first = trk[y].first /\ trk'[y].last = trk[y].last
          BY <1>5, <3>2, <4>2 DEF Judged
        <5> QED
          BY <1>2, <5>1, <5>2
      <4>3. CASE ~trk[y].used
        <5>1. ip = y /\ sweep * Period <= s + Period
          BY <4>1, <4>3 DEF Noticed
        <5>2. trk'[y].used /\ trk'[y].first = n /\ trk'[y].last = n
          BY <1>5, <3>2, <4>3, <5>1 DEF Judged
        <5> QED
          BY <1>1, <1>2, <5>1, <5>2, ConstantTypes
      <4> QED
        BY <4>2, <4>3
    <3> QED
      BY <3>1, <3>2
  <2>3. s < sweep * Period /\ a \in seen' => Noticed(a, s)'
    BY <1>2, <1>5, <2>2 DEF Noticed, Judged
  <2>4. a \in seen' /\ b \in seen' => sweep * Period < s + Period + Walk + Confirm
    <3> SUFFICES ASSUME a \in seen', b \in seen', s < sweep * Period,
                        a = x \/ b = x
                 PROVE  sweep * Period < s + Period + Walk + Confirm
      BY <1>2, <1>3, ConstantTypes DEF Paired
    <3>1. PICK y \in {a, b} : y # x /\ x \in {a, b}
      OBVIOUS
    <3>2. ~(n > trk'[y].first + Confirm /\ trk'[y].last > trk'[x].first + Confirm)
      BY <1>5, <2>2, <3>1 DEF Judged
    <3>3. /\ trk'[y].first \in Nat /\ trk'[y].last \in Nat /\ sweep * Period <= trk'[y].last
          /\ trk'[y].first < s + Period + Walk
      BY <2>2, <3>1
    <3>4. trk'[x].first \in Nat /\ trk'[x].first < s + Period + Walk
      BY <2>2, <3>1
    <3> QED
      BY <1>1, <1>2, <3>2, <3>3, <3>4, ConstantTypes
  <2>5. sweep * Period < s + 2 * Period + Walk + Confirm
    BY <1>3 DEF Paired
  <2> QED
    BY <1>2, <2>1, <2>3, <2>4, <2>5 DEF Paired
<1> QED
  BY <1>1, <1>4, <1>5

\* A sweep ends: an address it found, and the one before, is in the table.
LEMMA SweepEndPairs ==
    ASSUME Dense, IInv, InPairs, SweepEnd
    PROVE  InPairs'
<1> DEFINE paid == [a \in Addrs |-> IF a \in Due THEN [trk[a] EXCEPT !.from = None] ELSE trk[a]]
<1>1. /\ trk' = [a \in Addrs |-> IF paid[a].from = None /\ now - paid[a].last > Expire
                                 THEN Free ELSE paid[a]]
      /\ steady' = [a \in Addrs |-> IF a \in Occupied \cap seen THEN steady[a] ELSE now]
      /\ sweep' = sweep + 1 /\ seen' = {} /\ ip' = ip /\ shared' = shared
  BY DEF SweepEnd, entry
<1>2. /\ sweep' * Period = sweep * Period + Period /\ sweep * Period \in Nat
      /\ now \in Nat /\ sweep * Period <= now /\ now < sweep * Period + Period
      /\ trk \in [Addrs -> Slot]
  BY <1>1, NextSweep DEF IInv, Types, Clock
<1>3. ASSUME NEW a \in Addrs, trk[a].used, sweep * Period <= trk[a].last
      PROVE  trk'[a].used /\ trk'[a].last = trk[a].last /\ trk'[a].first = trk[a].first
  <2>1. trk[a] \in Slot
    BY <1>2
  <2>2. paid[a].used /\ paid[a].last = trk[a].last /\ paid[a].first = trk[a].first
    BY <1>3, <2>1 DEF Slot
  <2> HIDE DEF paid
  <2>3. trk[a].last \in Nat
    BY <2>1 DEF Slot
  <2>4. ~(now - paid[a].last > Expire)
    BY <1>2, <1>3, <2>2, <2>3, ConstantTypes DEF Dense
  <2> QED
    BY <1>1, <2>2, <2>4
<1> HIDE DEF paid
<1> SUFFICES ASSUME ~shared, NEW a \in Addrs, NEW b \in Addrs, NEW s \in Nat,
                    a # b, steady'[a] <= s, steady'[b] <= s
             PROVE  Paired(a, b, s)'
  BY <1>1 DEF InPairs
<1>4. CASE sweep * Period <= s
  BY <1>1, <1>2, <1>4, ConstantTypes DEF Paired
<1>5. CASE s < sweep * Period
  <2>1. ASSUME NEW y \in {a, b} PROVE y \in seen /\ steady[y] <= s
    <3>1. steady'[y] <= s /\ y \in Addrs
      OBVIOUS
    <3>2. steady'[y] # now
      BY <1>2, <1>5, <3>1
    <3> QED
      BY <1>1, <3>1, <3>2
  <2>2. Paired(a, b, s) /\ Paired(b, a, s)
    BY <2>1 DEF InPairs
  <2>3. Noticed(a, s) /\ Noticed(b, s)
    BY <1>5, <2>1, <2>2 DEF Paired
  <2>4. ip # None /\ trk[a].used /\ sweep * Period <= trk[a].last /\ trk[a].first < s + Period + Walk
    BY <2>3 DEF Noticed, Tracked
  <2>5. Followed(a, s)'
    <3>1. trk'[a].used /\ trk'[a].last = trk[a].last /\ trk'[a].first = trk[a].first
      BY <1>3, <2>4
    <3>2. trk[a].last \in Nat /\ ip' # None
      BY <1>1, <1>2, <2>4 DEF Slot
    <3>3. sweep' * Period <= trk'[a].last + Period
      BY <1>2, <2>4, <3>1, <3>2, ConstantTypes
    <3> QED
      BY <2>4, <3>1, <3>2, <3>3 DEF Followed
  <2>6. sweep * Period < s + Period + Walk + Confirm
    BY <2>1, <2>2 DEF Paired
  <2>7. sweep' * Period < s + 2 * Period + Walk + Confirm
    BY <1>2, <2>6, ConstantTypes
  <2> QED
    BY <1>1, <2>5, <2>7 DEF Paired
<1> QED
  BY <1>2, <1>4, <1>5

\* The other steps restart the count, or leave everything as it is.
LEMMA OthersPairs ==
    ASSUME IInv, InPairs,
           \/ Passes \/ Forget \/ UNCHANGED vars
           \/ \E h \in Hosts, x \in Addrs \cup {None} : Moves(h, x)
    PROVE  InPairs'
<1>1. /\ sweep' = sweep /\ seen' = seen /\ shared' = shared
      /\ steady \in [Addrs -> Nat] /\ now \in Nat /\ sweep * Period \in Nat
      /\ sweep * Period <= now /\ \A x \in Addrs : steady[x] <= now
  BY NextSweep DEF IInv, Types, Clock, Passes, Forget, Moves, vars, entry, world, history
<1> SUFFICES ASSUME ~shared, NEW a \in Addrs, NEW b \in Addrs, NEW s \in Nat,
                    a # b, steady'[a] <= s, steady'[b] <= s
             PROVE  Paired(a, b, s)'
  BY <1>1 DEF InPairs
<1>2. ASSUME trk' = trk, ip' = ip, \A x \in Addrs : steady[x] <= steady'[x] /\ steady'[x] \in Nat
      PROVE  Paired(a, b, s)'
  <2>1. steady[a] <= s /\ steady[b] <= s
    BY <1>1, <1>2
  <2> QED
    BY <1>1, <1>2, <2>1 DEF InPairs, Paired, Noticed, Followed
<1>3. CASE Passes \/ UNCHANGED vars
  BY <1>1, <1>2, <1>3 DEF Passes, vars, entry, world, history
<1>4. CASE Forget
  <2>1. now <= s
    BY <1>4 DEF Forget
  <2> QED
    BY <1>1, <2>1, ConstantTypes DEF Paired
<1>5. ASSUME NEW h \in Hosts, NEW x \in Addrs \cup {None}, Moves(h, x)
      PROVE  Paired(a, b, s)'
  <2>1. /\ trk' = trk /\ ip' = ip
        /\ steady' = IF x = None THEN steady ELSE [steady EXCEPT ![x] = now]
    BY <1>5 DEF Moves, entry
  <2> QED
    BY <1>1, <1>2, <2>1
<1> QED
  BY <1>3, <1>4, <1>5

\* Hosts behind one MAC are told apart (addr_track_locked), for any number of
\* them, wherever the entry is taken meanwhile: if a walk and the interval after it
\* fit in the window, and each address has a slot.
THEOREM HostsAreFound ==
    ASSUME Dense
    PROVE  Spec => []SharedIsFound
<1>1. CASE Roomy
  <2>1. Init => InPairs
    <3> SUFFICES ASSUME Init, NEW a \in Addrs, NEW b \in Addrs, NEW s \in Nat
                 PROVE  Paired(a, b, s)
      BY DEF InPairs
    <3>1. sweep * Period = Period /\ seen = {}
      BY ConstantTypes DEF Init
    <3> QED
      BY <3>1, ConstantTypes DEF Paired
  <2>2. IInv /\ InPairs /\ [Next]_vars => InPairs'
    BY <1>1, SightedPairs, SweepEndPairs, OthersPairs DEF Next
  <2>3. IInv /\ InPairs => SharedIsFound
    <3> SUFFICES ASSUME IInv, InPairs, NEW a \in Occupied, NEW b \in Occupied, a # b, ~shared
                 PROVE  ~(now > Later(steady[a], steady[b]) + Confirm + 3 * Period + Walk)
      BY DEF SharedIsFound
    <3> DEFINE s == Later(steady[a], steady[b])
    <3>1. Types /\ Clock
      BY DEF IInv
    <3>2. a \in Addrs /\ b \in Addrs /\ steady[a] \in Nat /\ steady[b] \in Nat
      BY <3>1 DEF Types, Occupied
    <3>3. s \in Nat /\ steady[a] <= s /\ steady[b] <= s
      BY <3>2 DEF Later
    <3> HIDE DEF s
    <3>4. sweep * Period < s + 2 * Period + Walk + Confirm
      BY <3>2, <3>3 DEF InPairs, Paired
    <3>5. now \in Nat /\ now < sweep * Period + Period /\ sweep * Period \in Nat
      BY <3>1, NextSweep DEF Types, Clock
    <3>6. ~(now > s + Confirm + 3 * Period + Walk)
      BY <3>3, <3>4, <3>5, ConstantTypes
    <3> QED
      BY <3>6 DEF s
  <2> QED
    BY <2>1, <2>2, <2>3, Invariance, PTL DEF Spec
<1>2. CASE ~Roomy
  <2>1. SharedIsFound
    BY <1>2 DEF SharedIsFound
  <2> QED
    BY <2>1, PTL
<1> QED
  BY <1>1, <1>2

-----------------------------------------------------------------------------
(* The news of a move is told in time, and only of an address left.        *)

\* The longest an address can be known after its host has left it, or the entry.
Longest == Later(MaxAge, Period + Walk)

\* What this walk sighted was last seen in this walk.
InTime == \A a \in seen : trk[a].used => sweep * Period <= trk[a].last

\* Only the entry's address owes news, of another that is in the table.
OneOwes ==
    \A a \in Addrs : trk[a].from # None =>
        /\ a = ip /\ trk[a].used
        /\ trk[a].from \in Addrs \ {a} /\ trk[trk[a].from].used

\* An address sighted in this walk whose host has gone was left lately.
Departed == \A a \in seen \ Occupied : gone[a] # Never /\ sweep * Period <= gone[a] + MaxAge

\* What was told to have been left was not found by the sweep that ended then.
ToldOf == \A m \in told : m[1] \in Addrs /\ sweep * Period <= steady[m[1]] + Period

\* A host went to b at time d, where each sweep found it, and no news of it came:
\* the entry owes them, or is taken back, or b was not sighted.
Unpaid(b, d) ==
    /\ ip # None
    /\ ip = b => trk[b].used /\ trk[b].from # None
    /\ ip # b /\ ~trk[ip].used => b \notin seen /\ sweep * Period <= d + Period
    /\ ip # b /\ b \in seen => trk[ip].used /\ sweep * Period <= trk[ip].last
    /\ \A x \in Addrs \ {b} : trk[x].used => trk[x].last <= d + Longest
    /\ sweep * Period <= d + Longest + Confirm + Period

Owing(b, d) ==
    /\ b \in Occupied /\ d \in Nat /\ d <= now /\ d <= steady[b]
    /\ steady[b] = d => Unpaid(b, d)

InDebt ==
    /\ InTime /\ OneOwes /\ Departed /\ ToldOf
    /\ Quiet /\ debt # NoMove => Owing(debt.to, debt.since)

\* The longest is longer than either.
LEMMA LongestIs ==
    /\ Longest \in Nat /\ MaxAge <= Longest /\ Period + Walk <= Longest
  BY ConstantTypes DEF Longest, Later

\* What is known of the state in every step.
LEMMA Known ==
    ASSUME IInv
    PROVE  /\ Types /\ Clock /\ Idle /\ Ordered(trk, now)
           /\ sweep * Period \in Nat /\ sweep * Period <= now /\ now < sweep * Period + Period
           /\ now \in Nat /\ 1 <= now
           /\ trk \in [Addrs -> Slot] /\ ip \in Addrs \cup {None} /\ seen \subseteq Addrs
           /\ gone \in [Addrs -> Nat] /\ steady \in [Addrs -> Nat] /\ Occupied \subseteq Addrs
           /\ \A x \in Addrs : /\ trk[x].first \in Nat /\ trk[x].last \in Nat
                               /\ gone[x] <= now /\ steady[x] <= now
                               /\ trk[x].used => trk[x].last <= now
                               /\ ~trk[x].used => trk[x].from = None
<1>1. Types /\ Clock /\ Idle /\ Ordered(trk, now)
  BY DEF IInv
<1>2. \A x \in Addrs : trk[x].first \in Nat /\ trk[x].last \in Nat
  BY <1>1 DEF Types, Slot
<1>3. \A x \in Addrs : /\ trk[x].used => trk[x].last <= now
                       /\ ~trk[x].used => trk[x].from = None
  BY <1>1 DEF Ordered, Free
<1>4. Occupied \subseteq Addrs
  BY <1>1 DEF Types, Occupied
<1>5. sweep * Period \in Nat
  BY <1>1, NextSweep DEF Types
<1> QED
  BY <1>1, <1>2, <1>3, <1>4, <1>5 DEF Types, Clock

\* A sighting pays no debt and makes none, but may take the entry back.
LEMMA SightedOwing ==
    ASSUME Roomy, Dense, IInv, InDebt, Quiet, ~shared',
           NEW a \in Addrs, NEW n \in {now, now + 1}, Sighted(a, n),
           NEW b, NEW d, Owing(b, d)
    PROVE  Owing(b, d)'
<1>1. /\ sweep' = sweep /\ seen' = seen \cup {a} /\ steady' = steady /\ at' = at
      /\ now' = n /\ Resolves(a, n)
  BY DEF Sighted, world
<1>2. /\ n \in Nat /\ now <= n /\ sweep * Period <= n /\ n < sweep * Period + Walk
      /\ \/ Unjudged(a)
         \/ Judged(a, n) /\ NewsOf(a) /\ (Quiet /\ a \in Occupied => ip' = a)
  BY SightingLeaves
<1>3. /\ now \in Nat /\ sweep * Period \in Nat /\ ip \in Addrs \cup {None}
      /\ seen \subseteq Addrs /\ gone \in [Addrs -> Nat] /\ Occupied \subseteq Addrs
  BY Known
<1>4. Occupied' = Occupied /\ b \in Occupied /\ b \in Addrs /\ d \in Nat /\ d <= n
  BY <1>1, <1>2, <1>3 DEF Occupied, Owing
<1> SUFFICES ASSUME steady[b] = d PROVE Unpaid(b, d)'
  BY <1>1, <1>4 DEF Owing
<1>5. Unpaid(b, d)
  BY DEF Owing
<1>6. CASE Unjudged(a)
  <2>1. ip = a /\ ip' = ip /\ trk' = trk /\ ~trk[a].used
    BY <1>5, <1>6 DEF Unjudged, Unpaid, Tracked
  <2>2. a # b
    BY <1>5, <2>1 DEF Unpaid
  <2> QED
    BY <1>1, <1>5, <2>1, <2>2 DEF Unpaid
<1>7. CASE Judged(a, n) /\ NewsOf(a) /\ (a \in Occupied => ip' = a)
  <2>1. /\ ip # None /\ ip \in Addrs /\ ip' # None /\ (ip' = a \/ ip' = ip)
        /\ trk'[a].used /\ trk'[a].last = n
        /\ \A x \in Addrs \ {a} :
              \/ trk'[x].used = trk[x].used /\ trk'[x].last = trk[x].last /\ (x = ip => trk[x].used)
              \/ x = ip /\ ~trk[x].used /\ trk'[x].used /\ trk'[x].last = n
    BY <1>3, <1>7 DEF Judged, NewsOf
  <2>2. trk'[ip'].used
    BY <2>1
  <2>3. ip' = b => trk'[b].from # None
    <3>1. CASE ip = b
      BY <1>4, <1>5, <1>7, <2>1, <3>1 DEF NewsOf, Unpaid
    <3>2. CASE ip # b
      BY <1>4, <1>7, <2>1, <3>2 DEF NewsOf
    <3> QED
      BY <3>1, <3>2
  <2>4. ip' # b /\ b \in seen' => sweep * Period <= trk'[ip'].last
    <3> SUFFICES ASSUME ip' # b, b \in seen' PROVE sweep * Period <= trk'[ip'].last
      OBVIOUS
    <3>1. CASE ip' = a
      BY <1>2, <2>1, <3>1
    <3>2. CASE ip' # a
      <4>1. ip' = ip /\ b # a /\ b \in seen
        BY <1>1, <1>4, <1>7, <2>1, <3>2
      <4>2. trk[ip].used /\ sweep * Period <= trk[ip].last
        BY <1>5, <4>1 DEF Unpaid
      <4> QED
        BY <2>1, <3>2, <4>1, <4>2
    <3> QED
      BY <3>1, <3>2
  <2>5. ASSUME NEW x \in Addrs \ {b}, trk'[x].used
        PROVE  trk'[x].last <= d + Longest
    <3>1. CASE x = a
      <4>1. Single /\ Left
        BY DEF IInv, Alone
      <4>2. a \notin Occupied /\ gone[a] <= d
        BY <1>4, <2>5, <3>1, <4>1, OnlyOccupied DEF Left
      <4>3. gone[a] \in Nat /\ n - gone[a] <= MaxAge
        BY <1>1, <1>3, <4>2 DEF Resolves
      <4> QED
        BY <1>2, <1>4, <2>1, <3>1, <4>2, <4>3, LongestIs, ConstantTypes
    <3>2. CASE x # a /\ trk[x].used
      BY <1>5, <2>1, <3>2 DEF Unpaid
    <3>3. CASE x # a /\ ~trk[x].used
      <4>1. x = ip /\ trk'[x].last = n
        BY <2>1, <2>5, <3>3
      <4>2. sweep * Period <= d + Period
        BY <1>5, <2>5, <3>3, <4>1 DEF Unpaid
      <4> QED
        BY <1>2, <1>3, <1>4, <4>1, <4>2, LongestIs, ConstantTypes
    <3> QED
      BY <3>1, <3>2, <3>3
  <2>6. sweep * Period <= d + Longest + Confirm + Period
    BY <1>5 DEF Unpaid
  <2> QED
    BY <1>1, <2>1, <2>2, <2>3, <2>4, <2>5, <2>6 DEF Unpaid
<1> QED
  BY <1>2, <1>6, <1>7

\* What is said of the table after a sighting.
LEMMA SightedInDebt ==
    ASSUME Roomy, Dense, IInv, IInv', InDebt,
           NEW a \in Addrs, NEW n \in {now, now + 1}, Sighted(a, n)
    PROVE  InDebt'
<1>1. /\ sweep' = sweep /\ seen' = seen \cup {a} /\ steady' = steady /\ at' = at
      /\ gone' = gone /\ told' = told /\ debt' = debt /\ Resolves(a, n)
      /\ crowd' = crowd /\ back' = back /\ (stray' \/ ~stray)
  <2>1. stray \in BOOLEAN
    BY DEF IInv, Types
  <2> QED
    BY <2>1 DEF Sighted, world
<1>2. /\ now \in Nat /\ sweep * Period \in Nat /\ gone \in [Addrs -> Nat] /\ n \in Nat
      /\ sweep * Period <= n /\ \A x \in Addrs : gone[x] <= n
      /\ ip \in Addrs \cup {None} /\ \A x \in Addrs : ~trk[x].used => trk[x].from = None
      /\ \A x \in Addrs : ~trk'[x].used => trk'[x].from = None
  <2>1. \A x \in Addrs : ~trk'[x].used => trk'[x].from = None
    BY DEF IInv, Ordered, Free
  <2> QED
    BY <2>1, Known, ConstantTypes
<1>3. Occupied' = Occupied
  BY <1>1 DEF Occupied
<1>4. Departed'
  <2>1. a \notin Occupied => gone[a] # Never /\ sweep * Period <= gone[a] + MaxAge
    BY <1>1, <1>2, ConstantTypes DEF Resolves
  <2> QED
    BY <1>1, <1>3, <2>1 DEF InDebt, Departed
<1>5. ToldOf'
  BY <1>1 DEF InDebt, ToldOf
<1>6. CASE shared'
  <2>1. \A x \in Addrs : ~trk'[x].used
    BY <1>6 DEF IInv, Idle, Tracked
  <2>2. InTime' /\ OneOwes'
    <3>1. seen' \subseteq Addrs
      BY DEF IInv, Types
    <3> QED
      BY <1>2, <2>1, <3>1 DEF InTime, OneOwes
  <2>3. ~Quiet'
    BY <1>6 DEF IInv, Alone
  <2> QED
    BY <1>4, <1>5, <2>2, <2>3 DEF InDebt
<1>7. CASE ~shared'
  <2>1. /\ Unjudged(a) \/ (Judged(a, n) /\ NewsOf(a))
    BY <1>7, SightingLeaves
  <2>2. InTime /\ OneOwes /\ seen \subseteq Addrs
    BY Known DEF InDebt
  <2>3. ASSUME Unjudged(a) PROVE InTime' /\ OneOwes'
    <3>1. \A x \in Addrs : ~trk[x].used /\ trk'[x] = trk[x]
      BY <2>3 DEF Unjudged, Tracked
    <3>2. InTime' /\ OneOwes'
      BY <1>1, <1>2, <2>2, <3>1 DEF InTime, OneOwes
    <3> QED
      BY <3>2
  <2>4. ASSUME Judged(a, n), NewsOf(a) PROVE InTime' /\ OneOwes'
    <3>1. /\ ip # None /\ ip \in Addrs
          /\ trk'[a].used /\ trk'[a].last = n
          /\ \A x \in Addrs \ {a} :
                \/ trk'[x].used = trk[x].used /\ trk'[x].last = trk[x].last
                   /\ (x = ip => trk[x].used)
                \/ x = ip /\ ~trk[x].used /\ trk'[x].used /\ trk'[x].last = n
      BY <1>2, <2>4 DEF Judged
    <3>2. InTime'
      <4> SUFFICES ASSUME NEW x \in seen', trk'[x].used
                   PROVE  sweep * Period <= trk'[x].last
        BY <1>1 DEF InTime
      <4>1. x = a \/ (x \in seen /\ x \in Addrs \ {a})
        BY <1>1, <2>2
      <4> QED
        BY <1>2, <2>2, <3>1, <4>1 DEF InTime
    <3>3. trk'[ip].used /\ \A x \in Addrs : trk[x].used => trk'[x].used
      BY <3>1
    <3>4. OneOwes'
      <4> SUFFICES ASSUME NEW x \in Addrs, trk'[x].from # None
                   PROVE  /\ x = ip' /\ trk'[x].used
                          /\ trk'[x].from \in Addrs \ {x} /\ trk'[trk'[x].from].used
        BY DEF OneOwes
      <4>1. CASE ip' = a /\ ip # a /\ trk'[a].from = ip /\ trk'[ip].from = None
                 /\ \A y \in Addrs \ {a, ip} : trk'[y].from = trk[y].from
        <5>1. x = a
          BY <2>2, <4>1 DEF OneOwes
        <5> QED
          BY <3>1, <3>3, <4>1, <5>1
      <4>2. CASE ip' = ip /\ \A y \in Addrs : trk'[y].from = trk[y].from
        <5>1. trk[x].from # None /\ trk'[x].from = trk[x].from
          BY <4>2
        <5>2. /\ x = ip /\ trk[x].used /\ trk[x].from \in Addrs \ {x}
              /\ trk[trk[x].from].used
          BY <2>2, <5>1 DEF OneOwes
        <5> QED
          BY <3>3, <4>2, <5>1, <5>2
      <4> QED
        BY <2>4, <4>1, <4>2 DEF NewsOf
    <3> QED
      BY <3>2, <3>4
  <2>5. Quiet' /\ debt' # NoMove => Owing(debt.to, debt.since)'
    <3> SUFFICES ASSUME Quiet', debt # NoMove PROVE Owing(debt.to, debt.since)'
      BY <1>1
    <3>1. Quiet
      BY <1>1 DEF Quiet
    <3> DEFINE b == debt.to
               d == debt.since
    <3>2. Owing(b, d)
      BY <3>1 DEF InDebt
    <3> PICK e : e = b
      OBVIOUS
    <3> PICK f : f = d
      OBVIOUS
    <3>3. Owing(e, f)
      BY <3>2
    <3>4. Owing(e, f)'
      BY <1>7, <3>1, <3>3, SightedOwing
    <3>5. debt.to = e /\ debt.since = f /\ debt' = debt
      BY <1>1
    <3> QED
      BY <3>4, <3>5 DEF Owing, Unpaid
  <2> QED
    BY <1>1, <1>4, <1>5, <2>1, <2>3, <2>4, <2>5 DEF InDebt
<1> QED
  BY <1>6, <1>7

\* What the end of a sweep leaves of the table: it drops what is not owed and was
\* seen long ago; what is still owed stays, with the address it is owed of.
LEMMA SweepEndLeaves ==
    ASSUME IInv, SweepEnd, NEW a \in Addrs
    PROVE  /\ trk'[a].used => trk[a].used /\ trk'[a].last = trk[a].last
           /\ trk'[a].from # None => trk[a].from # None /\ a \notin Due
           /\ trk[a].used /\ now <= trk[a].last + Expire => trk'[a].used
           /\ trk[a].used /\ trk[a].from # None /\ a \notin Due =>
                 /\ trk'[a] = trk[a]
                 /\ trk[trk[a].from].used /\ ~(now - trk[trk[a].from].last > Confirm)
<1> DEFINE paid == [x \in Addrs |-> IF x \in Due THEN [trk[x] EXCEPT !.from = None] ELSE trk[x]]
<1>1. trk'[a] = IF paid[a].from = None /\ now - paid[a].last > Expire THEN Free ELSE paid[a]
  BY DEF SweepEnd
<1>2. trk[a] \in Slot /\ trk[a].last \in Nat /\ now \in Nat
  BY Known DEF Slot
<1>3. CASE a \in Due
  <2>1. /\ paid[a].from = None /\ paid[a].last = trk[a].last /\ paid[a].used = trk[a].used
        /\ trk[a].used
    BY <1>2, <1>3 DEF Slot, Due, Tracked
  <2> HIDE DEF paid
  <2>2. CASE now - trk[a].last > Expire
    <3>1. trk'[a].from = None /\ ~trk'[a].used
      BY <1>1, <2>1, <2>2 DEF Free
    <3>2. ~(now <= trk[a].last + Expire)
      BY <1>2, <2>2, ConstantTypes
    <3> QED
      BY <1>3, <3>1, <3>2
  <2>3. CASE ~(now - trk[a].last > Expire)
    <3>1. trk'[a] = paid[a]
      BY <1>1, <2>1, <2>3
    <3> QED
      BY <1>3, <2>1, <3>1
  <2> QED
    BY <2>2, <2>3
<1>4. CASE a \notin Due
  <2>1. paid[a] = trk[a]
    BY <1>4
  <2>2. trk[a].used /\ trk[a].from # None =>
           trk[trk[a].from].used /\ ~(now - trk[trk[a].from].last > Confirm)
    BY <1>4 DEF Due, Tracked
  <2> HIDE DEF paid
  <2> QED
    BY <1>1, <1>2, <1>4, <2>1, <2>2, ConstantTypes DEF Free
<1> QED
  BY <1>3, <1>4

\* At the end of a sweep a debt is paid, or it goes on.
LEMMA SweepEndOwing ==
    ASSUME Dense, IInv, InDebt, Quiet, SweepEnd,
           NEW b, b \notin Due, NEW d, Owing(b, d)
    PROVE  Owing(b, d)'
<1>1. /\ sweep' * Period = sweep * Period + Period /\ seen' = {} /\ ip' = ip
      /\ Occupied' = Occupied /\ now' = (sweep + 1) * Period
      /\ steady' = [a \in Addrs |-> IF a \in Occupied \cap seen THEN steady[a] ELSE now]
  BY NextSweep DEF SweepEnd, entry, world, Occupied, IInv, Types
<1>2. /\ now \in Nat /\ sweep * Period \in Nat /\ sweep * Period <= now
      /\ now < sweep * Period + Period /\ ip \in Addrs \cup {None}
      /\ steady \in [Addrs -> Nat] /\ Occupied \subseteq Addrs
      /\ \A x \in Addrs : steady[x] <= now /\ trk[x].last \in Nat
  BY Known
<1>3. b \in Occupied /\ b \in Addrs /\ d \in Nat /\ d <= now /\ d <= steady[b]
  BY <1>2 DEF Owing
<1>4. d <= now' /\ d <= steady'[b] /\ Period <= Confirm
  <2>1. now' = sweep * Period + Period
    BY <1>1, NextSweep DEF IInv, Types
  <2>2. steady'[b] = steady[b] \/ steady'[b] = now
    BY <1>1, <1>3
  <2> QED
    BY <1>2, <1>3, <2>1, <2>2, ConstantTypes DEF Dense
<1> SUFFICES ASSUME steady'[b] = d PROVE Unpaid(b, d)'
  BY <1>1, <1>3, <1>4 DEF Owing
<1>5. steady[b] = d /\ (b \in seen \/ now = d)
  BY <1>1, <1>2, <1>3
<1>6. Unpaid(b, d)
  BY <1>5 DEF Owing
<1>7. ip \in Addrs /\ ip # None
  BY <1>2, <1>6 DEF Unpaid
<1>8. ip = b => /\ trk'[b].used /\ trk'[b].from # None
                /\ sweep * Period <= d + Longest + Confirm
  <2> SUFFICES ASSUME ip = b
               PROVE  /\ trk'[b].used /\ trk'[b].from # None
                      /\ sweep * Period <= d + Longest + Confirm
    OBVIOUS
  <2> DEFINE f == trk[b].from
  <2>1. trk[b].used /\ f # None /\ f \in Addrs \ {b} /\ trk[f].used
    BY <1>3, <1>6 DEF Unpaid, InDebt, OneOwes
  <2>2. trk'[b] = trk[b] /\ ~(now - trk[f].last > Confirm)
    BY <1>3, <2>1, SweepEndLeaves
  <2>3. trk[f].last <= d + Longest
    BY <1>6, <2>1 DEF Unpaid
  <2>4. trk[f].last \in Nat
    BY <1>2, <2>1
  <2>5. sweep * Period <= d + Longest + Confirm
    <3> HIDE DEF f
    <3> QED
      BY <1>2, <1>3, <2>2, <2>3, <2>4, LongestIs, ConstantTypes
  <2> QED
    BY <2>1, <2>2, <2>5
<1>9. ip # b => sweep * Period <= d + Longest + Confirm
  <2>1. CASE b \in seen /\ ip # b
    <3>1. Home
      BY DEF IInv, Alone
    <3>2. sweep * Period <= d + MaxAge
      BY <1>3, <1>5, <1>7, <2>1, <3>1 DEF Home
    <3> QED
      BY <1>2, <1>3, <3>2, LongestIs, ConstantTypes
  <2>2. CASE now = d
    BY <1>2, <1>3, <2>2, LongestIs, ConstantTypes
  <2> QED
    BY <1>5, <2>1, <2>2
<1>10. ip # b /\ ~trk'[ip].used => sweep * Period <= d
  <2>1. CASE b \in seen /\ ip # b
    <3>1. trk[ip].used /\ sweep * Period <= trk[ip].last
      BY <1>6, <2>1 DEF Unpaid
    <3>2. now <= trk[ip].last + Expire
      BY <1>2, <1>4, <1>7, <3>1, ConstantTypes
    <3> QED
      BY <1>7, <3>1, <3>2, SweepEndLeaves
  <2>2. CASE now = d
    BY <1>2, <2>2
  <2> QED
    BY <1>5, <2>1, <2>2
<1>11. ASSUME NEW x \in Addrs \ {b}, trk'[x].used
       PROVE  trk'[x].last <= d + Longest
  BY <1>6, <1>11, SweepEndLeaves DEF Unpaid
<1>12. /\ sweep' * Period <= d + Longest + Confirm + Period
       /\ ip # b /\ ~trk'[ip].used => sweep' * Period <= d + Period
  BY <1>1, <1>2, <1>3, <1>8, <1>9, <1>10, LongestIs, ConstantTypes
<1> QED
  BY <1>1, <1>7, <1>8, <1>11, <1>12 DEF Unpaid

\* What is said of the table after the end of a sweep.
LEMMA SweepEndInDebt ==
    ASSUME Dense, IInv, InDebt, SweepEnd
    PROVE  InDebt'
<1>1. /\ sweep' * Period = sweep * Period + Period /\ seen' = {} /\ ip' = ip
      /\ told' = {<<trk[a].from, a>> : a \in Due}
      /\ debt' = IF \E m \in told' : m[2] = debt.to THEN NoMove ELSE debt
      /\ steady' = [a \in Addrs |-> IF a \in Occupied \cap seen THEN steady[a] ELSE now]
      /\ crowd' = crowd /\ back' = back /\ stray' = stray
  BY NextSweep DEF SweepEnd, entry, IInv, Types
<1>2. /\ now \in Nat /\ sweep * Period \in Nat /\ sweep * Period <= now
      /\ now < sweep * Period + Period /\ steady \in [Addrs -> Nat]
      /\ \A x \in Addrs : trk[x].last \in Nat /\ (~trk[x].used => trk[x].from = None)
  BY Known
<1>3. InTime /\ OneOwes /\ Period <= Confirm
  BY ConstantTypes DEF InDebt, Dense
<1>4. InTime' /\ Departed'
  BY <1>1 DEF InTime, Departed
<1>5. OneOwes'
  <2> SUFFICES ASSUME NEW x \in Addrs, trk'[x].from # None
               PROVE  /\ x = ip' /\ trk'[x].used
                      /\ trk'[x].from \in Addrs \ {x} /\ trk'[trk'[x].from].used
    BY DEF OneOwes
  <2> DEFINE f == trk[x].from
  <2>1. f # None /\ x \notin Due
    BY SweepEndLeaves
  <2>2. x = ip /\ trk[x].used /\ f \in Addrs \ {x} /\ trk[f].used
    BY <1>3, <2>1 DEF OneOwes
  <2>3. trk'[x] = trk[x] /\ ~(now - trk[f].last > Confirm)
    BY <2>1, <2>2, SweepEndLeaves
  <2>4. now <= trk[f].last + Expire
    <3>1. trk[f].last \in Nat
      BY <1>2, <2>2
    <3> HIDE DEF f
    <3> QED
      BY <1>2, <2>3, <3>1, ConstantTypes
  <2>5. trk'[f].used
    BY <2>2, <2>4, SweepEndLeaves
  <2> QED
    BY <1>1, <2>2, <2>3, <2>5
<1>6. ToldOf'
  <2> SUFFICES ASSUME NEW a \in Due
               PROVE  /\ trk[a].from \in Addrs
                      /\ sweep' * Period <= steady'[trk[a].from] + Period
    BY <1>1 DEF ToldOf
  <2> DEFINE f == trk[a].from
  <2>1. a \in Addrs /\ f # None /\ (~trk[f].used \/ now - trk[f].last > Confirm)
    BY DEF Due, Tracked
  <2>2. f \in Addrs /\ trk[f].used /\ trk[f].last \in Nat
    BY <1>2, <1>3, <2>1 DEF OneOwes
  <2>3. f \notin seen
    <3> SUFFICES ASSUME f \in seen PROVE FALSE
      OBVIOUS
    <3>1. sweep * Period <= trk[f].last
      BY <1>3, <2>2 DEF InTime
    <3> HIDE DEF f
    <3> QED
      BY <1>2, <1>3, <2>1, <2>2, <3>1, ConstantTypes
  <2>4. steady'[f] = now
    BY <1>1, <2>2, <2>3
  <2> HIDE DEF f
  <2>5. sweep' * Period <= steady'[f] + Period
    BY <1>1, <1>2, <2>4, ConstantTypes
  <2> QED
    BY <2>2, <2>5 DEF f
<1>7. Quiet' /\ debt' # NoMove => Owing(debt.to, debt.since)' /\ debt' = debt
  <2> SUFFICES ASSUME Quiet', debt' # NoMove
               PROVE  Owing(debt.to, debt.since)' /\ debt' = debt
    OBVIOUS
  <2>1. debt' = debt /\ debt # NoMove /\ Quiet /\ ~(\E m \in told' : m[2] = debt.to)
    BY <1>1 DEF Quiet
  <2> PICK b : b = debt.to
    OBVIOUS
  <2> PICK d : d = debt.since
    OBVIOUS
  <2>2. b \notin Due
    <3> SUFFICES ASSUME b \in Due PROVE FALSE
      OBVIOUS
    <3>1. <<trk[b].from, b>> \in told'
      BY <1>1
    <3> QED
      BY <2>1, <3>1
  <2>3. Owing(b, d)
    BY <2>1 DEF InDebt
  <2>4. Owing(b, d)'
    BY <2>1, <2>2, <2>3, SweepEndOwing
  <2>5. b = debt'.to /\ d = debt'.since
    BY <2>1
  <2> QED
    BY <2>1, <2>4, <2>5 DEF Owing, Unpaid
<1> QED
  BY <1>4, <1>5, <1>6, <1>7 DEF InDebt

\* A host that leaves the entry's address for another has the news to come.
LEMMA MovesOwing ==
    ASSUME Dense, IInv, InDebt, Quiet',
           NEW h \in Hosts, NEW b \in Addrs, Moves(h, b), at[h] # None, ip = at[h],
           NEW d, d = now
    PROVE  Owing(b, d)'
<1>1. /\ sweep' = sweep /\ seen' = seen /\ ip' = ip /\ trk' = trk /\ now' = now
      /\ at' = [at EXCEPT ![h] = b] /\ b # at[h] /\ b \notin Occupied
      /\ steady' = [steady EXCEPT ![b] = now] /\ b # None
      /\ gone[b] = Never \/ ~(now <= Later(gone[b], since) + MaxAge + Confirm)
  BY ConstantTypes DEF Moves, entry, Quiet
<1>2. /\ now \in Nat /\ sweep * Period \in Nat /\ sweep * Period <= now
      /\ now < sweep * Period + Period /\ since \in Nat /\ gone[b] \in Nat
      /\ steady \in [Addrs -> Nat] /\ at \in [Hosts -> Addrs \cup {None}]
      /\ \A x \in Addrs : trk[x].last \in Nat /\ (trk[x].used => trk[x].last <= now)
  BY Known DEF Types
<1>3. b \notin seen
  <2> SUFFICES ASSUME b \in seen PROVE FALSE
    OBVIOUS
  <2>1. gone[b] # Never /\ sweep * Period <= gone[b] + MaxAge
    BY <1>1 DEF InDebt, Departed
  <2>2. gone[b] <= Later(gone[b], since) /\ Later(gone[b], since) \in Nat
    BY <1>2 DEF Later
  <2> QED
    BY <1>1, <1>2, <2>1, <2>2, ConstantTypes DEF Dense
<1>4. b \in Occupied' /\ steady'[b] = d /\ d \in Nat /\ ip' # b /\ ip' # None
  <2>1. at'[h] = b
    BY <1>1, <1>2
  <2> QED
    BY <1>1, <1>2, <2>1 DEF Occupied
<1>5. ASSUME NEW x \in Addrs \ {b}, trk'[x].used
      PROVE  trk'[x].last <= d + Longest
  BY <1>1, <1>2, <1>4, <1>5, LongestIs
<1>6. sweep * Period <= d + Period /\ sweep * Period <= d + Longest + Confirm + Period
  BY <1>1, <1>2, <1>4, LongestIs, ConstantTypes
<1> QED
  BY <1>1, <1>2, <1>3, <1>4, <1>5, <1>6 DEF Owing, Unpaid

\* What is said of the table after a host has come, moved or gone.
LEMMA MovesInDebt ==
    ASSUME Dense, IInv, InDebt,
           NEW h \in Hosts, NEW a \in Addrs \cup {None}, Moves(h, a)
    PROVE  InDebt'
<1>1. /\ sweep' = sweep /\ seen' = seen /\ ip' = ip /\ trk' = trk /\ now' = now /\ told' = told
      /\ at' = [at EXCEPT ![h] = a]
      /\ gone' = IF at[h] = None THEN gone ELSE [gone EXCEPT ![at[h]] = now]
      /\ steady' = IF a = None THEN steady ELSE [steady EXCEPT ![a] = now]
      /\ debt' = IF at[h] # None /\ ip = at[h] /\ a # None
                 THEN [to |-> a, since |-> now] ELSE NoMove
  BY DEF Moves, entry
<1>2. /\ now \in Nat /\ 1 <= now /\ sweep * Period \in Nat /\ sweep * Period <= now
      /\ gone \in [Addrs -> Nat] /\ steady \in [Addrs -> Nat] /\ seen \subseteq Addrs
      /\ at \in [Hosts -> Addrs \cup {None}] /\ \A x \in Addrs : steady[x] <= now
  BY Known DEF Types
<1>3. InTime' /\ OneOwes'
  BY <1>1 DEF InDebt, InTime, OneOwes
<1>4. Departed'
  <2> SUFFICES ASSUME NEW x \in seen, x \notin Occupied'
               PROVE  gone'[x] # Never /\ sweep * Period <= gone'[x] + MaxAge
    BY <1>1 DEF Departed
  <2>1. CASE x = at[h]
    <3>1. gone'[x] = now
      BY <1>1, <1>2, <2>1, ConstantTypes
    <3> QED
      BY <1>2, <3>1, ConstantTypes DEF Never
  <2>2. CASE x # at[h]
    <3>1. gone'[x] = gone[x]
      BY <1>1, <1>2, <2>2
    <3>2. x \notin Occupied
      BY <1>1, <1>2, <2>2 DEF Occupied
    <3> QED
      BY <3>1, <3>2 DEF InDebt, Departed
  <2> QED
    BY <2>1, <2>2
<1>5. ToldOf'
  <2>1. \A x \in Addrs : steady'[x] = steady[x] \/ steady'[x] = now
    BY <1>1, <1>2
  <2> QED
    BY <1>1, <1>2, <2>1, ConstantTypes DEF InDebt, ToldOf
<1>6. ASSUME Quiet', debt' # NoMove
      PROVE  Owing(debt.to, debt.since)'
  <2>1. /\ at[h] # None /\ ip = at[h] /\ a \in Addrs
        /\ debt'.to = a /\ debt'.since = now
    BY <1>1, <1>6
  <2> PICK d : d = now
    OBVIOUS
  <2>2. Owing(a, d)'
    BY <1>6, <2>1, MovesOwing
  <2> QED
    BY <2>1, <2>2 DEF Owing, Unpaid
<1> QED
  BY <1>3, <1>4, <1>5, <1>6 DEF InDebt

\* The steps that leave the table, or empty it, and pay or make no debt.
LEMMA OthersInDebt ==
    ASSUME IInv, IInv', InDebt, Passes \/ Forget \/ UNCHANGED vars
    PROVE  InDebt'
<1>1. /\ sweep' = sweep /\ seen' = seen /\ told' = told /\ at' = at /\ gone' = gone
  BY DEF Passes, Forget, vars, entry, world, history
<1>2. /\ now \in Nat /\ now' \in Nat /\ now <= now' /\ sweep * Period \in Nat
      /\ sweep * Period <= now
      /\ seen \subseteq Addrs /\ steady \in [Addrs -> Nat]
  BY Known DEF Passes, Forget, vars, entry, world, history
<1>3. Departed'
  BY <1>1 DEF InDebt, Departed, Occupied
<1>4. CASE Forget
  <2>1. /\ \A x \in Addrs : ~trk'[x].used /\ trk'[x].from = None
        /\ debt' = NoMove /\ \A x \in Addrs : steady'[x] = now
    BY <1>4 DEF Forget, Free
  <2>2. InTime' /\ OneOwes'
    BY <1>1, <1>2, <2>1 DEF InTime, OneOwes
  <2>3. ToldOf'
    BY <1>1, <1>2, <2>1, ConstantTypes DEF InDebt, ToldOf
  <2> QED
    BY <1>3, <2>1, <2>2, <2>3 DEF InDebt
<1>5. CASE Passes \/ UNCHANGED vars
  <2>1. /\ trk' = trk /\ ip' = ip /\ steady' = steady /\ debt' = debt /\ Quiet' = Quiet
    BY <1>5 DEF Passes, vars, entry, world, history, Quiet
  <2>2. InTime' /\ OneOwes' /\ ToldOf'
    BY <1>1, <2>1 DEF InDebt, InTime, OneOwes, ToldOf
  <2>3. ASSUME Quiet', debt' # NoMove PROVE Owing(debt.to, debt.since)'
    <3>1. Owing(debt.to, debt.since)
      BY <2>1, <2>3 DEF InDebt
    <3> QED
      BY <1>1, <1>2, <2>1, <3>1 DEF Owing, Unpaid, Occupied
  <2> QED
    BY <1>3, <2>2, <2>3 DEF InDebt
<1> QED
  BY <1>4, <1>5

\* The news of a move come in time, wherever stale sightings take the entry
\* meanwhile, and of no address that a host was found at (addr_track_locked,
\* collect_moves_due_locked): if a walk and the interval after it fit in the
\* window, and each address has a slot.
THEOREM MovesTold ==
    ASSUME Dense
    PROVE  Spec => []MovesAreTold
<1>1. CASE Roomy
  <2>1. Init => InDebt
    <3> SUFFICES ASSUME Init PROVE InDebt
      OBVIOUS
    <3>1. /\ trk = [a \in Addrs |-> Free] /\ seen = {} /\ told = {} /\ debt = NoMove
      BY DEF Init
    <3> QED
      BY <3>1 DEF InDebt, InTime, OneOwes, Departed, ToldOf, Free
  <2>2. IInv /\ IInv' /\ InDebt /\ [Next]_vars => InDebt'
    BY <1>1, SightedInDebt, SweepEndInDebt, MovesInDebt, OthersInDebt DEF Next
  <2>3. IInv /\ InDebt => MovesAreTold
    <3> SUFFICES ASSUME IInv, InDebt PROVE MovesAreTold
      OBVIOUS
    <3>1. \A m \in told : m[1] \in Occupied => sweep * Period <= steady[m[1]] + Period
      BY DEF InDebt, ToldOf
    <3>2. ASSUME debt # NoMove, Quiet, steady[debt.to] <= debt.since
          PROVE  now <= debt.since + Later(MaxAge, Period + Walk) + Confirm + 2 * Period
      <4> PICK b : b = debt.to
        OBVIOUS
      <4> PICK d : d = debt.since
        OBVIOUS
      <4>1. Owing(b, d) /\ steady[b] <= d
        BY <3>2 DEF InDebt
      <4>2. b \in Addrs /\ d \in Nat /\ steady[b] \in Nat
        BY <4>1, Known DEF Owing
      <4>3. steady[b] = d
        BY <4>1, <4>2 DEF Owing
      <4>4. sweep * Period <= d + Longest + Confirm + Period
        BY <4>1, <4>3 DEF Owing, Unpaid
      <4>5. now <= d + Longest + Confirm + 2 * Period
        BY <4>2, <4>4, Known, LongestIs, ConstantTypes
      <4> QED
        BY <4>5 DEF Longest
    <3> QED
      BY <3>1, <3>2 DEF MovesAreTold, Quiet
  <2> QED
    BY <2>1, <2>2, <2>3, Invariance, PTL DEF Spec
<1>2. CASE ~Roomy
  <2>1. MovesAreTold
    BY <1>2 DEF MovesAreTold
  <2> QED
    BY <2>1, PTL
<1> QED
  BY <1>1, <1>2

=============================================================================
