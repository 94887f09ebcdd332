--------------------------- MODULE WifiMgrProofs ---------------------------
(***************************************************************************)
(* What holds of the Wi-Fi manager for any credentials, any length of the  *)
(* worker's queue and any number of events of the driver that wait: once   *)
(* both are empty, what the others are told is so (SettledIsSo), and       *)
(* credentials that never worked leave a way in (WayIn).                   *)
(*                                                                         *)
(* That an address is there is noted when the driver's event is delivered; *)
(* that the link is gone, when the worker comes to it.  Linked says what   *)
(* is under way between the two: read in order, it ends with the truth.    *)
(***************************************************************************)
EXTENDS WifiMgr, SequenceTheorems, TLAPS

Events == {"sta_start", "sta_stop", "down", "got_ip", "lost_ip"}
Modes  == {"off", "sta", "ap", "apsta"}
Driver == [mode : Modes, link : {"down", "joining", "up"}, conf : Saved, events : Seq(Events)]

\* What hasIp will be, now h, when the events ev are delivered.
Tells(ev, h) ==
    \/ \E i \in DOMAIN ev : /\ ev[i] = "got_ip"
                            /\ \A j \in DOMAIN ev : i < j => ev[j] # "lost_ip"
    \/ h /\ \A j \in DOMAIN ev : ev[j] # "lost_ip"

\* No address is got after a disconnection that is still to be delivered.
DownLast(ev) == \A i, j \in DOMAIN ev : i < j /\ ev[i] = "down" => ev[j] # "got_ip"

\* The link is up, and what is on the way says so and does not take it back; or
\* it is not, and what is on the way does not say so, or takes it back.
Linked(d, q, h) ==
    /\ DownLast(d.events)
    /\ IsIn("down", q) => ~IsIn("got_ip", d.events)
    /\ IF d.link = "up"
       THEN ~IsIn("down", q) /\ ~IsIn("down", d.events) /\ Tells(d.events, h)
       ELSE IsIn("down", q) \/ IsIn("down", d.events) \/ ~Tells(d.events, h)

Types ==
    /\ saved \in Saved /\ cfg \in Saved \union {"unset"}
    /\ enabled \in BOOLEAN /\ ifaceUp \in BOOLEAN /\ fallback \in BOOLEAN
    /\ hasIp \in BOOLEAN /\ joined \in BOOLEAN /\ misled \in BOOLEAN
    /\ overridden \in BOOLEAN /\ refused \in BOOLEAN /\ started \in BOOLEAN
    /\ armed \subseteq Timers /\ queue \in Seq(Messages) /\ drv \in Driver

\* Until the first message is taken nothing has happened.
Unset ==
    cfg = "unset" =>
        /\ ~fallback /\ ~hasIp /\ armed = {} /\ drv = Off /\ http.pc # "borrowed"
        /\ queue # <<>> /\ \A i \in DOMAIN queue : queue[i] = "apply"

Wanted == enabled <=> cfg \in Creds

\* A driver that never refused runs, and is configured as the worker last said,
\* but for the station that a scan borrows, and takes back.
Configured == ~refused =>
    /\ cfg # "unset" => started
    /\ cfg \in Creds => drv.conf = cfg
    /\ fallback => HasAp(drv.mode)
    /\ ~overridden => /\ cfg \in Creds => HasSta(drv.mode)
                      /\ cfg = "none" => \/ drv.mode = "ap"
                                         \/ drv.mode = "apsta" /\ http.pc = "borrowed"

\* Until an address is handled: one that is there is about to be, and without one
\* the window is open, or about to bring up the setup AP.
Tried ==
    enabled /\ ~joined /\ ~misled /\ ~refused =>
        /\ hasIp => IsIn("got_ip", queue)
        /\ ~hasIp /\ ~HasAp(drv.mode) =>
              "window" \in armed \/ IsIn("window", queue) \/ IsIn("got_ip", queue)

IInv == Types /\ Unset /\ Wanted /\ Configured /\ Tried /\ Linked(drv, queue, hasIp)

-----------------------------------------------------------------------------
(* Messages and events that wait.                                          *)

\* One more.
LEMMA Appended ==
    ASSUME NEW S, NEW s \in Seq(S), NEW x \in S
    PROVE  /\ Append(s, x) \in Seq(S) /\ Append(s, x) # <<>>
           /\ Len(s) \in Nat /\ DOMAIN s = 1 .. Len(s)
           /\ DOMAIN Append(s, x) = 1 .. (Len(s) + 1)
           /\ Append(s, x)[Len(s) + 1] = x
           /\ \A i \in 1 .. Len(s) : Append(s, x)[i] = s[i]
           /\ \A m : IsIn(m, Append(s, x)) <=> m = x \/ IsIn(m, s)
<1>1. /\ Append(s, x) \in Seq(S) /\ Append(s, x) # <<>>
      /\ Len(s) \in Nat /\ DOMAIN s = 1 .. Len(s)
      /\ DOMAIN Append(s, x) = 1 .. (Len(s) + 1)
      /\ Append(s, x)[Len(s) + 1] = x
      /\ \A i \in 1 .. Len(s) : Append(s, x)[i] = s[i]
  BY AppendProperties, LenProperties
<1>2. ASSUME NEW m
      PROVE  IsIn(m, Append(s, x)) <=> m = x \/ IsIn(m, s)
  <2>1. IsIn(m, Append(s, x)) => m = x \/ IsIn(m, s)
    <3> SUFFICES ASSUME NEW i \in 1 .. (Len(s) + 1), Append(s, x)[i] = m, i # Len(s) + 1
                 PROVE  IsIn(m, s)
      BY <1>1 DEF IsIn
    <3>1. i \in 1 .. Len(s)
      BY <1>1
    <3> QED
      BY <1>1, <3>1 DEF IsIn
  <2>2. m = x => IsIn(m, Append(s, x))
    <3>1. Len(s) + 1 \in DOMAIN Append(s, x)
      BY <1>1
    <3> QED
      BY <1>1, <3>1 DEF IsIn
  <2>3. IsIn(m, s) => IsIn(m, Append(s, x))
    <3> SUFFICES ASSUME NEW i \in 1 .. Len(s), s[i] = m
                 PROVE  IsIn(m, Append(s, x))
      BY <1>1 DEF IsIn
    <3>1. i \in DOMAIN Append(s, x)
      BY <1>1
    <3> QED
      BY <1>1, <3>1 DEF IsIn
  <2> QED
    BY <2>1, <2>2, <2>3
<1> QED
  BY <1>1, <1>2

\* One less.
LEMMA Taken ==
    ASSUME NEW S, NEW s \in Seq(S), s # <<>>
    PROVE  /\ Tail(s) \in Seq(S) /\ Len(s) \in Nat /\ 1 <= Len(s)
           /\ DOMAIN s = 1 .. Len(s) /\ DOMAIN Tail(s) = 1 .. (Len(s) - 1)
           /\ Head(s) = s[1] /\ Head(s) \in S
           /\ \A i \in 1 .. (Len(s) - 1) : Tail(s)[i] = s[i + 1]
           /\ \A m : IsIn(m, s) <=> m = Head(s) \/ IsIn(m, Tail(s))
<1>1. /\ Tail(s) \in Seq(S) /\ Len(s) \in Nat /\ 1 <= Len(s)
      /\ DOMAIN s = 1 .. Len(s) /\ DOMAIN Tail(s) = 1 .. (Len(s) - 1)
      /\ Head(s) = s[1] /\ Head(s) \in S
      /\ \A i \in 1 .. (Len(s) - 1) : Tail(s)[i] = s[i + 1]
  <2>1. Len(s) \in Nat /\ Len(s) # 0
    BY LenProperties, EmptySeq
  <2>2. Tail(s) \in Seq(S) /\ Len(Tail(s)) = Len(s) - 1 /\ Head(s) \in S
        /\ \A i \in 1 .. Len(Tail(s)) : Tail(s)[i] = s[i + 1]
    BY HeadTailProperties
  <2> QED
    BY <2>1, <2>2, LenProperties
<1>2. ASSUME NEW m
      PROVE  IsIn(m, s) <=> m = Head(s) \/ IsIn(m, Tail(s))
  <2>1. ASSUME NEW i \in 1 .. Len(s), s[i] = m, i # 1
        PROVE  IsIn(m, Tail(s))
    <3>1. i - 1 \in DOMAIN Tail(s) /\ Tail(s)[i - 1] = s[i]
      BY <1>1, <2>1
    <3> QED
      BY <2>1, <3>1 DEF IsIn
  <2>2. ASSUME NEW i \in DOMAIN Tail(s), Tail(s)[i] = m
        PROVE  IsIn(m, s)
    <3>1. i + 1 \in DOMAIN s /\ s[i + 1] = m
      BY <1>1, <2>2
    <3> QED
      BY <3>1 DEF IsIn
  <2>3. m = Head(s) => IsIn(m, s)
    <3>1. 1 \in DOMAIN s
      BY <1>1
    <3> QED
      BY <1>1, <3>1 DEF IsIn
  <2> QED
    BY <1>1, <2>1, <2>2, <2>3 DEF IsIn
<1> QED
  BY <1>1, <1>2

\* The last event that says something of the address counts.
LEMMA TellsAppended ==
    ASSUME NEW ev \in Seq(Events), NEW x \in Events, NEW h \in BOOLEAN
    PROVE  Tells(Append(ev, x), h) <=> (x = "got_ip" \/ Tells(ev, h)) /\ x # "lost_ip"
<1> DEFINE w == Append(ev, x)
           n == Len(ev)
<1>1. /\ n \in Nat /\ DOMAIN ev = 1 .. n /\ DOMAIN w = 1 .. (n + 1) /\ w[n + 1] = x
      /\ \A i \in 1 .. n : w[i] = ev[i]
  BY Appended
<1>2. \A i \in 1 .. (n + 1) : i = n + 1 \/ i \in 1 .. n
  BY <1>1
<1>3. n + 1 \in 1 .. (n + 1) /\ \A i \in 1 .. n : i < n + 1 /\ i \in 1 .. (n + 1)
  BY <1>1
<1> HIDE DEF w, n
<1>4. CASE x = "lost_ip"
  BY <1>1, <1>2, <1>3, <1>4 DEF Tells
<1>5. CASE x = "got_ip"
  <2>1. \A j \in 1 .. (n + 1) : ~(n + 1 < j)
    BY <1>1
  <2> QED
    BY <1>1, <1>3, <1>5, <2>1 DEF Tells
<1>6. CASE x \notin {"lost_ip", "got_ip"}
  BY <1>1, <1>2, <1>3, <1>6 DEF Tells
<1> QED
  BY <1>4, <1>5, <1>6 DEF w

\* Delivering an event changes nothing of what is told in the end.
LEMMA TellsTaken ==
    ASSUME NEW ev \in Seq(Events), ev # <<>>, NEW h \in BOOLEAN, NEW g \in BOOLEAN,
           g <=> (h \/ Head(ev) = "got_ip") /\ Head(ev) # "lost_ip"
    PROVE  Tells(Tail(ev), g) <=> Tells(ev, h)
<1> DEFINE w == Tail(ev)
           n == Len(ev)
<1>1. /\ n \in Nat /\ 1 <= n /\ DOMAIN ev = 1 .. n /\ DOMAIN w = 1 .. (n - 1) /\ Head(ev) = ev[1]
      /\ \A i \in 1 .. (n - 1) : w[i] = ev[i + 1]
  BY Taken
<1> HIDE DEF w, n
<1>2. \A i \in 1 .. n : i = 1 \/ (i - 1 \in 1 .. (n - 1) /\ w[i - 1] = ev[i])
  BY <1>1
<1>3. \A i \in 1 .. (n - 1) : i + 1 \in 1 .. n /\ 1 < i + 1
  BY <1>1
<1>4. Tells(w, g) => Tells(ev, h)
  <2>1. CASE \E i \in DOMAIN w : w[i] = "got_ip" /\ \A j \in DOMAIN w : i < j => w[j] # "lost_ip"
    <3>1. PICK i \in 1 .. (n - 1) :
             w[i] = "got_ip" /\ \A j \in 1 .. (n - 1) : i < j => w[j] # "lost_ip"
      BY <1>1, <2>1
    <3>2. i + 1 \in 1 .. n /\ ev[i + 1] = "got_ip"
      BY <1>1, <1>3, <3>1
    <3>3. ASSUME NEW j \in 1 .. n, i + 1 < j
          PROVE  ev[j] # "lost_ip"
      <4>1. j # 1 /\ i < j - 1
        BY <1>1, <3>3
      <4> QED
        BY <1>2, <3>1, <4>1
    <3> QED
      BY <1>1, <3>2, <3>3 DEF Tells
  <2>2. CASE g /\ \A j \in DOMAIN w : w[j] # "lost_ip"
    <3>1. ev[1] # "lost_ip" /\ (h \/ ev[1] = "got_ip") /\ 1 \in 1 .. n
      BY <1>1, <2>2
    <3>2. \A j \in 1 .. n : ev[j] # "lost_ip"
      BY <1>1, <1>2, <2>2, <3>1
    <3> QED
      BY <1>1, <3>1, <3>2 DEF Tells
  <2> QED
    BY <2>1, <2>2 DEF Tells
<1>5. Tells(ev, h) => Tells(w, g)
  <2>1. CASE \E i \in DOMAIN ev : ev[i] = "got_ip" /\ \A j \in DOMAIN ev : i < j => ev[j] # "lost_ip"
    <3>1. PICK i \in 1 .. n : ev[i] = "got_ip" /\ \A j \in 1 .. n : i < j => ev[j] # "lost_ip"
      BY <1>1, <2>1
    <3>2. ASSUME NEW j \in 1 .. (n - 1), i < j + 1
          PROVE  w[j] # "lost_ip"
      BY <1>1, <1>3, <3>1, <3>2
    <3>3. CASE i = 1
      <4>1. \A j \in 1 .. (n - 1) : w[j] # "lost_ip"
        BY <1>3, <3>2, <3>3
      <4>2. g
        BY <1>1, <3>1, <3>3
      <4> QED
        BY <1>1, <4>1, <4>2 DEF Tells
    <3>4. CASE i # 1
      <4>1. i - 1 \in 1 .. (n - 1) /\ w[i - 1] = "got_ip"
        BY <1>2, <3>1, <3>4
      <4>2. \A j \in 1 .. (n - 1) : i - 1 < j => w[j] # "lost_ip"
        BY <1>1, <3>2
      <4> QED
        BY <1>1, <4>1, <4>2 DEF Tells
    <3> QED
      BY <3>3, <3>4
  <2>2. CASE h /\ \A j \in DOMAIN ev : ev[j] # "lost_ip"
    <3>1. 1 \in 1 .. n /\ g
      BY <1>1, <2>2
    <3>2. \A j \in 1 .. (n - 1) : w[j] # "lost_ip"
      BY <1>1, <1>3, <2>2
    <3> QED
      BY <1>1, <3>1, <3>2 DEF Tells
  <2> QED
    BY <2>1, <2>2 DEF Tells
<1> QED
  BY <1>4, <1>5 DEF w

\* An address is got only when no disconnection is under way.
LEMMA DownLastAppended ==
    ASSUME NEW ev \in Seq(Events), DownLast(ev), NEW x \in Events,
           x = "got_ip" => ~IsIn("down", ev)
    PROVE  DownLast(Append(ev, x))
<1>1. /\ Len(ev) \in Nat /\ DOMAIN ev = 1 .. Len(ev)
      /\ DOMAIN Append(ev, x) = 1 .. (Len(ev) + 1) /\ Append(ev, x)[Len(ev) + 1] = x
      /\ \A i \in 1 .. Len(ev) : Append(ev, x)[i] = ev[i]
  BY Appended
<1> SUFFICES ASSUME NEW i \in 1 .. (Len(ev) + 1), NEW j \in 1 .. (Len(ev) + 1), i < j,
                    Append(ev, x)[i] = "down"
             PROVE  Append(ev, x)[j] # "got_ip"
  BY <1>1 DEF DownLast
<1>2. i \in 1 .. Len(ev) /\ ev[i] = "down"
  BY <1>1
<1>3. CASE j = Len(ev) + 1
  BY <1>1, <1>2, <1>3 DEF IsIn
<1>4. CASE j # Len(ev) + 1
  <2>1. j \in 1 .. Len(ev)
    BY <1>1, <1>4
  <2> QED
    BY <1>1, <1>2, <2>1 DEF DownLast
<1> QED
  BY <1>3, <1>4

\* None is left to be delivered once a disconnection is.
LEMMA DownLastTaken ==
    ASSUME NEW ev \in Seq(Events), ev # <<>>, DownLast(ev)
    PROVE  DownLast(Tail(ev)) /\ (Head(ev) = "down" => ~IsIn("got_ip", Tail(ev)))
<1>1. /\ Len(ev) \in Nat /\ DOMAIN ev = 1 .. Len(ev) /\ 1 <= Len(ev)
      /\ DOMAIN Tail(ev) = 1 .. (Len(ev) - 1) /\ Head(ev) = ev[1]
      /\ \A i \in 1 .. (Len(ev) - 1) : Tail(ev)[i] = ev[i + 1]
  BY Taken
<1>2. \A i \in 1 .. (Len(ev) - 1) : i + 1 \in 1 .. Len(ev) /\ 1 < i + 1
  BY <1>1
<1>3. DownLast(Tail(ev))
  <2> SUFFICES ASSUME NEW i \in 1 .. (Len(ev) - 1), NEW j \in 1 .. (Len(ev) - 1), i < j,
                      Tail(ev)[i] = "down"
               PROVE  Tail(ev)[j] # "got_ip"
    BY <1>1 DEF DownLast
  <2>1. i + 1 < j + 1
    OBVIOUS
  <2> QED
    BY <1>1, <1>2, <2>1 DEF DownLast
<1>4. Head(ev) = "down" => ~IsIn("got_ip", Tail(ev))
  <2>1. 1 \in 1 .. Len(ev)
    BY <1>1
  <2> QED
    BY <1>1, <1>2, <2>1 DEF IsIn, DownLast
<1> QED
  BY <1>3, <1>4

-----------------------------------------------------------------------------
(* The driver's calls.                                                     *)

\* What a call makes of the driver d: no address more or less than there was, and
\* a link that is not up unless it was, with a disconnection to be delivered if so.
Calls(d, e) ==
    /\ \A h \in BOOLEAN : Tells(e.events, h) <=> Tells(d.events, h)
    /\ IsIn("down", d.events) => IsIn("down", e.events)
    /\ IsIn("got_ip", e.events) => IsIn("got_ip", d.events)
    /\ DownLast(d.events) => DownLast(e.events)
    /\ IF e.link = "up" THEN d.link = "up" /\ (IsIn("down", e.events) => IsIn("down", d.events))
                        ELSE d.link = "up" => IsIn("down", e.events)

\* One call after another.
LEMMA CallsTransitive ==
    ASSUME NEW d, NEW e, NEW f, Calls(d, e), Calls(e, f)
    PROVE  Calls(d, f)
BY DEF Calls

\* A call that leaves no event, and the link where it was or not up.
LEMMA SilentCalls ==
    ASSUME NEW d, NEW e, e.events = d.events,
           e.link = d.link \/ (e.link # "up" /\ d.link # "up")
    PROVE  Calls(d, e)
BY DEF Calls

\* A call that leaves an event.
LEMMA EventCalls ==
    ASSUME NEW d \in Driver, NEW e, NEW x \in {"sta_start", "sta_stop", "down"},
           e.events = Append(d.events, x),
           IF x = "down" THEN e.link # "up" ELSE e.link = d.link
    PROVE  Calls(d, e)
<1>1. d.events \in Seq(Events) /\ x \in Events
  BY DEF Driver, Events
<1>2. \A h \in BOOLEAN : Tells(e.events, h) <=> Tells(d.events, h)
  BY <1>1, TellsAppended
<1>3. \A m : IsIn(m, e.events) <=> m = x \/ IsIn(m, d.events)
  BY <1>1, Appended
<1>4. DownLast(d.events) => DownLast(e.events)
  BY <1>1, DownLastAppended
<1> QED
  BY <1>2, <1>3, <1>4 DEF Calls

\* esp_wifi_disconnect()
LEMMA DisconnectedCalls ==
    ASSUME NEW d \in Driver
    PROVE  /\ Disconnected(d) \in Driver /\ Calls(d, Disconnected(d))
           /\ Disconnected(d).link = "down"
           /\ Disconnected(d).mode = d.mode /\ Disconnected(d).conf = d.conf
<1>1. CASE d.link = "down"
  BY <1>1, SilentCalls DEF Disconnected
<1>2. CASE d.link # "down"
  <2> DEFINE e == Disconnected(d)
  <2>1. e = [d EXCEPT !.link = "down", !.events = Append(d.events, "down")]
    BY <1>2 DEF Disconnected
  <2>2. d.events \in Seq(Events) /\ Append(d.events, "down") \in Seq(Events)
    BY Appended DEF Driver, Events
  <2>3. e = [mode |-> d.mode, link |-> "down", conf |-> d.conf,
             events |-> Append(d.events, "down")]
    BY <2>1 DEF Driver
  <2> HIDE DEF e
  <2>4. e \in Driver
    BY <2>2, <2>3 DEF Driver
  <2>5. Calls(d, e)
    BY <2>3, EventCalls
  <2> QED
    BY <2>3, <2>4, <2>5 DEF e
<1> QED
  BY <1>1, <1>2

\* esp_wifi_set_mode()
LEMMA SwitchedCalls ==
    ASSUME NEW d \in Driver, NEW mode \in Modes
    PROVE  /\ Switched(d, mode) \in Driver /\ Calls(d, Switched(d, mode))
           /\ Switched(d, mode).mode = mode /\ Switched(d, mode).conf = d.conf
<1> DEFINE s == Switched(d, mode)
           Marked(e, x) == [e EXCEPT !.mode = mode, !.events = Append(e.events, x)]
<1>1. ASSUME NEW e \in Driver, NEW x \in {"sta_start", "sta_stop"}
      PROVE  /\ Marked(e, x) \in Driver /\ Calls(e, Marked(e, x))
             /\ Marked(e, x).mode = mode /\ Marked(e, x).conf = e.conf
  <2>1. e.events \in Seq(Events) /\ Append(e.events, x) \in Seq(Events)
    BY Appended DEF Driver, Events
  <2>2. Marked(e, x) = [mode |-> mode, link |-> e.link, conf |-> e.conf,
                        events |-> Append(e.events, x)]
    <3>1. e = [mode |-> e.mode, link |-> e.link, conf |-> e.conf, events |-> e.events]
      BY DEF Driver
    <3> DEFINE ev == Append(e.events, x)
    <3>2. Marked(e, x) = [e EXCEPT !.mode = mode, !.events = ev]
      OBVIOUS
    <3> HIDE DEF ev, Marked
    <3>3. Marked(e, x) = [mode |-> mode, link |-> e.link, conf |-> e.conf, events |-> ev]
      BY <3>1, <3>2
    <3> QED
      BY <3>3 DEF ev
  <2> HIDE DEF Marked
  <2>3. Marked(e, x) \in Driver
    BY <2>1, <2>2 DEF Driver
  <2>4. Calls(e, Marked(e, x))
    BY <2>2, EventCalls
  <2> QED
    BY <2>2, <2>3, <2>4
<1>2. CASE ~started \/ HasSta(mode) = HasSta(d.mode)
  <2>1. s = [d EXCEPT !.mode = mode]
    <3>1. CASE ~started
      BY <3>1 DEF Switched
    <3>2. CASE HasSta(mode) = HasSta(d.mode)
      BY <3>2 DEF Switched
    <3> QED
      BY <1>2, <3>1, <3>2
  <2>2. s = [mode |-> mode, link |-> d.link, conf |-> d.conf, events |-> d.events]
    BY <2>1 DEF Driver
  <2> HIDE DEF s
  <2>3. s \in Driver
    BY <2>2 DEF Driver
  <2>4. Calls(d, s)
    BY <2>2, SilentCalls
  <2> QED
    BY <2>2, <2>3, <2>4 DEF s
<1>3. CASE started /\ HasSta(mode) /\ ~HasSta(d.mode)
  <2>1. s = Marked(d, "sta_start")
    BY <1>3 DEF Switched
  <2> HIDE DEF s, Marked
  <2> QED
    BY <1>1, <2>1 DEF s
<1>4. CASE started /\ ~HasSta(mode) /\ HasSta(d.mode)
  <2> DEFINE e == Disconnected(d)
  <2>1. s = Marked(e, "sta_stop")
    BY <1>4 DEF Switched
  <2>2. e \in Driver /\ Calls(d, e) /\ e.conf = d.conf
    BY DisconnectedCalls
  <2> HIDE DEF e, s, Marked
  <2>3. s \in Driver /\ Calls(e, s) /\ s.mode = mode /\ s.conf = d.conf
    BY <1>1, <2>1, <2>2
  <2> QED
    BY <2>2, <2>3, CallsTransitive DEF s
<1> HIDE DEF s
<1>5. HasSta(mode) \in BOOLEAN /\ HasSta(d.mode) \in BOOLEAN
  BY DEF HasSta
<1> QED
  BY <1>2, <1>3, <1>4, <1>5 DEF s

\* set_mode()
LEMMA SetModeCalls ==
    ASSUME NEW d \in Driver, NEW mode \in Modes, NEW c \in Saved, NEW res
    PROVE  /\ SetMode(res, d, mode, c) \in Driver /\ Calls(d, SetMode(res, d, mode, c))
           /\ res = "done" \/ d.mode = mode =>
                 /\ SetMode(res, d, mode, c).mode = mode
                 /\ SetMode(res, d, mode, c).conf =
                       IF d.mode # mode /\ HasSta(mode) THEN c ELSE d.conf
<1> DEFINE e == Switched(d, mode)
           s == SetMode(res, d, mode, c)
<1>1. CASE d.mode = mode \/ res # "done"
  BY <1>1, SilentCalls DEF SetMode
<1>2. e \in Driver /\ Calls(d, e) /\ e.mode = mode /\ e.conf = d.conf
  BY SwitchedCalls
<1> HIDE DEF e
<1>3. CASE d.mode # mode /\ res = "done" /\ HasSta(mode)
  <2>1. s = [e EXCEPT !.conf = c]
    BY <1>3 DEF SetMode, e
  <2>2. s = [mode |-> mode, link |-> e.link, conf |-> c, events |-> e.events]
    BY <1>2, <2>1 DEF Driver
  <2> HIDE DEF s
  <2>3. s \in Driver
    BY <1>2, <2>2 DEF Driver
  <2>4. Calls(e, s)
    BY <2>2, SilentCalls
  <2>5. Calls(d, s)
    BY <1>2, <2>4, CallsTransitive
  <2> QED
    BY <1>3, <2>2, <2>3, <2>5 DEF s
<1>4. CASE d.mode # mode /\ res = "done" /\ ~HasSta(mode)
  <2>1. s = e
    BY <1>4 DEF SetMode, e
  <2> HIDE DEF s
  <2> QED
    BY <1>2, <1>4, <2>1 DEF s
<1> QED
  BY <1>1, <1>3, <1>4

\* start_driver(): what there is once the driver has not refused.
LEMMA StartCalls ==
    ASSUME NEW d \in Driver, NEW mode \in Modes, mode # "off", NEW c \in Saved,
           NEW res \in Outcomes, d.mode = drv.mode, Starts(res, mode),
           started \in BOOLEAN, refused \in BOOLEAN
    PROVE  /\ StartDriver(res, d, mode, c) \in Driver /\ Calls(d, StartDriver(res, d, mode, c))
           /\ started' \in BOOLEAN /\ refused' \in BOOLEAN /\ (refused => refused')
           /\ ~refused' => /\ started' /\ StartDriver(res, d, mode, c).mode = mode
                           /\ d.mode # mode /\ HasSta(mode) => StartDriver(res, d, mode, c).conf = c
<1> DEFINE s == StartDriver(res, d, mode, c)
<1>1. /\ started' \in BOOLEAN /\ refused' \in BOOLEAN /\ (refused => refused')
      /\ ~refused' => started' /\ res = "done"
  BY DEF Starts
<1>2. CASE started
  BY <1>1, <1>2, SetModeCalls DEF StartDriver
<1>3. CASE ~started /\ res = "no mode"
  BY <1>1, <1>3, SilentCalls DEF StartDriver
<1>4. CASE ~started /\ res # "no mode"
  <2> DEFINE conf == IF HasSta(mode) THEN c ELSE d.conf
             ev   == IF res = "done" /\ HasSta(mode) THEN Append(d.events, "sta_start")
                     ELSE d.events
  <2>1. s = [d EXCEPT !.mode = mode, !.conf = conf, !.events = ev]
    BY <1>4 DEF StartDriver
  <2>2. d.events \in Seq(Events) /\ Append(d.events, "sta_start") \in Seq(Events)
    BY Appended DEF Driver, Events
  <2>3. conf \in Saved /\ ev \in Seq(Events)
    BY <2>2 DEF Driver
  <2>4. (HasSta(mode) => conf = c) /\ (ev = d.events \/ ev = Append(d.events, "sta_start"))
    OBVIOUS
  <2> HIDE DEF conf, ev, s
  <2>5. s = [mode |-> mode, link |-> d.link, conf |-> conf, events |-> ev]
    BY <2>1 DEF Driver
  <2>6. s \in Driver
    BY <2>3, <2>5 DEF Driver
  <2>7. Calls(d, s)
    BY <2>4, <2>5, SilentCalls, EventCalls
  <2> QED
    BY <1>1, <2>4, <2>5, <2>6, <2>7 DEF s
<1> QED
  BY <1>2, <1>3, <1>4

\* try_connect()
LEMMA TryConnectCalls ==
    ASSUME NEW d \in Driver, NEW wanted, NEW up
    PROVE  /\ TryConnect(d, wanted, up) \in Driver /\ Calls(d, TryConnect(d, wanted, up))
           /\ TryConnect(d, wanted, up).mode = d.mode /\ TryConnect(d, wanted, up).conf = d.conf
           /\ d.link # "up" => TryConnect(d, wanted, up).link # "up"
<1> DEFINE s == TryConnect(d, wanted, up)
<1>1. CASE s = d
  <2> HIDE DEF s
  <2> QED
    BY <1>1, SilentCalls DEF s
<1>2. CASE d.link = "down" /\ s = [d EXCEPT !.link = "joining"]
  <2>1. s = [mode |-> d.mode, link |-> "joining", conf |-> d.conf, events |-> d.events]
    BY <1>2 DEF Driver
  <2> HIDE DEF s
  <2>2. s \in Driver
    BY <2>1 DEF Driver
  <2> QED
    BY <1>2, <2>1, <2>2, SilentCalls DEF s
<1> QED
  BY <1>1, <1>2 DEF TryConnect, Connecting

\* A call keeps what is told true, whether the worker forgets the address with it
\* or not, as long as it takes no disconnection from its queue.
LEMMA LinkedCalls ==
    ASSUME NEW d \in Driver, NEW e, Calls(d, e), NEW q, NEW p, NEW h \in BOOLEAN,
           NEW g \in BOOLEAN, (g <=> h) \/ (~g /\ e.link # "up"),
           Linked(d, q, h), IsIn("down", p) <=> IsIn("down", q)
    PROVE  Linked(e, p, g)
<1>1. Tells(e.events, FALSE) => Tells(e.events, h)
  BY DEF Tells
<1> QED
  BY <1>1 DEF Linked, Calls

-----------------------------------------------------------------------------
(* Every step keeps the invariant: the worker.                             *)

\* The message the worker takes; until its first one only "apply" is there.
LEMMA TakesFacts ==
    ASSUME IInv, NEW m \in Messages, Takes(m)
    PROVE  /\ queue' \in Seq(Messages)
           /\ \A x : IsIn(x, queue) <=> x = m \/ IsIn(x, queue')
           /\ m # "apply" => cfg # "unset"
<1>1. queue \in Seq(Messages) /\ queue # <<>> /\ Head(queue) = m /\ queue' = Tail(queue)
  BY DEF IInv, Types, Takes
<1>2. 1 \in DOMAIN queue /\ Head(queue) = queue[1]
  BY <1>1, Taken
<1> QED
  BY <1>1, <1>2, Taken DEF IInv, Unset

\* The message another task posts.
LEMMA PostFacts ==
    ASSUME IInv, NEW m \in Messages, Post(m)
    PROVE  /\ queue' \in Seq(Messages) /\ queue' # <<>>
           /\ \A x : IsIn(x, queue') <=> x = m \/ IsIn(x, queue)
           /\ cfg = "unset" /\ m = "apply" => \A i \in DOMAIN queue' : queue'[i] = "apply"
<1>1. queue \in Seq(Messages) /\ queue' = Append(queue, m)
  BY DEF IInv, Types, Post
<1>2. /\ queue' \in Seq(Messages) /\ queue' # <<>>
      /\ \A x : IsIn(x, queue') <=> x = m \/ IsIn(x, queue)
  BY <1>1, Appended
<1>3. ASSUME cfg = "unset", m = "apply", NEW i \in DOMAIN queue'
      PROVE  queue'[i] = "apply"
  <2>1. \A k \in DOMAIN queue : queue[k] = "apply"
    BY <1>3 DEF IInv, Unset
  <2>2. /\ Len(queue) \in Nat /\ DOMAIN queue = 1 .. Len(queue)
        /\ DOMAIN queue' = 1 .. (Len(queue) + 1)
        /\ queue'[Len(queue) + 1] = m /\ \A k \in 1 .. Len(queue) : queue'[k] = queue[k]
    BY <1>1, Appended
  <2>3. i = Len(queue) + 1 \/ i \in 1 .. Len(queue)
    BY <1>3, <2>2
  <2> QED
    BY <1>3, <2>1, <2>2, <2>3
<1> QED
  BY <1>2, <1>3

\* Credentials are not what stands for none.
LEMMA CredsFacts ==
    "none" \notin Creds /\ "unset" \notin Saved /\ \A c \in Saved : c # "none" => c \in Creds
BY WifiAssumption DEF WifiAssumption, Saved

\* handle_apply(), the first time.
LEMMA ApplyFirstKeeps == ASSUME IInv, NEW res \in Outcomes, ApplyFirst(res) PROVE IInv'
<1>1. /\ Types /\ drv = Off /\ ~fallback /\ ~hasIp /\ armed = {} /\ http.pc # "borrowed"
      /\ Linked(drv, queue, hasIp)
  BY DEF IInv, Unset, ApplyFirst
<1> DEFINE mode == IF saved # "none" THEN "sta" ELSE "ap"
<1>2. /\ Takes("apply") /\ cfg' = saved /\ enabled' = (saved # "none")
      /\ drv' = StartDriver(res, drv, mode, saved) /\ Starts(res, mode)
      /\ armed' = IF saved # "none" THEN armed \union {"window"} ELSE armed
      /\ joined' = FALSE /\ misled' = FALSE /\ saved' = saved /\ ifaceUp' = ifaceUp /\ fallback' = fallback
      /\ hasIp' = hasIp /\ http' = http /\ overridden' = overridden
  BY DEF ApplyFirst, settingsVars
<1>3. queue' \in Seq(Messages) /\ (IsIn("down", queue') <=> IsIn("down", queue))
  BY <1>2, TakesFacts DEF Messages
<1>4. drv \in Driver /\ mode \in Modes /\ saved \in Saved /\ drv.mode = "off"
  BY <1>1 DEF Types, Modes, Off
<1>5. /\ drv' \in Driver /\ Calls(drv, drv') /\ started' \in BOOLEAN /\ refused' \in BOOLEAN
      /\ ~refused' => /\ started' /\ drv'.mode = mode
                      /\ drv.mode # mode /\ HasSta(mode) => drv'.conf = saved
  <2>1. started \in BOOLEAN /\ refused \in BOOLEAN
    BY <1>1 DEF Types
  <2> QED
    BY <1>2, <1>4, <2>1, StartCalls
<1>6. Types'
  BY <1>1, <1>2, <1>3, <1>5 DEF Types, Timers
<1>7. Unset' /\ Wanted'
  BY <1>2, <1>4, CredsFacts DEF Unset, Wanted
<1>8. Configured'
  BY <1>1, <1>2, <1>4, <1>5, CredsFacts DEF Configured, HasSta, HasAp
<1>9. Tried'
  BY <1>1, <1>2 DEF Tried
<1>10. Linked(drv', queue', hasIp')
  <2>1. hasIp \in BOOLEAN /\ hasIp' \in BOOLEAN /\ (hasIp' <=> hasIp)
    BY <1>1, <1>2 DEF Types
  <2> QED
    BY <1>1, <1>3, <1>4, <1>5, <2>1, LinkedCalls
<1> QED
  BY <1>6, <1>7, <1>8, <1>9, <1>10 DEF IInv

\* handle_apply(), when the credentials are gone.
LEMMA ApplyNoneKeeps == ASSUME IInv, NEW res \in Outcomes, ApplyNone(res) PROVE IInv'
<1>1. Types /\ Linked(drv, queue, hasIp)
  BY DEF IInv
<1> DEFINE d == Disconnected(drv)
<1>2. /\ Takes("apply") /\ saved = "none" /\ cfg' = "none"
      /\ enabled' = FALSE /\ fallback' = FALSE /\ hasIp' = FALSE /\ armed' = {}
      /\ drv' = StartDriver(res, d, "ap", saved) /\ Starts(res, "ap")
      /\ saved' = saved /\ http' = http /\ ifaceUp' = ifaceUp
      /\ joined' = joined /\ misled' = misled /\ overridden' = overridden
  BY DEF ApplyNone, settingsVars
<1>3. queue' \in Seq(Messages) /\ (IsIn("down", queue') <=> IsIn("down", queue))
  BY <1>2, TakesFacts DEF Messages
<1>4. d \in Driver /\ Calls(drv, d) /\ d.link = "down" /\ d.mode = drv.mode
  BY <1>1, DisconnectedCalls DEF Types
<1> HIDE DEF d
<1>5. /\ drv' \in Driver /\ Calls(d, drv') /\ started' \in BOOLEAN /\ refused' \in BOOLEAN
      /\ ~refused' => started' /\ drv'.mode = "ap"
  <2>1. /\ started \in BOOLEAN /\ refused \in BOOLEAN /\ saved \in Saved
        /\ "ap" \in Modes /\ "ap" # "off"
    BY <1>1 DEF Types, Modes
  <2> QED
    BY <1>2, <1>4, <2>1, StartCalls
<1>6. Calls(drv, drv') /\ drv'.link # "up"
  BY <1>4, <1>5, CallsTransitive DEF Calls
<1>7. Types'
  BY <1>1, <1>2, <1>3, <1>5, CredsFacts DEF Types, Saved
<1>8. Unset' /\ Wanted' /\ Configured' /\ Tried'
  BY <1>2, <1>5, CredsFacts DEF Unset, Wanted, Configured, Tried
<1>9. Linked(drv', queue', hasIp')
  <2>1. drv \in Driver /\ hasIp \in BOOLEAN /\ ~hasIp' /\ hasIp' \in BOOLEAN
    BY <1>1, <1>2 DEF Types
  <2> QED
    BY <1>1, <1>3, <1>6, <2>1, LinkedCalls
<1> QED
  BY <1>7, <1>8, <1>9 DEF IInv

\* handle_apply(), when there are others.
LEMMA ApplyCredsKeeps == ASSUME IInv, NEW res \in Outcomes, ApplyCreds(res) PROVE IInv'
<1>1. Types /\ Configured /\ Linked(drv, queue, hasIp)
  BY DEF IInv
<1> DEFINE mode == IF HasAp(drv.mode) THEN "apsta" ELSE "sta"
           d == StartDriver(res, drv, mode, saved)
           f == Disconnected(d)
           e == [f EXCEPT !.conf = saved]
<1>2. /\ Takes("apply") /\ saved \notin {cfg, "none"} /\ cfg' = saved
      /\ enabled' = TRUE /\ hasIp' = FALSE /\ fallback' = (fallback /\ ~HasAp(drv.mode))
      /\ drv' = TryConnect(e, TRUE, ifaceUp) /\ Starts(res, mode)
      /\ armed' = Window /\ joined' = FALSE /\ misled' = FALSE
      /\ saved' = saved /\ http' = http /\ ifaceUp' = ifaceUp /\ overridden' = overridden
  BY DEF ApplyCreds, settingsVars
<1>3. queue' \in Seq(Messages) /\ (IsIn("down", queue') <=> IsIn("down", queue))
  BY <1>2, TakesFacts DEF Messages
<1>4. drv \in Driver /\ mode \in Modes /\ saved \in Saved
  BY <1>1 DEF Types, Modes
<1>5. HasSta(mode) /\ (HasAp(drv.mode) => HasAp(mode)) /\ mode # "off"
  BY DEF HasSta, HasAp
<1> HIDE DEF mode
<1>6. /\ d \in Driver /\ Calls(drv, d) /\ started' \in BOOLEAN /\ refused' \in BOOLEAN
      /\ refused => refused'
      /\ ~refused' => started' /\ d.mode = mode
  <2>1. started \in BOOLEAN /\ refused \in BOOLEAN
    BY <1>1 DEF Types
  <2> QED
    BY <1>2, <1>4, <1>5, <2>1, StartCalls
<1> HIDE DEF d
<1>7. f \in Driver /\ Calls(d, f) /\ f.link = "down" /\ f.mode = d.mode
  BY <1>6, DisconnectedCalls
<1> HIDE DEF f
<1>8. e = [mode |-> f.mode, link |-> "down", conf |-> saved, events |-> f.events]
  BY <1>7 DEF Driver
<1> HIDE DEF e
<1>9. e \in Driver /\ Calls(f, e)
  <2>1. e \in Driver
    BY <1>4, <1>7, <1>8 DEF Driver
  <2> QED
    BY <1>7, <1>8, <2>1, SilentCalls
<1>10. /\ drv' \in Driver /\ Calls(e, drv') /\ drv'.mode = d.mode /\ drv'.conf = saved
       /\ drv'.link # "up"
  <2>1. drv' = TryConnect(e, TRUE, ifaceUp)
    BY <1>2
  <2>2. e.link # "up" /\ e.mode = d.mode /\ e.conf = saved
    BY <1>7, <1>8
  <2> QED
    BY <1>9, <2>1, <2>2, TryConnectCalls
<1>11. Calls(drv, drv')
  BY <1>6, <1>7, <1>9, <1>10, CallsTransitive
<1>12. /\ fallback' \in BOOLEAN /\ armed' \subseteq Timers
       /\ ~refused' => ~fallback' /\ "window" \in armed'
  BY <1>1, <1>2, <1>6 DEF Configured, Window, Types, Timers
<1>13. Types'
  BY <1>1, <1>2, <1>3, <1>6, <1>10, <1>12 DEF Types
<1>14. Unset' /\ Wanted' /\ Tried'
  BY <1>2, <1>4, <1>12, CredsFacts DEF Unset, Wanted, Tried
<1>15. Configured'
  BY <1>2, <1>5, <1>6, <1>10, <1>12, CredsFacts DEF Configured
<1>16. Linked(drv', queue', hasIp')
  <2>1. hasIp \in BOOLEAN /\ ~hasIp' /\ hasIp' \in BOOLEAN
    BY <1>1, <1>2 DEF Types
  <2> QED
    BY <1>1, <1>3, <1>4, <1>10, <1>11, <2>1, LinkedCalls
<1> QED
  BY <1>13, <1>14, <1>15, <1>16 DEF IInv

\* A message that changes neither the address nor the credentials nor what was
\* tried for them: enough that the calls keep the driver configured.
LEMMA RoutineKeeps ==
    ASSUME IInv, NEW m \in Messages \ {"apply", "down", "window", "got_ip"}, Takes(m),
           drv' \in Driver, Calls(drv, drv'), armed' \subseteq Timers,
           "window" \in armed => "window" \in armed',
           ifaceUp' \in BOOLEAN, fallback' \in BOOLEAN, Configured',
           refused' \in BOOLEAN, refused => refused',
           hasIp \/ (HasAp(drv.mode) => HasAp(drv'.mode)),
           UNCHANGED <<saved, http, cfg, enabled, hasIp, joined, misled, overridden, started>>
    PROVE  IInv'
<1>1. /\ queue' \in Seq(Messages) /\ cfg # "unset"
      /\ \A x : x # m => (IsIn(x, queue') <=> IsIn(x, queue))
  BY TakesFacts
<1>2. Types /\ Linked(drv, queue, hasIp)
  BY DEF IInv
<1>3. Types'
  BY <1>1, <1>2 DEF Types
<1>4. Unset' /\ Wanted'
  BY <1>1 DEF IInv, Unset, Wanted
<1>5. Tried'
  BY <1>1 DEF IInv, Tried
<1>6. Linked(drv', queue', hasIp')
  BY <1>1, <1>2, LinkedCalls DEF Types
<1> QED
  BY <1>3, <1>4, <1>5, <1>6 DEF IInv

\* Nothing that matters was changed.
LEMMA ApplyRestKeeps == ASSUME IInv, ApplyRest PROVE IInv'
<1>1. /\ Takes("apply") /\ saved = cfg
      /\ saved' = saved /\ http' = http /\ cfg' = cfg /\ enabled' = enabled
      /\ ifaceUp' = ifaceUp /\ fallback' = fallback /\ armed' = armed /\ hasIp' = hasIp
      /\ drv' = drv /\ joined' = joined /\ misled' = misled /\ refused' = refused
      /\ started' = started /\ overridden' = overridden
  BY DEF ApplyRest, settingsVars, workerVars, history
<1>2. /\ queue' \in Seq(Messages)
      /\ \A x : x # "apply" => (IsIn(x, queue') <=> IsIn(x, queue))
  BY <1>1, TakesFacts DEF Messages
<1>3. cfg # "unset"
  BY <1>1, CredsFacts DEF IInv, Types
<1>4. Types' /\ Unset' /\ Wanted' /\ Configured'
  BY <1>1, <1>2, <1>3 DEF IInv, Types, Unset, Wanted, Configured
<1>5. Tried' /\ Linked(drv', queue', hasIp')
  BY <1>1, <1>2 DEF IInv, Tried, Linked
<1> QED
  BY <1>4, <1>5 DEF IInv

\* The station's interface is there.
LEMMA StaStartedKeeps == ASSUME IInv, StaStarted PROVE IInv'
<1>1. /\ Takes("sta_start") /\ ifaceUp' = TRUE /\ drv' = TryConnect(drv, enabled, TRUE)
      /\ fallback' = fallback /\ armed' = armed
      /\ UNCHANGED <<saved, http, cfg, enabled, hasIp, joined, misled, overridden, started, refused>>
  BY DEF StaStarted, settingsVars, history
<1>2. Types /\ Configured
  BY DEF IInv
<1>3. drv' \in Driver /\ Calls(drv, drv') /\ drv'.mode = drv.mode /\ drv'.conf = drv.conf
  BY <1>1, <1>2, TryConnectCalls DEF Types
<1>4. Configured'
  BY <1>1, <1>2, <1>3 DEF Configured
<1>5. "sta_start" \in Messages \ {"apply", "down", "window", "got_ip"}
  BY DEF Messages
<1> QED
  BY <1>1, <1>2, <1>3, <1>4, <1>5, RoutineKeeps DEF Types

\* It is gone.
LEMMA StaStoppedKeeps == ASSUME IInv, StaStopped PROVE IInv'
<1>1. /\ Takes("sta_stop") /\ ifaceUp' = FALSE /\ drv' = drv
      /\ fallback' = fallback /\ armed' = armed
      /\ UNCHANGED <<saved, http, cfg, enabled, hasIp, joined, misled, overridden, started, refused>>
  BY DEF StaStopped, settingsVars, history
<1>2. Types /\ Configured
  BY DEF IInv
<1>3. Configured' /\ Calls(drv, drv')
  BY <1>1, <1>2, SilentCalls DEF Configured
<1>4. "sta_stop" \in Messages \ {"apply", "down", "window", "got_ip"}
  BY DEF Messages
<1> QED
  BY <1>1, <1>2, <1>3, <1>4, RoutineKeeps DEF Types

\* The next attempt is due.
LEMMA RetryDueKeeps == ASSUME IInv, RetryDue PROVE IInv'
<1>1. /\ Takes("retry") /\ drv' = TryConnect(drv, enabled, ifaceUp)
      /\ ifaceUp' = ifaceUp /\ fallback' = fallback /\ armed' = armed
      /\ UNCHANGED <<saved, http, cfg, enabled, hasIp, joined, misled, overridden, started, refused>>
  BY DEF RetryDue, settingsVars, workerVars, history
<1>2. Types /\ Configured
  BY DEF IInv
<1>3. drv' \in Driver /\ Calls(drv, drv') /\ drv'.mode = drv.mode /\ drv'.conf = drv.conf
  BY <1>1, <1>2, TryConnectCalls DEF Types
<1>4. Configured'
  BY <1>1, <1>2, <1>3 DEF Configured
<1>5. "retry" \in Messages \ {"apply", "down", "window", "got_ip"}
  BY DEF Messages, Timers
<1> QED
  BY <1>1, <1>2, <1>3, <1>4, <1>5, RoutineKeeps DEF Types

\* The setup AP is closed once the station has been up for a while.
LEMMA LingerOverKeeps == ASSUME IInv, NEW res \in Outcomes, LingerOver(res) PROVE IInv'
<1>1. /\ Takes("linger") /\ ifaceUp' = ifaceUp /\ armed' = armed
      /\ UNCHANGED <<saved, http, cfg, enabled, hasIp, joined, misled, overridden, started>>
  BY DEF LingerOver, settingsVars
<1>2. Types /\ Configured /\ Wanted
  BY DEF IInv
<1>3. "linger" \in Messages \ {"apply", "down", "window", "got_ip"}
  BY DEF Messages, Timers
<1>4. CASE hasIp /\ enabled /\ HasAp(drv.mode)
  <2>1. /\ ~fallback' /\ drv' = SetMode(res, drv, "sta", cfg) /\ cfg \in Creds /\ cfg \in Saved
        /\ refused' = (refused \/ res # "done") /\ refused' \in BOOLEAN
    BY <1>2, <1>4 DEF LingerOver, Wanted, Saved, Types
  <2>2. HasSta("sta") /\ drv.mode # "sta"
    BY <1>4 DEF HasSta, HasAp
  <2>3. /\ drv' \in Driver /\ Calls(drv, drv')
        /\ res = "done" => drv'.mode = "sta" /\ drv'.conf = cfg
    <3>1. drv \in Driver /\ "sta" \in Modes
      BY <1>2 DEF Types, Modes
    <3>2. /\ drv' \in Driver /\ Calls(drv, drv')
          /\ res = "done" =>
                /\ drv'.mode = "sta"
                /\ drv'.conf = IF drv.mode # "sta" /\ HasSta("sta") THEN cfg ELSE drv.conf
      BY <2>1, <3>1, SetModeCalls
    <3> QED
      BY <2>2, <3>2
  <2>4. Configured'
    <3>1. ~refused' => ~refused /\ res = "done"
      BY <2>1
    <3>2. cfg # "none" /\ (~refused => (cfg # "unset" => started))
      BY <1>2, <2>1, CredsFacts DEF Configured
    <3> QED
      BY <1>1, <2>1, <2>2, <2>3, <3>1, <3>2 DEF Configured
  <2>5. fallback' \in BOOLEAN
    BY <1>4 DEF LingerOver
  <2> QED
    BY <1>1, <1>2, <1>3, <1>4, <2>1, <2>3, <2>4, <2>5, RoutineKeeps DEF Types
<1>5. CASE ~(hasIp /\ enabled /\ HasAp(drv.mode))
  <2>1. drv' = drv /\ fallback' = fallback /\ refused' = refused
    BY <1>5 DEF LingerOver
  <2>2. Configured' /\ Calls(drv, drv')
    BY <1>1, <1>2, <2>1, SilentCalls DEF Configured
  <2> QED
    BY <1>1, <1>2, <1>3, <2>1, <2>2, RoutineKeeps DEF Types
<1> QED
  BY <1>4, <1>5

\* An address is handled.
LEMMA GotIpKeeps == ASSUME IInv, GotIp PROVE IInv'
<1>1. /\ Takes("got_ip") /\ drv' = drv /\ refused' = refused /\ started' = started
      /\ joined' = (joined \/ cfg = Right) /\ misled' = (misled \/ cfg # Right)
      /\ armed' = (armed \ {"retry", "window"}) \union (IF HasAp(drv.mode) THEN {"linger"} ELSE {})
      /\ saved' = saved /\ http' = http /\ cfg' = cfg /\ enabled' = enabled
      /\ ifaceUp' = ifaceUp /\ fallback' = fallback /\ hasIp' = hasIp
      /\ overridden' = overridden
  BY DEF GotIp, settingsVars, workerVars
<1>2. /\ queue' \in Seq(Messages) /\ cfg # "unset"
      /\ \A x : x # "got_ip" => (IsIn(x, queue') <=> IsIn(x, queue))
  BY <1>1, TakesFacts DEF Messages
<1>3. armed' \subseteq Timers
  BY <1>1 DEF IInv, Types, Timers
<1>4. Types' /\ Unset' /\ Wanted' /\ Configured'
  BY <1>1, <1>2, <1>3 DEF IInv, Types, Unset, Wanted, Configured
<1>5. Tried' /\ Linked(drv', queue', hasIp')
  BY <1>1, <1>2 DEF IInv, Tried, Linked
<1> QED
  BY <1>4, <1>5 DEF IInv

\* A disconnection is handled: no address is on its way.
LEMMA DownKeeps == ASSUME IInv, Down PROVE IInv'
<1>1. /\ Takes("down") /\ hasIp' = FALSE /\ drv' = drv
      /\ armed' = IF enabled THEN armed \union {"retry"} ELSE armed
      /\ saved' = saved /\ http' = http /\ cfg' = cfg /\ enabled' = enabled
      /\ ifaceUp' = ifaceUp /\ fallback' = fallback /\ joined' = joined /\ misled' = misled /\ refused' = refused
      /\ started' = started
      /\ overridden' = overridden
  BY DEF Down, settingsVars, workerVars, history
<1>2. /\ queue' \in Seq(Messages) /\ cfg # "unset" /\ IsIn("down", queue)
      /\ \A x : x # "down" => (IsIn(x, queue') <=> IsIn(x, queue))
      /\ IsIn("down", queue') => IsIn("down", queue)
  BY <1>1, TakesFacts DEF Messages
<1>3. armed' \subseteq Timers /\ armed \subseteq armed'
  BY <1>1 DEF IInv, Types, Timers
<1>4. Types' /\ Unset' /\ Wanted' /\ Configured'
  BY <1>1, <1>2, <1>3 DEF IInv, Types, Unset, Wanted, Configured
<1>5. Tried'
  BY <1>1, <1>2, <1>3 DEF IInv, Tried
<1>6. Linked(drv', queue', hasIp')
  <2>1. drv.link # "up" /\ ~IsIn("got_ip", drv.events) /\ DownLast(drv.events)
    BY <1>2 DEF IInv, Linked
  <2>2. ~Tells(drv.events, FALSE)
    BY <2>1 DEF Tells, IsIn
  <2> QED
    BY <1>1, <2>1, <2>2 DEF Linked
<1> QED
  BY <1>4, <1>5, <1>6 DEF IInv

\* The window is over.
LEMMA WindowOverKeeps == ASSUME IInv, NEW res \in Outcomes, WindowOver(res) PROVE IInv'
<1>1. /\ Takes("window")
      /\ saved' = saved /\ http' = http /\ cfg' = cfg /\ enabled' = enabled
      /\ ifaceUp' = ifaceUp /\ hasIp' = hasIp /\ joined' = joined /\ overridden' = overridden
      /\ misled' = misled /\ started' = started
  BY DEF WindowOver, settingsVars
<1>2. /\ queue' \in Seq(Messages) /\ cfg # "unset"
      /\ \A x : x # "window" => (IsIn(x, queue') <=> IsIn(x, queue))
  BY <1>1, TakesFacts DEF Messages, Timers
<1>3. Types /\ Wanted /\ Configured /\ Tried /\ Linked(drv, queue, hasIp)
  BY DEF IInv
<1>4. Unset' /\ Wanted'
  BY <1>1, <1>2, <1>3 DEF Unset, Wanted
<1>5. ASSUME drv' \in Driver, Calls(drv, drv')
      PROVE  Linked(drv', queue', hasIp')
  <2>1. drv \in Driver /\ hasIp \in BOOLEAN /\ hasIp' \in BOOLEAN /\ (hasIp' <=> hasIp)
    BY <1>1, <1>3 DEF Types
  <2>2. IsIn("down", queue') <=> IsIn("down", queue)
    BY <1>2
  <2> QED
    BY <1>3, <1>5, <2>1, <2>2, LinkedCalls
<1>6. CASE hasIp \/ ~enabled
  <2>1. fallback' = fallback /\ drv' = drv /\ armed' = armed /\ refused' = refused
    BY <1>6 DEF WindowOver
  <2>2. Types' /\ Configured'
    BY <1>1, <1>2, <1>3, <2>1 DEF Types, Configured
  <2>3. Tried'
    BY <1>1, <1>2, <1>3, <1>6, <2>1 DEF Tried
  <2>4. drv' \in Driver /\ Calls(drv, drv')
    BY <1>3, <2>1, SilentCalls DEF Types
  <2> QED
    BY <1>4, <1>5, <2>2, <2>3, <2>4 DEF IInv
<1>7. CASE ~hasIp /\ enabled
  <2>1. /\ fallback' = TRUE /\ armed' = armed \union {"retry"}
        /\ IF fallback \/ HasAp(drv.mode) THEN drv' = drv /\ refused' = refused
           ELSE drv' = SetMode(res, drv, "apsta", cfg) /\ refused' = (refused \/ res # "done")
    BY <1>7 DEF WindowOver
  <2>2. cfg \in Creds /\ cfg \in Saved /\ drv \in Driver /\ "apsta" \in Modes
    BY <1>3, <1>7 DEF Wanted, Types, Saved, Modes
  <2>3. /\ drv' \in Driver /\ Calls(drv, drv') /\ refused' \in BOOLEAN
        /\ ~refused' => /\ ~refused /\ HasAp(drv'.mode) /\ drv'.conf = cfg
                        /\ HasSta(drv.mode) => HasSta(drv'.mode)
    <3> refused \in BOOLEAN
      BY <1>3 DEF Types
    <3>1. CASE fallback \/ HasAp(drv.mode)
      <4>1. drv' = drv /\ refused' = refused
        BY <2>1, <3>1
      <4> QED
        BY <1>3, <2>2, <3>1, <4>1, SilentCalls DEF Configured
    <3>2. CASE ~(fallback \/ HasAp(drv.mode))
      <4>1. drv' = SetMode(res, drv, "apsta", cfg) /\ refused' = (refused \/ res # "done")
        BY <2>1, <3>2
      <4>2. /\ drv' \in Driver /\ Calls(drv, drv')
            /\ res = "done" =>
                  /\ drv'.mode = "apsta"
                  /\ drv'.conf = IF drv.mode # "apsta" /\ HasSta("apsta") THEN cfg ELSE drv.conf
        BY <2>2, <4>1, SetModeCalls
      <4>3. drv.mode # "apsta" /\ HasSta("apsta")
        BY <3>2 DEF HasAp, HasSta
      <4> QED
        BY <4>1, <4>2, <4>3 DEF HasAp, HasSta
    <3> QED
      BY <3>1, <3>2
  <2>4. Types'
    BY <1>1, <1>2, <1>3, <2>1, <2>3 DEF Types, Timers
  <2>5. Configured'
    BY <1>1, <1>3, <2>2, <2>3, CredsFacts DEF Configured
  <2>6. Tried'
    BY <1>1, <1>7, <2>3 DEF Tried
  <2> QED
    BY <1>4, <1>5, <2>3, <2>4, <2>5, <2>6 DEF IInv
<1> QED
  BY <1>3, <1>6, <1>7 DEF Types

-----------------------------------------------------------------------------
(* The event task and the timer task.                                      *)

\* An event is delivered.
LEMMA DeliverKeeps == ASSUME IInv, Deliver PROVE IInv'
<1> DEFINE e == Head(drv.events)
<1>1. /\ drv.events # <<>> /\ drv' = [drv EXCEPT !.events = Tail(drv.events)]
      /\ hasIp' = ((hasIp \/ e = "got_ip") /\ e # "lost_ip")
      /\ IF e = "lost_ip" THEN queue' = queue ELSE Post(e)
      /\ saved' = saved /\ http' = http /\ cfg' = cfg /\ enabled' = enabled
      /\ ifaceUp' = ifaceUp /\ fallback' = fallback /\ armed' = armed
      /\ joined' = joined /\ misled' = misled /\ refused' = refused
      /\ started' = started /\ overridden' = overridden
  BY DEF Deliver, settingsVars, workerVars, history
<1>2. Types /\ Wanted /\ Configured /\ Tried /\ Linked(drv, queue, hasIp)
  BY DEF IInv
<1>3. drv.events \in Seq(Events) /\ drv \in Driver
  BY <1>2 DEF Types, Driver
<1>4. /\ e \in Events /\ Tail(drv.events) \in Seq(Events)
      /\ \A m : IsIn(m, drv.events) <=> m = e \/ IsIn(m, Tail(drv.events))
  BY <1>1, <1>3, Taken
<1>5. drv' = [mode |-> drv.mode, link |-> drv.link, conf |-> drv.conf,
              events |-> Tail(drv.events)]
  BY <1>1, <1>3 DEF Driver
<1>6. drv' \in Driver
  BY <1>3, <1>4, <1>5 DEF Driver
<1>7. Tells(Tail(drv.events), hasIp') <=> Tells(drv.events, hasIp)
  <2> DEFINE ev == drv.events
             g  == hasIp'
             h  == hasIp
  <2>1. h \in BOOLEAN
    BY <1>2 DEF Types
  <2>2. g \in BOOLEAN
    BY <1>1, <2>1
  <2>3. g <=> (h \/ Head(ev) = "got_ip") /\ Head(ev) # "lost_ip"
    BY <1>1
  <2>4. ev \in Seq(Events) /\ ev # <<>>
    BY <1>1, <1>3
  <2> HIDE DEF ev, g, h
  <2>5. Tells(Tail(ev), g) <=> Tells(ev, h)
    BY <2>1, <2>2, <2>3, <2>4, TellsTaken
  <2> QED
    BY <2>5 DEF ev, g, h
<1>8. DownLast(Tail(drv.events)) /\ (e = "down" => ~IsIn("got_ip", Tail(drv.events)))
  BY <1>1, <1>2, <1>3, DownLastTaken DEF Linked
<1> HIDE DEF e
<1>9. /\ queue' \in Seq(Messages)
      /\ \A x : IsIn(x, queue') <=> (x = e /\ e # "lost_ip") \/ IsIn(x, queue)
  <2>1. CASE e = "lost_ip"
    BY <1>1, <1>2, <2>1 DEF Types
  <2>2. CASE e # "lost_ip"
    <3>1. e \in Messages
      BY <1>4, <2>2 DEF Events, Messages
    <3> QED
      BY <1>1, <2>2, <3>1, PostFacts
  <2> QED
    BY <2>1, <2>2
<1>10. cfg # "unset"
  BY <1>1 DEF IInv, Unset, Off
<1>11. Types'
  BY <1>1, <1>2, <1>6, <1>9 DEF Types
<1>12. Unset' /\ Wanted'
  BY <1>1, <1>2, <1>10 DEF Unset, Wanted
<1>13. Configured'
  BY <1>1, <1>2, <1>5 DEF Configured
<1>14. Tried'
  <2>1. drv'.mode = drv.mode
    BY <1>5
  <2> QED
    BY <1>1, <1>2, <1>9, <2>1 DEF Tried
<1>15. Linked(drv', queue', hasIp')
  <2>1. drv'.link = drv.link /\ drv'.events = Tail(drv.events)
    BY <1>5
  <2>2. IsIn("down", queue') => ~IsIn("got_ip", Tail(drv.events))
    BY <1>2, <1>4, <1>8, <1>9 DEF Linked
  <2>3. IsIn("down", queue') \/ IsIn("down", Tail(drv.events))
           <=> IsIn("down", queue) \/ IsIn("down", drv.events)
    BY <1>4, <1>9
  <2> QED
    BY <1>2, <1>7, <1>8, <2>1, <2>2, <2>3 DEF Linked
<1> QED
  BY <1>11, <1>12, <1>13, <1>14, <1>15 DEF IInv

\* A timer fires.
LEMMA FiresKeeps == ASSUME IInv, NEW t \in Timers, Fires(t) PROVE IInv'
<1>1. /\ t \in armed /\ armed' = armed \ {t} /\ Post(t) /\ drv' = drv /\ hasIp' = hasIp
      /\ saved' = saved /\ http' = http /\ cfg' = cfg /\ enabled' = enabled
      /\ ifaceUp' = ifaceUp /\ fallback' = fallback
      /\ joined' = joined /\ misled' = misled /\ refused' = refused
      /\ started' = started /\ overridden' = overridden
  BY DEF Fires, settingsVars, workerVars, history
<1>2. /\ queue' \in Seq(Messages) /\ t # "down"
      /\ \A x : IsIn(x, queue') <=> x = t \/ IsIn(x, queue)
  BY <1>1, PostFacts DEF Messages, Timers
<1>3. cfg # "unset"
  BY <1>1 DEF IInv, Unset
<1>4. Types' /\ Unset' /\ Wanted' /\ Configured'
  BY <1>1, <1>2, <1>3 DEF IInv, Types, Unset, Wanted, Configured
<1>5. Tried' /\ Linked(drv', queue', hasIp')
  BY <1>1, <1>2 DEF IInv, Tried, Linked
<1> QED
  BY <1>4, <1>5 DEF IInv

-----------------------------------------------------------------------------
(* Users, and the network.                                                 *)

\* A step of another task that calls the driver, or does not, and posts nothing.
LEMMA BesideKeeps ==
    ASSUME IInv, cfg # "unset" \/ (drv' = drv /\ http'.pc # "borrowed"),
           saved' \in Saved, drv' \in Driver, Calls(drv, drv'), drv'.conf = drv.conf,
           HasAp(drv.mode) => HasAp(drv'.mode),
           overridden' \in BOOLEAN, ~overridden' => Configured',
           refused' \in BOOLEAN, refused => refused',
           UNCHANGED <<cfg, enabled, ifaceUp, fallback, armed, queue, hasIp, joined,
                     misled, started>>
    PROVE  IInv'
<1>1. Types /\ Configured /\ Linked(drv, queue, hasIp)
  BY DEF IInv
<1>2. Types'
  BY <1>1 DEF Types
<1>3. Unset' /\ Wanted' /\ Tried'
  BY DEF IInv, Unset, Wanted, Tried
<1>4. Configured'
  BY <1>1 DEF Configured
<1>5. Linked(drv', queue', hasIp')
  <2>1. drv \in Driver /\ hasIp \in BOOLEAN /\ hasIp' \in BOOLEAN /\ (hasIp' <=> hasIp)
    BY <1>1 DEF Types
  <2>2. IsIn("down", queue') <=> IsIn("down", queue)
    OBVIOUS
  <2>3. drv' \in Driver /\ Calls(drv, drv')
    OBVIOUS
  <2> QED
    BY <1>1, <2>1, <2>2, <2>3, LinkedCalls
<1> QED
  BY <1>2, <1>3, <1>4, <1>5 DEF IInv

\* The settings are edited, or forgotten.
LEMMA EditsKeep == ASSUME IInv, PatchReads \/ Reset PROVE IInv'
<1>1. Types /\ Configured
  BY DEF IInv
<1>2. /\ drv' = drv /\ overridden' = overridden
      /\ UNCHANGED <<cfg, enabled, ifaceUp, fallback, armed, queue, hasIp, joined,
                     misled, started, refused>>
      /\ saved' \in Saved
      /\ http'.pc = "borrowed" <=> http.pc = "borrowed"
  BY <1>1 DEF PatchReads, Reset, workerVars, Types, Saved
<1>3. Calls(drv, drv') /\ Configured'
  BY <1>1, <1>2, SilentCalls DEF Configured
<1> QED
  BY <1>1, <1>2, <1>3, BesideKeeps DEF Types, IInv, Unset

\* They are saved.
LEMMA PatchSavesKeeps == ASSUME IInv, NEW c \in Saved, PatchSaves(c) PROVE IInv'
<1>1. /\ http.pc = "patch" /\ saved' = c /\ http' = [pc |-> "idle", copy |-> "none"]
      /\ Post("apply") /\ drv' = drv /\ cfg' = cfg /\ enabled' = enabled
      /\ ifaceUp' = ifaceUp /\ fallback' = fallback /\ armed' = armed /\ hasIp' = hasIp
      /\ joined' = joined /\ misled' = misled /\ refused' = refused
      /\ started' = started /\ overridden' = overridden
  BY DEF PatchSaves, workerVars, history
<1>2. /\ queue' \in Seq(Messages) /\ queue' # <<>>
      /\ \A x : IsIn(x, queue') <=> x = "apply" \/ IsIn(x, queue)
      /\ cfg = "unset" => \A i \in DOMAIN queue' : queue'[i] = "apply"
  BY <1>1, PostFacts DEF Messages
<1>3. Types' /\ Wanted' /\ Configured'
  BY <1>1, <1>2 DEF IInv, Types, Wanted, Configured
<1>4. Unset'
  BY <1>1, <1>2 DEF IInv, Unset
<1>5. Tried' /\ Linked(drv', queue', hasIp')
  BY <1>1, <1>2 DEF IInv, Tried, Linked
<1> QED
  BY <1>3, <1>4, <1>5 DEF IInv

\* A scan borrows a station interface.
LEMMA ScanBorrowsKeeps == ASSUME IInv, ScanBorrows PROVE IInv'
<1>1. /\ drv.mode = "ap" /\ http' = [pc |-> "borrowed", copy |-> "none"]
      /\ drv' = Switched(drv, "apsta")
      /\ saved' = saved /\ overridden' = overridden
      /\ UNCHANGED <<cfg, enabled, ifaceUp, fallback, armed, queue, hasIp, joined,
                     misled, started, refused>>
  BY DEF ScanBorrows, workerVars, history
<1>2. Types /\ Configured /\ cfg # "unset"
  BY <1>1 DEF IInv, Unset, Off
<1>3. drv' \in Driver /\ Calls(drv, drv') /\ drv'.mode = "apsta" /\ drv'.conf = drv.conf
  BY <1>1, <1>2, SwitchedCalls DEF Types, Modes
<1>4. HasAp(drv'.mode) /\ HasSta(drv'.mode)
  BY <1>3 DEF HasAp, HasSta
<1>5. ~overridden' => Configured'
  BY <1>1, <1>2, <1>3, <1>4 DEF Configured
<1>6. saved' \in Saved /\ overridden' \in BOOLEAN
  BY <1>1, <1>2 DEF Types
<1> QED
  BY <1>1, <1>2, <1>3, <1>4, <1>5, <1>6, BesideKeeps DEF Types

\* It gives it back.
LEMMA ScanReturnsKeeps == ASSUME IInv, NEW ok \in BOOLEAN, ScanReturns(ok) PROVE IInv'
<1>1. /\ http.pc = "borrowed" /\ http' = [pc |-> "idle", copy |-> "none"]
      /\ drv' = IF ok THEN Switched(drv, "ap") ELSE drv
      /\ overridden' = (overridden \/ enabled) /\ refused' = (refused \/ ~ok)
      /\ saved' = saved
      /\ UNCHANGED <<cfg, enabled, ifaceUp, fallback, armed, queue, hasIp, joined,
                     misled, started>>
  BY DEF ScanReturns, workerVars
<1>2. Types /\ Configured /\ Wanted /\ cfg # "unset"
  BY <1>1 DEF IInv, Unset
<1>3. /\ drv' \in Driver /\ Calls(drv, drv') /\ drv'.conf = drv.conf
      /\ drv'.mode = IF ok THEN "ap" ELSE drv.mode
  <2>1. drv \in Driver /\ "ap" \in Modes
    BY <1>2 DEF Types, Modes
  <2>2. CASE ok
    BY <1>1, <2>1, <2>2, SwitchedCalls
  <2>3. CASE ~ok
    BY <1>1, <2>1, <2>3, SilentCalls
  <2> QED
    BY <2>2, <2>3
<1>4. HasAp(drv.mode) => HasAp(drv'.mode)
  BY <1>3 DEF HasAp
<1>5. ~overridden' => Configured'
  BY <1>1, <1>2, <1>3, <1>4 DEF Configured, Wanted, HasAp
<1>6. /\ saved' \in Saved /\ overridden' \in BOOLEAN
      /\ refused' \in BOOLEAN /\ (refused => refused')
  BY <1>1, <1>2 DEF Types
<1> QED
  BY <1>1, <1>2, <1>3, <1>4, <1>5, <1>6, BesideKeeps

\* Before the first message: as at the start, and after a restart.
LEMMA StartKeeps ==
    ASSUME saved \in Saved, cfg = "unset", ~enabled, ~ifaceUp, ~fallback, ~hasIp,
           {enabled, ifaceUp, fallback, hasIp} \subseteq BOOLEAN,
           armed = {}, queue = <<"apply">>, drv = Off, joined = FALSE, overridden = FALSE,
           misled = FALSE, refused = FALSE, started = FALSE, http.pc = "idle"
    PROVE  IInv
<1>1. Types
  <2>1. Off \in Driver
    BY DEF Off, Driver, Modes, Saved
  <2>2. <<"apply">> \in Seq(Messages)
    BY DEF Messages
  <2>3. /\ enabled \in BOOLEAN /\ ifaceUp \in BOOLEAN /\ fallback \in BOOLEAN
        /\ hasIp \in BOOLEAN /\ joined \in BOOLEAN /\ overridden \in BOOLEAN
        /\ misled \in BOOLEAN /\ refused \in BOOLEAN /\ started \in BOOLEAN
    OBVIOUS
  <2> QED
    BY <2>1, <2>2, <2>3 DEF Types
<1>2. Unset
  BY DEF Unset
<1>3. Wanted /\ Configured /\ Tried
  BY CredsFacts DEF Wanted, Configured, Tried, Saved
<1>4. Linked(drv, queue, hasIp)
  <2>1. drv.events = <<>> /\ drv.link = "down" /\ DOMAIN drv.events = {}
    BY DEF Off
  <2>2. ~Tells(drv.events, hasIp) /\ DownLast(drv.events) /\ ~IsIn("got_ip", drv.events)
    BY <2>1 DEF Tells, DownLast, IsIn
  <2> QED
    BY <2>1, <2>2 DEF Linked
<1> QED
  BY <1>1, <1>2, <1>3, <1>4 DEF IInv

\* The device restarts.
LEMMA RestartKeeps == ASSUME IInv, Restart PROVE IInv'
<1>1. /\ saved' \in Saved /\ cfg' = "unset" /\ ~enabled' /\ ~ifaceUp' /\ ~fallback' /\ ~hasIp'
      /\ {enabled', ifaceUp', fallback', hasIp'} \subseteq BOOLEAN
      /\ armed' = {} /\ queue' = <<"apply">> /\ drv' = Off /\ joined' = FALSE
      /\ overridden' = FALSE /\ misled' = FALSE /\ refused' = FALSE /\ started' = FALSE
      /\ http'.pc = "idle"
  BY DEF Restart, IInv, Types
<1>2. (/\ saved \in Saved /\ cfg = "unset" /\ ~enabled /\ ~ifaceUp /\ ~fallback /\ ~hasIp
       /\ {enabled, ifaceUp, fallback, hasIp} \subseteq BOOLEAN
       /\ armed = {} /\ queue = <<"apply">> /\ drv = Off /\ joined = FALSE
       /\ overridden = FALSE /\ misled = FALSE /\ refused = FALSE /\ started = FALSE
       /\ http.pc = "idle"
       => IInv)'
  BY StartKeeps, PTL
<1> QED
  BY <1>1, <1>2

\* The station gets an address.
LEMMA GetsIpKeeps == ASSUME IInv, GetsIp PROVE IInv'
<1>1. /\ drv.link = "joining" /\ ~IsIn("down", drv.events) /\ ~IsIn("down", queue)
      /\ drv' = [drv EXCEPT !.link = "up", !.events = Append(drv.events, "got_ip")]
      /\ saved' = saved /\ http' = http /\ cfg' = cfg /\ enabled' = enabled
      /\ ifaceUp' = ifaceUp /\ fallback' = fallback /\ armed' = armed /\ queue' = queue
      /\ hasIp' = hasIp /\ joined' = joined /\ misled' = misled /\ refused' = refused
      /\ started' = started /\ overridden' = overridden
  BY DEF GetsIp, settingsVars, workerVars, history
<1>2. Types /\ Configured /\ Linked(drv, queue, hasIp) /\ cfg # "unset"
  BY <1>1 DEF IInv, Unset, Off
<1>3. drv \in Driver /\ drv.events \in Seq(Events) /\ "got_ip" \in Events /\ hasIp \in BOOLEAN
  BY <1>2 DEF Types, Driver, Events
<1>4. /\ Append(drv.events, "got_ip") \in Seq(Events)
      /\ \A m : IsIn(m, Append(drv.events, "got_ip")) <=> m = "got_ip" \/ IsIn(m, drv.events)
  BY <1>3, Appended
<1>5. drv' = [mode |-> drv.mode, link |-> "up", conf |-> drv.conf,
              events |-> Append(drv.events, "got_ip")]
  BY <1>1, <1>3 DEF Driver
<1>6. drv' \in Driver
  BY <1>3, <1>4, <1>5 DEF Driver
<1>7. Types' /\ Unset' /\ Wanted' /\ Configured' /\ Tried'
  BY <1>1, <1>2, <1>5, <1>6 DEF IInv, Types, Unset, Wanted, Configured, Tried
<1>8. Linked(drv', queue', hasIp')
  <2>1. Tells(Append(drv.events, "got_ip"), hasIp)
    BY <1>3, TellsAppended
  <2>2. DownLast(Append(drv.events, "got_ip"))
    BY <1>1, <1>2, <1>3, DownLastAppended DEF Linked
  <2>3. drv'.link = "up" /\ drv'.events = Append(drv.events, "got_ip")
    BY <1>5
  <2>4. ~IsIn("down", Append(drv.events, "got_ip"))
    BY <1>1, <1>4
  <2> QED
    BY <1>1, <2>1, <2>2, <2>3, <2>4 DEF Linked
<1> QED
  BY <1>7, <1>8 DEF IInv

\* It loses the link.
LEMMA LosesLinkKeeps == ASSUME IInv, LosesLink PROVE IInv'
<1>1. /\ drv.link # "down" /\ drv' = Disconnected(drv)
      /\ saved' = saved /\ http' = http /\ overridden' = overridden
      /\ UNCHANGED <<cfg, enabled, ifaceUp, fallback, armed, queue, hasIp, joined,
                     misled, started, refused>>
  BY DEF LosesLink, settingsVars, workerVars, history
<1>2. Types /\ Configured /\ cfg # "unset"
  BY <1>1 DEF IInv, Unset, Off
<1>3. drv' \in Driver /\ Calls(drv, drv') /\ drv'.mode = drv.mode /\ drv'.conf = drv.conf
  BY <1>1, <1>2, DisconnectedCalls DEF Types
<1>4. Configured'
  BY <1>1, <1>2, <1>3 DEF Configured
<1>5. saved' \in Saved /\ overridden' \in BOOLEAN
  BY <1>1, <1>2 DEF Types
<1> QED
  BY <1>1, <1>2, <1>3, <1>4, <1>5, BesideKeeps DEF Types

\* It loses the address, and stays associated.
LEMMA LosesIpKeeps == ASSUME IInv, LosesIp PROVE IInv'
<1>1. /\ drv.link = "up"
      /\ drv' = [drv EXCEPT !.link = "joining", !.events = Append(drv.events, "lost_ip")]
      /\ saved' = saved /\ http' = http /\ cfg' = cfg /\ enabled' = enabled
      /\ ifaceUp' = ifaceUp /\ fallback' = fallback /\ armed' = armed /\ queue' = queue
      /\ hasIp' = hasIp /\ joined' = joined /\ misled' = misled /\ refused' = refused
      /\ started' = started /\ overridden' = overridden
  BY DEF LosesIp, settingsVars, workerVars, history
<1>2. Types /\ Configured /\ Linked(drv, queue, hasIp) /\ cfg # "unset"
  BY <1>1 DEF IInv, Unset, Off
<1>3. drv \in Driver /\ drv.events \in Seq(Events) /\ "lost_ip" \in Events /\ hasIp \in BOOLEAN
  BY <1>2 DEF Types, Driver, Events
<1>4. /\ Append(drv.events, "lost_ip") \in Seq(Events)
      /\ \A m : IsIn(m, Append(drv.events, "lost_ip")) <=> m = "lost_ip" \/ IsIn(m, drv.events)
  BY <1>3, Appended
<1>5. drv' = [mode |-> drv.mode, link |-> "joining", conf |-> drv.conf,
              events |-> Append(drv.events, "lost_ip")]
  BY <1>1, <1>3 DEF Driver
<1>6. drv' \in Driver
  BY <1>3, <1>4, <1>5 DEF Driver
<1>7. Types' /\ Unset' /\ Wanted' /\ Configured' /\ Tried'
  BY <1>1, <1>2, <1>5, <1>6 DEF IInv, Types, Unset, Wanted, Configured, Tried
<1>8. Linked(drv', queue', hasIp')
  <2>1. ~Tells(Append(drv.events, "lost_ip"), hasIp)
    BY <1>3, TellsAppended
  <2>2. DownLast(Append(drv.events, "lost_ip"))
    BY <1>2, <1>3, DownLastAppended DEF Linked
  <2>3. drv'.link = "joining" /\ drv'.events = Append(drv.events, "lost_ip")
    BY <1>5
  <2> QED
    BY <1>1, <1>2, <1>4, <2>1, <2>2, <2>3 DEF Linked
<1> QED
  BY <1>7, <1>8 DEF IInv

\* A step that changes nothing of it.
LEMMA StutterKeeps ==
    ASSUME IInv, UNCHANGED <<settingsVars, workerVars, armed, queue, hasIp, drv, history>>
    PROVE  IInv'
BY DEF IInv, Types, Unset, Wanted, Configured, Tried,
       settingsVars, workerVars, history

\* The inductive invariant.
LEMMA Invariance == Spec => []IInv
<1>1. Init => IInv
  <2> SUFFICES ASSUME Init PROVE IInv
    OBVIOUS
  <2>1. /\ saved \in Saved /\ cfg = "unset" /\ ~enabled /\ ~ifaceUp /\ ~fallback /\ ~hasIp
        /\ {enabled, ifaceUp, fallback, hasIp} \subseteq BOOLEAN
        /\ armed = {} /\ queue = <<"apply">> /\ drv = Off /\ joined = FALSE
        /\ overridden = FALSE /\ misled = FALSE /\ refused = FALSE /\ started = FALSE
        /\ http.pc = "idle"
    BY DEF Init
  <2> QED
    BY <2>1, StartKeeps
<1>2. IInv /\ [Next]_vars => IInv'
  <2> SUFFICES ASSUME IInv, [Next]_vars PROVE IInv'
    OBVIOUS
  <2>1. CASE Worker
    BY <2>1, ApplyFirstKeeps, ApplyNoneKeeps, ApplyCredsKeeps, ApplyRestKeeps,
       StaStartedKeeps, StaStoppedKeeps, GotIpKeeps, DownKeeps, RetryDueKeeps,
       WindowOverKeeps, LingerOverKeeps DEF Worker
  <2>2. CASE Deliver \/ (\E t \in Timers : Fires(t))
    BY <2>2, DeliverKeeps, FiresKeeps
  <2>3. CASE PatchReads \/ (\E c \in Saved : PatchSaves(c)) \/ Reset \/ Restart
    BY <2>3, EditsKeep, PatchSavesKeeps, RestartKeeps
  <2>4. CASE ScanBorrows \/ (\E ok \in BOOLEAN : ScanReturns(ok))
    BY <2>4, ScanBorrowsKeeps, ScanReturnsKeeps
  <2>5. CASE GetsIp \/ LosesLink \/ LosesIp
    BY <2>5, GetsIpKeeps, LosesLinkKeeps, LosesIpKeeps
  <2>6. CASE (\E a \in Airs : AirChanges(a)) \/ UNCHANGED vars
    BY <2>6, StutterKeeps DEF AirChanges, vars
  <2> QED
    BY <2>1, <2>2, <2>3, <2>4, <2>5, <2>6 DEF Next
<1> QED
  BY <1>1, <1>2, PTL DEF Spec

-----------------------------------------------------------------------------
(* The theorems.                                                           *)

\* What the getters say of the address and the mode (s_has_ip, s_mode) is what
\* the driver is in, whenever its events and the worker's messages are dealt with.
THEOREM SettledIsSo == Spec => []SettledIsTrue
<1>1. IInv => SettledIsTrue
  <2> SUFFICES ASSUME IInv, Quiet
               PROVE  /\ hasIp <=> drv.link = "up"
                      /\ ~refused =>
                            /\ IF cfg = "none" THEN drv.mode = "ap" ELSE HasSta(drv.mode)
                            /\ drv.conf = cfg \/ cfg = "none"
    BY DEF SettledIsTrue
  <2>1. queue = <<>> /\ drv.events = <<>> /\ http.pc # "borrowed" /\ ~overridden
    BY DEF Quiet
  <2>2. cfg \in Creds \/ cfg = "none"
    BY <2>1 DEF IInv, Types, Unset, Saved
  <2>3. ~IsIn("down", queue) /\ ~IsIn("down", drv.events) /\ (Tells(drv.events, hasIp) <=> hasIp)
    BY <2>1 DEF IsIn, Tells
  <2>4. hasIp <=> drv.link = "up"
    BY <2>3 DEF IInv, Linked
  <2> QED
    BY <2>1, <2>2, <2>4, CredsFacts DEF IInv, Configured
<1> QED
  BY Invariance, <1>1, PTL

\* As long as credentials have never worked the setup AP is up, or about to be
\* (handle_fallback_timer): no order of events and timeouts loses it, but for an
\* address of other credentials that is handled late, and a driver that refuses.
THEOREM WayIn == Spec => []SomeWayIn
<1>1. IInv => SomeWayIn
  BY CredsFacts DEF IInv, Tried, SomeWayIn, Configured, Wanted, Types, Saved
<1> QED
  BY Invariance, <1>1, PTL
=============================================================================
