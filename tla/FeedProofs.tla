----------------------------- MODULE FeedProofs -----------------------------
(***************************************************************************)
(* Proofs about the feed and the monitor that writes to it, for a ring of  *)
(* any size and any number of notifications.                               *)
(*                                                                         *)
(* IInv adds to the types what a notification is, so that a sequence of    *)
(* them can be cut and extended, and what the ping session can still have  *)
(* to report: never two ends of one kind, and no echo of this check before *)
(* it is sent.                                                             *)
(***************************************************************************)
EXTENDS Feed, TLAPS

Items == Seq([id : Nat, read : BOOLEAN])

Feeds == [items : Items, next : 1..MaxId + 1]

SoundFeed(f) == f \in Feeds /\ InOrder(f)

FeedsSound ==
    /\ SoundFeed(feed) /\ SoundFeed(flash)
    /\ scratch = <<>> \/ \E f \in Feeds : scratch = <<f>> /\ InOrder(f) /\ f.next <= feed.next
    /\ dirty \in BOOLEAN /\ armed \in BOOLEAN /\ lost \in BOOLEAN

MonitorSound ==
    /\ task \in {"wait", "ready", "ping", "dns", "news"} /\ icmp \in BOOLEAN
    /\ wan \in {"unknown", "up", "degraded", "down"} /\ fails \in 0..Streak

\* The session ends its echoes in order; at most one was given up.
PingSound ==
    /\ ok \in BOOLEAN /\ done \in BOOLEAN
    /\ ping \in {<<>>, <<"late">>, <<"sent">>, <<"late", "sent">>}
    /\ task = "ready" => ping \in {<<>>, <<"late">>}

WorldSound == lan \in BOOLEAN /\ net \in Nets /\ faults \in 0..MaxFaults

IInv == FeedsSound /\ MonitorSound /\ PingSound /\ WorldSound

-----------------------------------------------------------------------------
(* The ring.                                                               *)

LEMMA Bounds == Ring \in Nat \ {0} /\ Streak \in Nat \ {0} /\ MaxId \in Nat
                /\ MaxFaults \in Nat
BY FeedAssumption

(* A push leaves the ring in order: the oldest makes way, and the id is     *)
(* larger than any given before.                                            *)
LEMMA PushedInOrder ==
    ASSUME NEW f, SoundFeed(f), f.next <= MaxId
    PROVE  SoundFeed(Pushed(f))
<1> DEFINE N == [id : Nat, read : BOOLEAN]
           s == f.items
           new == [id |-> f.next, read |-> FALSE]
           t == IF Len(s) = Ring THEN Tail(s) ELSE s
           d == IF Len(s) = Ring THEN 1 ELSE 0
           r == Append(t, new)
<1>1. /\ s \in Seq(N) /\ Len(s) \in Nat /\ Len(s) <= Ring /\ f.next \in 1..MaxId + 1
      /\ DOMAIN s = 1..Len(s) /\ new \in N
      /\ \A i \in 1..Len(s) : /\ s[i].id \in 1..f.next - 1 /\ s[i].read \in BOOLEAN
                              /\ \A k \in 1..i - 1 : s[k].id < s[i].id
  <2>1. s \in Seq(N) /\ f.next \in 1..MaxId + 1 /\ InOrder(f)
    BY DEF SoundFeed, Feeds, Items
  <2>2. DOMAIN s = 1..Len(s) /\ Len(s) \in Nat
    BY <2>1
  <2>3. new \in N
    BY <2>1, Bounds
  <2> QED
    BY <2>1, <2>2, <2>3 DEF InOrder
<1>2. Ring \in Nat \ {0} /\ d \in {0, 1} /\ MaxId \in Nat
  BY Bounds
<1>3. /\ t \in Seq(N) /\ Len(t) = Len(s) - d /\ Len(t) < Ring /\ Len(t) \in Nat
      /\ \A i \in 1..Len(t) : i + d \in 1..Len(s) /\ t[i] = s[i + d]
  <2> HIDE DEF s, N
  <2>1. CASE Len(s) = Ring
    <3>1. /\ Tail(s) \in Seq(N) /\ Len(Tail(s)) = Len(s) - 1
          /\ \A i \in 1..Len(s) - 1 : Tail(s)[i] = s[i + 1]
      BY <1>1, <1>2, <2>1
    <3>2. t = Tail(s) /\ d = 1
      BY <2>1
    <3> HIDE DEF t, d
    <3>3. Len(t) = Len(s) - d /\ Len(t) < Ring /\ Len(t) \in Nat
      BY <1>1, <1>2, <2>1, <3>1, <3>2
    <3>4. \A i \in 1..Len(s) - 1 : i + 1 \in 1..Len(s)
      BY <1>1
    <3>5. \A i \in 1..Len(t) : i + d \in 1..Len(s) /\ t[i] = s[i + d]
      BY <3>1, <3>2, <3>4
    <3> QED
      BY <3>1, <3>2, <3>3, <3>5
  <2>2. CASE Len(s) # Ring
    <3>1. t = s /\ d = 0
      BY <2>2
    <3> HIDE DEF t, d
    <3>2. Len(t) = Len(s) - d /\ Len(t) < Ring /\ Len(t) \in Nat
      <4>1. Len(s) \in Nat /\ Len(s) <= Ring /\ Ring \in Nat
        BY <1>1, <1>2
      <4>2. Len(t) = Len(s)
        BY <3>1
      <4> QED
        BY <2>2, <3>1, <4>1, <4>2
    <3>3. \A i \in 1..Len(t) : i + d \in 1..Len(s) /\ t[i] = s[i + d]
      BY <3>1
    <3> QED
      BY <1>1, <3>1, <3>2, <3>3
  <2> QED
    BY <2>1, <2>2
<1>4. Pushed(f) = [items |-> r, next |-> f.next + 1]
  BY DEF Pushed
<1> HIDE DEF t, N, d, new
<1>5. /\ r \in Seq(N) /\ Len(r) = Len(t) + 1 /\ DOMAIN r = 1..Len(t) + 1
      /\ \A i \in 1..Len(t) : r[i] = t[i]
      /\ r[Len(t) + 1] = new
  BY <1>1, <1>3
<1> HIDE DEF r, s
<1>6. f.next + 1 \in 1..MaxId + 1
  BY <1>1, <1>2
<1>7. ASSUME NEW i \in 1..Len(t) + 1
      PROVE  /\ r[i].id \in 1..f.next /\ r[i].read \in BOOLEAN
             /\ \A k \in 1..i - 1 : r[k].id < r[i].id
  <2>1. CASE i \in 1..Len(t)
    <3>1. r[i] = s[i + d] /\ i + d \in 1..Len(s) /\ s[i + d].id \in 1..f.next - 1
      BY <1>1, <1>3, <1>5, <2>1
    <3>2. ASSUME NEW k \in 1..i - 1
          PROVE  r[k].id < r[i].id
      <4>1. k \in 1..Len(t) /\ k + d \in 1..(i + d) - 1
        BY <1>2, <1>3, <2>1
      <4>2. r[k] = s[k + d]
        BY <1>3, <1>5, <4>1
      <4> QED
        BY <1>1, <3>1, <4>1, <4>2
    <3>3. r[i].id \in 1..f.next /\ r[i].read \in BOOLEAN
      BY <1>1, <3>1
    <3> QED
      BY <3>2, <3>3
  <2>2. CASE i = Len(t) + 1
    <3>1. r[i].id = f.next /\ r[i].read = FALSE /\ f.next \in Nat \ {0}
      BY <1>1, <1>5, <2>2 DEF new
    <3>2. ASSUME NEW k \in 1..i - 1
          PROVE  r[k].id < r[i].id
      <4>1. k \in 1..Len(t)
        BY <1>3, <2>2
      <4>2. r[k].id \in 1..f.next - 1
        BY <1>1, <1>3, <1>5, <4>1
      <4> QED
        BY <1>1, <3>1, <4>2
    <3>3. r[i].id \in 1..f.next
      BY <3>1
    <3>4. r[i].read \in BOOLEAN
      BY <3>1
    <3> QED
      BY <3>2, <3>3, <3>4
  <2> QED
    BY <1>3, <2>1, <2>2
<1>8. Pushed(f) \in Feeds
  BY <1>4, <1>5, <1>6 DEF Feeds, Items, N
<1>9. InOrder(Pushed(f))
  <2>1. Pushed(f).items = r /\ Pushed(f).next = f.next + 1 /\ (f.next + 1) - 1 = f.next
    BY <1>1, <1>4
  <2>2. Len(r) <= Ring
    BY <1>2, <1>3, <1>5
  <2> QED
    BY <1>5, <1>6, <1>7, <2>1, <2>2 DEF InOrder
<1> QED
  BY <1>8, <1>9 DEF SoundFeed

(* A sequence without one of its elements.                                  *)
LEMMA RemovedAt ==
    ASSUME NEW S, NEW s \in Seq(S), NEW i \in 1..Len(s)
    PROVE  /\ RemoveAt(s, i) \in Seq(S) /\ Len(RemoveAt(s, i)) = Len(s) - 1
           /\ \A k \in 1..Len(s) - 1 :
                RemoveAt(s, i)[k] = IF k < i THEN s[k] ELSE s[k + 1]
<1>1. /\ SubSeq(s, 1, i - 1) \in Seq(S) /\ Len(SubSeq(s, 1, i - 1)) = i - 1
      /\ \A k \in 1..i - 1 : SubSeq(s, 1, i - 1)[k] = s[k]
  OBVIOUS
<1>2. /\ SubSeq(s, i + 1, Len(s)) \in Seq(S) /\ Len(SubSeq(s, i + 1, Len(s))) = Len(s) - i
      /\ \A k \in 1..Len(s) - i : SubSeq(s, i + 1, Len(s))[k] = s[i + k]
  OBVIOUS
<1> DEFINE a == SubSeq(s, 1, i - 1)
           b == SubSeq(s, i + 1, Len(s))
<1>3. /\ a \o b \in Seq(S) /\ Len(a \o b) = Len(a) + Len(b)
      /\ \A k \in 1..Len(a) + Len(b) :
           (a \o b)[k] = IF k <= Len(a) THEN a[k] ELSE b[k - Len(a)]
  <2> HIDE DEF a, b
  <2>1. a \in Seq(S) /\ b \in Seq(S)
    BY <1>1, <1>2 DEF a, b
  <2> QED
    BY <2>1
<1>4. RemoveAt(s, i) = a \o b
  BY DEF RemoveAt
<1>5. /\ a \in Seq(S) /\ Len(a) = i - 1 /\ \A k \in 1..i - 1 : a[k] = s[k]
      /\ b \in Seq(S) /\ Len(b) = Len(s) - i /\ \A k \in 1..Len(s) - i : b[k] = s[i + k]
  BY <1>1, <1>2
<1>6. Len(s) \in Nat /\ i \in 1..Len(s)
  OBVIOUS
<1> HIDE DEF a, b
<1>7. \A k \in 1..Len(s) - 1 : (a \o b)[k] = IF k < i THEN s[k] ELSE s[k + 1]
  <2> SUFFICES ASSUME NEW k \in 1..Len(s) - 1
               PROVE  (a \o b)[k] = IF k < i THEN s[k] ELSE s[k + 1]
    OBVIOUS
  <2>1. (a \o b)[k] = IF k <= i - 1 THEN a[k] ELSE b[k - (i - 1)]
    BY <1>3, <1>5, <1>6
  <2>2. k < i => a[k] = s[k]
    BY <1>5, <1>6
  <2>3. ~(k < i) => b[k - (i - 1)] = s[i + (k - (i - 1))] /\ i + (k - (i - 1)) = k + 1
    BY <1>5, <1>6
  <2>4. k <= i - 1 <=> k < i
    BY <1>6
  <2> QED
    BY <2>1, <2>2, <2>3, <2>4
<1>8. (i - 1) + (Len(s) - i) = Len(s) - 1
  BY <1>6
<1>9. a \o b \in Seq(S) /\ Len(a \o b) = Len(s) - 1
  BY <1>3, <1>5, <1>8
<1> QED
  BY <1>7, <1>4, <1>9

(* What remains when one is dismissed is in order.                          *)
LEMMA DismissedInOrder ==
    ASSUME NEW f, SoundFeed(f), NEW j \in DOMAIN f.items
    PROVE  SoundFeed([f EXCEPT !.items = RemoveAt(f.items, j)])
<1> DEFINE N == [id : Nat, read : BOOLEAN]
           s == f.items
           n == Len(s)
           r == RemoveAt(s, j)
           At(i) == IF i < j THEN i ELSE i + 1
           g == [f EXCEPT !.items = r]
<1>1. /\ s \in Seq(N) /\ n \in Nat /\ n <= Ring /\ f.next \in 1..MaxId + 1 /\ f \in Feeds
      /\ DOMAIN s = 1..n /\ j \in 1..n
      /\ \A i \in 1..n : /\ s[i].id \in 1..f.next - 1 /\ s[i].read \in BOOLEAN
                         /\ \A k \in 1..i - 1 : s[k].id < s[i].id
  <2>1. s \in Seq(N) /\ f.next \in 1..MaxId + 1 /\ InOrder(f) /\ f \in Feeds
    BY DEF SoundFeed, Feeds, Items
  <2>2. DOMAIN s = 1..n /\ n \in Nat
    BY <2>1
  <2> QED
    BY <2>1, <2>2 DEF InOrder
<1>2. /\ r \in Seq(N) /\ Len(r) = n - 1
      /\ \A i \in 1..n - 1 : r[i] = IF i < j THEN s[i] ELSE s[i + 1]
  <2> HIDE DEF s, N
  <2> QED
    BY <1>1, RemovedAt
<1> HIDE DEF r, s, N, n
<1>5. r \in Seq(N) /\ Len(r) = n - 1 /\ DOMAIN r = 1..n - 1
  BY <1>1, <1>2
<1>6. \A i \in 1..n - 1 : r[i] = s[At(i)] /\ At(i) \in 1..n
  BY <1>1, <1>2
<1>7. ASSUME NEW i \in 1..n - 1
      PROVE  /\ r[i].id \in 1..f.next - 1 /\ r[i].read \in BOOLEAN
             /\ \A k \in 1..i - 1 : r[k].id < r[i].id
  <2>1. ASSUME NEW k \in 1..i - 1
        PROVE  r[k].id < r[i].id
    <3>1. k \in 1..n - 1 /\ At(k) \in 1..At(i) - 1
      BY <1>1
    <3> HIDE DEF At
    <3> QED
      BY <1>1, <1>6, <3>1
  <2> HIDE DEF At
  <2> QED
    BY <1>1, <1>6, <2>1
<1>8. g.items = r /\ g.next = f.next /\ g \in Feeds
  BY <1>1, <1>5 DEF Feeds, Items, N
<1> HIDE DEF g
<1>9. InOrder(g)
  <2>1. Len(r) <= Ring
    BY <1>1, <1>5, Bounds
  <2> QED
    BY <1>1, <1>5, <1>7, <1>8, <2>1 DEF InOrder
<1> QED
  BY <1>8, <1>9 DEF SoundFeed, g, r, s

(* Marking all as read leaves the ids.                                      *)
LEMMA ReadInOrder ==
    ASSUME NEW f, SoundFeed(f)
    PROVE  SoundFeed([f EXCEPT !.items = [i \in DOMAIN @ |-> [@[i] EXCEPT !.read = TRUE]]])
<1> DEFINE N == [id : Nat, read : BOOLEAN]
           s == f.items
           r == [i \in DOMAIN s |-> [s[i] EXCEPT !.read = TRUE]]
           g == [f EXCEPT !.items = r]
<1>1. /\ s \in Seq(N) /\ Len(s) \in Nat /\ DOMAIN s = 1..Len(s) /\ f \in Feeds /\ InOrder(f)
  BY DEF SoundFeed, Feeds, Items
<1>2. ASSUME NEW i \in 1..Len(s)
      PROVE  r[i] \in N /\ r[i].id = s[i].id
  <2> DEFINE x == s[i]
  <2>1. x \in N /\ r[i] = [x EXCEPT !.read = TRUE]
    <3>1. i \in DOMAIN s
      BY <1>1
    <3> HIDE DEF N
    <3>2. s[i] \in N
      BY <1>1
    <3> QED
      BY <3>1, <3>2
  <2> HIDE DEF x, r
  <2>2. r[i] = [id |-> x.id, read |-> TRUE]
    BY <2>1
  <2>3. r[i] \in N /\ r[i].id = x.id
    BY <2>1, <2>2
  <2> QED
    BY <2>3 DEF x
<1>3. r = [i \in 1..Len(s) |-> r[i]]
  BY <1>1
<1> HIDE DEF r, s, N
<1>4. r \in Seq(N) /\ Len(r) = Len(s) /\ DOMAIN r = 1..Len(s)
  BY <1>1, <1>2, <1>3
<1>5. g.items = r /\ g.next = f.next /\ g \in Feeds
  BY <1>1, <1>4 DEF Feeds, Items, N
<1> HIDE DEF g
<1>6. InOrder(g)
  <2>1. ASSUME NEW i \in 1..Len(s), NEW k \in 1..i - 1
        PROVE  k \in 1..Len(s)
    BY <1>1
  <2>2. /\ Len(s) <= Ring /\ f.next \in 1..MaxId + 1
        /\ \A i \in 1..Len(s) : /\ s[i].id \in 1..f.next - 1
                                 /\ \A k \in 1..i - 1 : s[k].id < s[i].id
    BY <1>1 DEF InOrder, s
  <2>3. \A i \in 1..Len(s) : \A k \in 1..i - 1 : r[k].id < r[i].id
    <3> HIDE DEF s
    <3> QED
      BY <1>2, <2>1, <2>2
  <2>4. \A i \in 1..Len(s) : r[i].read \in BOOLEAN
    BY <1>2 DEF N
  <2> QED
    BY <1>2, <1>4, <1>5, <2>2, <2>3, <2>4 DEF InOrder
<1> QED
  BY <1>5, <1>6 DEF SoundFeed, g, r, s

-----------------------------------------------------------------------------
(* Initially, and at every step.                                            *)

LEMMA InitSound == Init => IInv
<1> SUFFICES ASSUME Init
             PROVE  IInv
  OBVIOUS
<1>1. SoundFeed(Blank)
  <2>1. Blank.items = <<>> /\ Blank.next = 1 /\ Blank \in Feeds
    BY Bounds DEF Blank, Feeds, Items
  <2> QED
    BY <2>1, Bounds DEF SoundFeed, InOrder
<1>2. FeedsSound
  BY <1>1 DEF Init, FeedsSound
<1>3. MonitorSound
  <2>1. fails \in 0..Streak
    BY Bounds DEF Init
  <2> QED
    BY <2>1 DEF Init, MonitorSound
<1>4. PingSound
  BY DEF Init, PingSound
<1>5. WorldSound
  BY Bounds DEF Init, WorldSound
<1> QED
  BY <1>2, <1>3, <1>4, <1>5 DEF IInv

(* The copy stays behind the ring as that gives out ids.                    *)
LEMMA LaterCopy ==
    ASSUME FeedsSound, SoundFeed(feed'), feed'.next >= feed.next, scratch' = scratch
    PROVE  scratch' = <<>> \/ \E f \in Feeds : /\ scratch' = <<f>> /\ InOrder(f)
                                             /\ f.next <= feed'.next
<1>1. feed.next \in Nat /\ feed'.next \in Nat
  BY Bounds DEF FeedsSound, SoundFeed, InOrder
<1>2. CASE scratch # <<>>
  <2>1. PICK f \in Feeds : scratch = <<f>> /\ InOrder(f) /\ f.next <= feed.next
    BY <1>2 DEF FeedsSound
  <2>2. f.next \in Nat
    BY <2>1, Bounds DEF InOrder
  <2>3. f.next <= feed'.next
    BY <1>1, <2>1, <2>2
  <2> QED
    BY <2>1, <2>3
<1> QED
  BY <1>2

(* A push, from whichever task, keeps the feed sound.                       *)
LEMMA PushKeeps ==
    ASSUME FeedsSound, Push
    PROVE  FeedsSound'
<1>1. SoundFeed(feed')
  BY PushedInOrder DEF FeedsSound, Push
<1>2. feed.next \in Nat /\ feed'.next = feed.next + 1
  BY Bounds DEF FeedsSound, SoundFeed, InOrder, Push, Pushed
<1>3. /\ SoundFeed(flash) /\ UNCHANGED <<scratch, flash, armed, lost>> /\ dirty' = TRUE
      /\ armed \in BOOLEAN /\ lost \in BOOLEAN
  BY DEF FeedsSound, Push
<1> QED
  BY <1>1, <1>3, <1>2, LaterCopy DEF FeedsSound

(* Reading, dismissing, arming and saving, and the restart.                 *)
LEMMA FeedsKeep ==
    ASSUME IInv, Arm \/ HttpServer \/ Timer \/ OtherNews
    PROVE  IInv'
<1>1. FeedsSound'
  <2>1. CASE Arm
    BY <2>1 DEF IInv, FeedsSound, Arm
  <2>2. CASE MarkRead
    <3>1. SoundFeed(feed')
      BY <2>2, ReadInOrder DEF IInv, FeedsSound, MarkRead
    <3>2. feed \in Feeds /\ UNCHANGED <<scratch, flash, armed, lost>> /\ dirty' = TRUE
          /\ feed' = [feed EXCEPT !.items = [i \in DOMAIN @ |-> [@[i] EXCEPT !.read = TRUE]]]
      BY <2>2 DEF IInv, FeedsSound, SoundFeed, MarkRead
    <3>3. feed'.next = feed.next /\ feed.next \in Nat
      BY <3>2, Bounds DEF Feeds
    <3> QED
      BY <3>1, <3>2, <3>3, LaterCopy DEF IInv, FeedsSound
  <2>3. ASSUME NEW i \in DOMAIN feed.items, Dismiss(RemoveAt(feed.items, i))
        PROVE  FeedsSound'
    <3>1. SoundFeed(feed')
      BY <2>3, DismissedInOrder DEF IInv, FeedsSound, Dismiss
    <3>2. feed \in Feeds /\ UNCHANGED <<scratch, flash, armed, lost>> /\ dirty' = TRUE
          /\ feed' = [feed EXCEPT !.items = RemoveAt(feed.items, i)]
      BY <2>3 DEF IInv, FeedsSound, SoundFeed, Dismiss
    <3>3. feed'.next = feed.next /\ feed.next \in Nat
      BY <3>2, Bounds DEF Feeds
    <3> QED
      BY <3>1, <3>2, <3>3, LaterCopy DEF IInv, FeedsSound
  <2>4. CASE Dismiss(<<>>)
    <3>1. feed \in Feeds /\ feed.next \in 1..MaxId + 1 /\ feed' = [feed EXCEPT !.items = <<>>]
      BY <2>4 DEF IInv, FeedsSound, SoundFeed, Feeds, Dismiss
    <3>2. feed' \in Feeds /\ feed'.items = <<>> /\ feed'.next = feed.next
      <4>1. <<>> \in Items
        BY DEF Items
      <4> HIDE DEF Items
      <4> QED
        BY <3>1, <4>1 DEF Feeds
    <3>3. SoundFeed(feed')
      BY <3>1, <3>2, Bounds DEF SoundFeed, InOrder
    <3>4. UNCHANGED <<scratch, flash, armed, lost>> /\ dirty' = TRUE /\ feed.next \in Nat
      BY <2>4, <3>1, Bounds DEF Dismiss
    <3> QED
      BY <3>2, <3>3, <3>4, LaterCopy DEF IInv, FeedsSound
  <2>5. CASE FlushTakes
    <3>1. feed \in Feeds /\ InOrder(feed) /\ feed.next <= feed.next
      BY Bounds DEF IInv, FeedsSound, SoundFeed, InOrder
    <3> QED
      BY <2>5, <3>1 DEF IInv, FeedsSound, FlushTakes
  <2>6. CASE FlushWrites
    <3>1. PICK f \in Feeds : scratch = <<f>> /\ InOrder(f)
      BY <2>6 DEF IInv, FeedsSound, FlushWrites
    <3>2. SoundFeed(flash')
      BY <2>6, <3>1 DEF FlushWrites, SoundFeed
    <3> QED
      BY <2>6, <3>2 DEF IInv, FeedsSound, FlushWrites
  <2>7. CASE FlushFails
    BY <2>7 DEF IInv, FeedsSound, FlushFails
  <2>8. CASE OtherNews
    BY <2>8, PushKeeps DEF IInv, OtherNews
  <2> QED
    BY <2>1, <2>2, <2>3, <2>4, <2>5, <2>6, <2>7, <2>8 DEF HttpServer, Timer
<1>2. UNCHANGED <<wanVars, pingVars, world>> /\ (faults' = faults \/ Fault)
  BY DEF Arm, HttpServer, MarkRead, Dismiss, Timer, FlushTakes, FlushWrites, FlushFails, OtherNews
<1>3. faults' \in 0..MaxFaults
  BY <1>2, Bounds DEF IInv, WorldSound, Fault
<1> QED
  BY <1>1, <1>2, <1>3 DEF IInv, MonitorSound, PingSound, WorldSound, wanVars, pingVars, world

(* The monitor's steps.                                                     *)
LEMMA MonitorKeeps ==
    ASSUME IInv, Monitor
    PROVE  IInv'
<1>1. FeedsSound'
  <2>1. UNCHANGED feedVars \/ Push
    BY DEF Monitor, Unknown, Drains, NoSession, Sends, Takes, GivesUp, Commits, Tells
  <2>2. CASE UNCHANGED feedVars
    BY <2>2 DEF IInv, FeedsSound, feedVars
  <2> QED
    BY <2>1, <2>2, PushKeeps DEF IInv
<1>2. WorldSound'
  <2>1. UNCHANGED world /\ (faults' = faults \/ Fault)
    BY DEF Monitor, Unknown, Drains, NoSession, Sends, Takes, GivesUp, Commits, Tells
  <2> QED
    BY <2>1, Bounds DEF IInv, WorldSound, Fault, world
<1>3. MonitorSound'
  <2>1. CASE Commits
    <3> DEFINE seen == Observed(icmp, net = "up")
               run  == IF seen = "up" THEN 0 ELSE IF fails = Streak THEN fails ELSE fails + 1
    <3>1. fails' = run /\ wan' = Verdict(seen, run) /\ icmp' = FALSE /\ task' \in {"wait", "news"}
      BY <2>1 DEF Commits
    <3>2. seen \in {"up", "degraded", "down"}
      <4>1. icmp \in BOOLEAN
        BY DEF IInv, MonitorSound
      <4> QED
        BY <4>1 DEF Observed
    <3> HIDE DEF seen
    <3>3. run \in 0..Streak
      BY Bounds DEF IInv, MonitorSound
    <3> HIDE DEF run
    <3>4. wan' \in {"unknown", "up", "degraded", "down"}
      BY <3>1, <3>2 DEF IInv, MonitorSound, Verdict
    <3> QED
      BY <3>1, <3>3, <3>4 DEF MonitorSound
  <2>2. CASE Takes
    BY <2>2 DEF Takes, IInv, MonitorSound, PingSound
  <2>3. CASE Unknown
    BY <2>3, Bounds DEF Unknown, IInv, MonitorSound
  <2>4. CASE Drains \/ NoSession \/ Sends \/ GivesUp \/ Tells
    BY <2>4 DEF Drains, NoSession, Sends, GivesUp, Tells, IInv, MonitorSound
  <2> QED
    BY <2>1, <2>2, <2>3, <2>4 DEF Monitor
<1>4. PingSound'
  <2>1. CASE Drains
    <3>1. ping \in {<<>>, <<"late">>}
      <4>1. ping \in {<<>>, <<"late">>, <<"sent">>, <<"late", "sent">>} /\ "sent" \notin ToSet(ping)
        BY <2>1 DEF IInv, PingSound, Drains, Starts
      <4>2. ping # <<"sent">> /\ ping # <<"late", "sent">>
        BY <4>1 DEF ToSet
      <4> QED
        BY <4>1, <4>2
    <3> QED
      BY <2>1, <3>1 DEF Drains, IInv, PingSound
  <2>2. CASE Sends
    <3>1. ping \in {<<>>, <<"late">>} /\ ping' = Append(ping, "sent")
      BY <2>2 DEF IInv, PingSound, Sends
    <3>2. ping' = <<"sent">> \/ ping' = <<"late", "sent">>
      <4>1. CASE ping = <<>>
        BY <3>1, <4>1
      <4>2. CASE ping = <<"late">>
        <5> DEFINE S == {"late", "sent"}
                   both == <<"late", "sent">>
        <5>1. /\ ping \in Seq(S) /\ Len(ping) = 1 /\ ping[1] = "late" /\ "sent" \in S
              /\ both \in Seq(S) /\ Len(both) = 2 /\ both[1] = "late" /\ both[2] = "sent"
          BY <4>2
        <5> HIDE DEF S, both
        <5>2. ping' \in Seq(S) /\ Len(ping') = 2 /\ ping'[1] = "late" /\ ping'[2] = "sent"
          <6>1. /\ Append(ping, "sent") \in Seq(S) /\ Len(Append(ping, "sent")) = 2
                /\ Append(ping, "sent")[1] = "late" /\ Append(ping, "sent")[2] = "sent"
            BY <5>1
          <6> QED
            BY <3>1, <6>1
        <5>3. ping' = [i \in 1..2 |-> ping'[i]] /\ both = [i \in 1..2 |-> both[i]]
          BY <5>1, <5>2
        <5>4. \A i \in 1..2 : ping'[i] = both[i]
          BY <5>1, <5>2
        <5>5. ping' = both
          BY <5>3, <5>4
        <5> QED
          BY <5>5 DEF both
      <4> QED
        BY <3>1, <4>1, <4>2
    <3> QED
      BY <2>2, <3>2 DEF Sends, IInv, PingSound
  <2>3. CASE GivesUp
    BY <2>3 DEF GivesUp, IInv, PingSound
  <2>4. CASE Unknown \/ NoSession \/ Takes \/ Commits \/ Tells
    BY <2>4 DEF Unknown, NoSession, Takes, Commits, Tells, pingVars, IInv, PingSound
  <2> QED
    BY <2>1, <2>2, <2>3, <2>4 DEF Monitor
<1> QED
  BY <1>1, <1>2, <1>3, <1>4 DEF IInv

(* The session ends an echo, the world changes, or the power goes.          *)
LEMMA WorldKeeps ==
    ASSUME IInv, Session \/ LanChanges \/ (\E n \in Nets : NetChanges(n)) \/ Restart
    PROVE  IInv'
<1>1. CASE Session
  <2>1. PICK answered \in BOOLEAN : Ends(answered)
    BY <1>1 DEF Session
  <2>2. ping # <<>> /\ ping' = Tail(ping) /\ ok' = (ok \/ answered) /\ done' = TRUE
        /\ UNCHANGED <<feedVars, wanVars, world, faults>>
    BY <2>1 DEF Ends
  <2>3. /\ ping' \in {<<>>, <<"late">>, <<"sent">>, <<"late", "sent">>}
        /\ task = "ready" => ping' \in {<<>>, <<"late">>}
    <3>1. \/ ping = <<"late">> \/ ping = <<"sent">> \/ ping = <<"late", "sent">>
      BY <2>2 DEF IInv, PingSound
    <3>2. task = "ready" => ping = <<"late">>
      BY <2>2 DEF IInv, PingSound
    <3>3. ping = <<"late">> \/ ping = <<"sent">> => ping' = <<>>
      BY <2>2
    <3>4. ping = <<"late", "sent">> => ping' = <<"sent">>
      BY <2>2
    <3> QED
      BY <3>1, <3>2, <3>3, <3>4
  <2>4. ok' \in BOOLEAN /\ done' \in BOOLEAN
    BY <2>1, <2>2 DEF IInv, PingSound
  <2> QED
    BY <2>2, <2>3, <2>4 DEF IInv, FeedsSound, MonitorSound, PingSound, WorldSound,
                            feedVars, wanVars, world
<1>2. CASE LanChanges \/ \E n \in Nets : NetChanges(n)
  <2>1. /\ UNCHANGED <<feedVars, wanVars, pingVars, faults>>
        /\ lan' \in BOOLEAN /\ net' \in Nets
    BY <1>2 DEF LanChanges, NetChanges, IInv, WorldSound
  <2> QED
    BY <2>1 DEF IInv, FeedsSound, MonitorSound, PingSound, WorldSound, feedVars, wanVars, pingVars
<1>3. CASE Restart
  <2>1. faults' \in 0..MaxFaults
    BY <1>3, Bounds DEF Restart, Fault, IInv, WorldSound
  <2> QED
    <3>1. FeedsSound'
      BY <1>3 DEF Restart, IInv, FeedsSound
    <3>2. fails' \in 0..Streak
      BY <1>3, Bounds DEF Restart
    <3>3. MonitorSound'
      BY <1>3, <3>2 DEF Restart, MonitorSound
    <3>4. PingSound'
      BY <1>3 DEF Restart, IInv, PingSound
    <3>5. WorldSound'
      BY <1>3, <2>1 DEF Restart, IInv, WorldSound, world
    <3> QED
      BY <3>1, <3>3, <3>4, <3>5 DEF IInv
<1> QED
  BY <1>1, <1>2, <1>3

LEMMA NextKeeps == IInv /\ [Next]_vars => IInv'
<1>1. ASSUME IInv, UNCHANGED vars
      PROVE  IInv'
  BY <1>1 DEF vars, feedVars, wanVars, pingVars, world,
              IInv, FeedsSound, MonitorSound, PingSound, WorldSound
<1> QED
  BY <1>1, FeedsKeep, MonitorKeeps, WorldKeeps DEF Next

LEMMA AlwaysSound == Spec => []IInv
BY InitSound, NextKeeps, PTL DEF Spec

LEMMA SoundIsTyped == IInv => FeedTypeOK
<1> SUFFICES ASSUME IInv
             PROVE  FeedTypeOK
  OBVIOUS
<1>1. InOrder(feed) /\ InOrder(flash)
  BY DEF IInv, FeedsSound, SoundFeed
<1>2. Len(scratch) <= 1 /\ \A f \in ToSet(scratch) : InOrder(f) /\ f.next <= feed.next
  <2>1. CASE scratch = <<>>
    BY <2>1 DEF ToSet
  <2>2. CASE \E f \in Feeds : scratch = <<f>> /\ InOrder(f) /\ f.next <= feed.next
    BY <2>2 DEF ToSet
  <2> QED
    BY <2>1, <2>2 DEF IInv, FeedsSound
<1>3. {dirty, armed, lost, icmp, ok, done, lan} \subseteq BOOLEAN
  BY DEF IInv, FeedsSound, MonitorSound, PingSound, WorldSound
<1>4. ping \in Seq({"late", "sent"}) /\ Len(ping) <= 2
  <2>1. ping \in {<<>>, <<"late">>, <<"sent">>, <<"late", "sent">>}
    BY DEF IInv, PingSound
  <2>2. /\ <<>> \in Seq({"late", "sent"}) /\ Len(<<>>) <= 2
        /\ <<"late">> \in Seq({"late", "sent"}) /\ Len(<<"late">>) <= 2
        /\ <<"sent">> \in Seq({"late", "sent"}) /\ Len(<<"sent">>) <= 2
        /\ <<"late", "sent">> \in Seq({"late", "sent"}) /\ Len(<<"late", "sent">>) <= 2
    OBVIOUS
  <2>4. ping \in Seq({"late", "sent"}) /\ Len(ping) <= 2
    BY <2>1, <2>2
  <2> QED
    BY <2>4 DEF IInv, PingSound
<1> QED
  BY <1>1, <1>2, <1>3, <1>4 DEF FeedTypeOK, IInv, MonitorSound, WorldSound

(* The ring, the copy being saved and the flash hold at most Ring           *)
(* notifications in the order they were given, each under an id handed out  *)
(* already and none under another's, and the copy is not ahead of the ring, *)
(* whatever is pushed, read and dismissed while it is being written         *)
(* (notify.c); and the ping session has at most one late end  *)
(* besides that of the check's own echo (wan.c).                            *)
THEOREM TypesKept == Spec => []FeedTypeOK
BY AlwaysSound, SoundIsTyped, PTL
=============================================================================
