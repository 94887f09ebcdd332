-------------------------------- MODULE Feed --------------------------------
(***************************************************************************)
(* The notification feed (src/main/db/notify.c) and the monitor of the     *)
(* internet connection that writes to it (src/main/net/wan.c).  Any task   *)
(* may push; httpd marks and dismisses; a timer saves what changed, in two *)
(* steps that pushes come between.  The monitor's check sends one echo     *)
(* through a ping session that is never deleted, whose callbacks may come  *)
(* late, then looks a name up, and a run of failed checks makes an outage. *)
(* A notification is its id and whether it was read.  A type switched off  *)
(* in the settings is a push that leaves nothing.                          *)
(***************************************************************************)
EXTENDS Naturals, Sequences, SequencesExt

CONSTANTS Ring,     \* NETDASH_NOTIF_RING
          Streak,   \* WAN_FAIL_STREAK
          Nets,     \* what the internet may be: "up", "nodns" or "down"
          MaxId,    \* bound: notifications pushed
          MaxFaults \* bound: crashes, failures, and echoes given up before they end

ASSUME FeedAssumption ==
    /\ {Ring, Streak} \subseteq Nat \ {0} /\ Nets \subseteq {"up", "nodns", "down"}
    /\ {MaxId, MaxFaults} \subseteq Nat

VARIABLES
    feed,    \* s_items, oldest first, and s_next_id
    dirty,   \* s_dirty
    armed,   \* s_armed
    scratch, \* the copies the timer is writing: none, or one
    flash,   \* the copy in NVS
    lost,    \* history: the last copy made was not written
    task,    \* where the monitor is
    icmp,    \* whether its echo was answered
    wan,     \* s_state.state
    fails,   \* s_fail_streak; counted up to Streak
    ok,      \* s_ping.ok
    done,    \* s_ping.done
    ping,    \* the echoes whose end was not reported yet: "late" ones first
    lan,     \* the monitor is on, and Wi-Fi gives it a gateway
    net,     \* the internet
    faults   \* crashes, failures and late ends so far

feedVars == <<feed, dirty, armed, scratch, flash, lost>>
wanVars  == <<task, icmp, wan, fails>>
pingVars == <<ok, done, ping>>
world    == <<lan, net>>
vars == <<feedVars, wanVars, pingVars, world, faults>>

Blank == [items |-> <<>>, next |-> 1]

InOrder(f) == /\ Len(f.items) <= Ring /\ f.next \in 1..MaxId + 1
              /\ \A i \in DOMAIN f.items :
                    /\ f.items[i].id \in 1..f.next - 1 /\ f.items[i].read \in BOOLEAN
                    /\ \A k \in 1..i - 1 : f.items[k].id < f.items[i].id

\* Types; and the ring, the copy and flash hold notifications in the order they
\* were given, none under the id of another or one still to be given; nor does
\* the copy hold an id the ring would give again.
FeedTypeOK ==
    /\ InOrder(feed) /\ InOrder(flash)
    /\ Len(scratch) <= 1 /\ \A f \in ToSet(scratch) : InOrder(f) /\ f.next <= feed.next
    /\ {dirty, armed, lost, icmp, ok, done, lan} \subseteq BOOLEAN
    /\ task \in {"wait", "ready", "ping", "dns", "news"}
    /\ wan \in {"unknown", "up", "degraded", "down"} /\ fails \in 0..Streak
    /\ ping \in Seq({"late", "sent"}) /\ Len(ping) <= 2
    /\ net \in Nets /\ faults \in 0..MaxFaults

Fault == faults < MaxFaults /\ faults' = faults + 1

-----------------------------------------------------------------------------
(* notify.c                                                                *)

\* Mutant: the newest goes first, where the oldest is looked for.
PushedFirst(f) ==
    [items |-> <<[id |-> f.next, read |-> FALSE]>> \o
               (IF Len(f.items) = Ring THEN Tail(f.items) ELSE f.items),
     next |-> f.next + 1]

\* notify_push(): in a full ring the oldest makes way.
Pushed(f) ==
    [items |-> Append(IF Len(f.items) = Ring THEN Tail(f.items) ELSE f.items,
                      [id |-> f.next, read |-> FALSE]),
     next |-> f.next + 1]

Push == /\ armed /\ feed.next <= MaxId
        /\ feed' = Pushed(feed) /\ dirty' = TRUE
        /\ UNCHANGED <<armed, scratch, flash, lost>>

\* notify_arm(), at the end of the first sweep.
Arm == /\ ~armed /\ armed' = TRUE
       /\ UNCHANGED <<feed, dirty, scratch, flash, lost, wanVars, pingVars, world, faults>>

\* notify_mark_read() of all, as the web server calls it.
MarkRead ==
    /\ \E i \in DOMAIN feed.items : ~feed.items[i].read
    /\ feed' = [feed EXCEPT !.items = [i \in DOMAIN @ |-> [@[i] EXCEPT !.read = TRUE]]]
    /\ dirty' = TRUE
    /\ UNCHANGED <<armed, scratch, flash, lost, wanVars, pingVars, world, faults>>

\* notify_dismiss() leaves these: all but one that is there, or none.
Dismiss(rest) ==
    /\ feed' = [feed EXCEPT !.items = rest]
    /\ dirty' = TRUE
    /\ UNCHANGED <<armed, scratch, flash, lost, wanVars, pingVars, world, faults>>

\* flush_if_dirty(): a copy is made under the lock...
FlushTakes ==
    /\ scratch = <<>> /\ dirty
    /\ dirty' = FALSE /\ scratch' = <<feed>> /\ lost' = FALSE
    /\ UNCHANGED <<feed, armed, flash, wanVars, pingVars, world, faults>>

\* Mutant: the feed counts as saved when the write is done.
FlushWritesAll ==
    /\ scratch # <<>> /\ scratch' = <<>>
    /\ flash' = scratch[1] /\ dirty' = FALSE
    /\ UNCHANGED <<feed, armed, lost, wanVars, pingVars, world, faults>>

\* ... and written without it.
FlushWrites ==
    /\ scratch # <<>> /\ scratch' = <<>>
    /\ flash' = scratch[1]
    /\ UNCHANGED <<feed, dirty, armed, lost, wanVars, pingVars, world, faults>>

\* A failed write is not tried again before something else changes.
FlushFails ==
    /\ scratch # <<>> /\ scratch' = <<>> /\ lost' = TRUE /\ Fault
    /\ UNCHANGED <<feed, dirty, armed, flash, wanVars, pingVars, world>>

\* News from another task: a sweep, a scan, an update.
OtherNews == Push /\ UNCHANGED <<wanVars, pingVars, world, faults>>

-----------------------------------------------------------------------------
(* wan.c: the check.                                                       *)

\* No position to know: the verdict is "unknown".
Unknown ==
    /\ task = "wait" /\ ~lan /\ <<wan, fails>> # <<"unknown", 0>>
    /\ wan' = "unknown" /\ fails' = 0
    /\ UNCHANGED <<feedVars, task, icmp, pingVars, world, faults>>

\* The check starts: what an earlier check's callbacks left is dropped.  Checks
\* are many seconds apart: the last echo has ended, unless it was late.
Starts == task = "wait" /\ lan /\ "sent" \notin ToSet(ping)

Drains ==
    /\ Starts
    /\ task' = "ready" /\ done' = FALSE
    /\ UNCHANGED <<feedVars, icmp, wan, fails, ok, ping, world, faults>>

\* ensure_session() has no memory for one; the echo counts as lost.  (The
\* target is an address, as it is by default: a name would need the DNS.)
NoSession ==
    /\ Starts /\ Fault
    /\ task' = "dns"
    /\ UNCHANGED <<feedVars, icmp, wan, fails, pingVars, world>>

\* Mutant: the result of the last echo is not cleared.
SendsStale ==
    /\ task = "ready" /\ task' = "ping"
    /\ ping' = Append(ping, "sent")
    /\ UNCHANGED <<feedVars, icmp, wan, fails, ok, done, world, faults>>

Sends ==
    /\ task = "ready" /\ task' = "ping"
    /\ ok' = FALSE
    /\ ping' = Append(ping, "sent")
    /\ UNCHANGED <<feedVars, icmp, wan, fails, done, world, faults>>

\* on_ping_success() or on_ping_timeout(), then on_ping_end().
Ends(answered) ==
    /\ ping # <<>>
    /\ answered => net # "down" \/ Head(ping) = "late"
    /\ Head(ping) = "sent" /\ net # "down" => answered
    /\ ok' = (ok \/ answered) /\ done' = TRUE /\ ping' = Tail(ping)
    /\ UNCHANGED <<feedVars, wanVars, world, faults>>

Takes ==
    /\ task = "ping" /\ done
    /\ done' = FALSE /\ icmp' = ok /\ task' = "dns"
    /\ UNCHANGED <<feedVars, wan, fails, ok, ping, world, faults>>

\* The backstop: the session is stopped, its callbacks may still come.
GivesUp ==
    /\ task = "ping" /\ ~done /\ ping = <<"sent">>
    /\ Fault
    /\ ping' = <<"late">> /\ task' = "dns"
    /\ UNCHANGED <<feedVars, icmp, wan, fails, ok, done, world>>

-----------------------------------------------------------------------------
(* wan.c: the verdict.                                                     *)

Observed(i, d) == CASE i /\ d -> "up" [] ~i /\ ~d -> "down" [] OTHER -> "degraded"

\* commit(): "up" at once, and anything else from "up" after a run of failures.
Verdict(seen, run) == IF seen = "up" \/ run >= Streak \/ wan # "up" THEN seen ELSE wan

\* The name is looked up, and the check committed; a verdict that moved is
\* told outside the lock, except that the internet was found up at first.
Commits ==
    /\ task = "dns"
    /\ LET seen == Observed(icmp, net = "up")
           run  == IF seen = "up" THEN 0 ELSE IF fails = Streak THEN fails ELSE fails + 1
           next == Verdict(seen, run)
       IN /\ fails' = run /\ wan' = next
          /\ task' = IF next = wan \/ (next = "up" /\ wan = "unknown") THEN "wait" ELSE "news"
    /\ icmp' = FALSE
    /\ UNCHANGED <<feedVars, pingVars, world, faults>>

\* The push leaves nothing while the feed is not armed, or with the type off.
Tells ==
    /\ task = "news" /\ task' = "wait"
    /\ Push \/ UNCHANGED feedVars
    /\ UNCHANGED <<icmp, wan, fails, pingVars, world, faults>>

-----------------------------------------------------------------------------
(* The world.                                                              *)

LanChanges == /\ lan' = ~lan
              /\ UNCHANGED <<feedVars, wanVars, pingVars, net, faults>>

NetChanges(n) == /\ net # n /\ net' = n
                 /\ UNCHANGED <<feedVars, wanVars, pingVars, lan, faults>>

\* A crash: notify_init() loads the feed, wan_init() knows nothing yet.
Restart ==
    /\ Fault
    /\ feed' = flash /\ dirty' = FALSE /\ armed' = FALSE /\ scratch' = <<>> /\ lost' = FALSE
    /\ task' = "wait" /\ icmp' = FALSE /\ wan' = "unknown" /\ fails' = 0
    /\ ok' = FALSE /\ done' = FALSE /\ ping' = <<>>
    /\ UNCHANGED <<flash, world>>

-----------------------------------------------------------------------------
Init ==
    /\ feed = Blank /\ dirty = FALSE /\ armed = FALSE /\ scratch = <<>> /\ flash = Blank
    /\ lost = FALSE
    /\ task = "wait" /\ icmp = FALSE /\ wan = "unknown" /\ fails = 0
    /\ ok = FALSE /\ done = FALSE /\ ping = <<>>
    /\ lan \in BOOLEAN /\ net \in Nets /\ faults = 0

Monitor == \/ Unknown \/ Drains \/ NoSession
           \/ Sends \/ Takes \/ GivesUp \/ Commits \/ Tells

Session == \E answered \in BOOLEAN : Ends(answered)

Timer == FlushTakes \/ FlushWrites \/ FlushFails

HttpServer ==
    \/ MarkRead
    \/ \E i \in DOMAIN feed.items : Dismiss(RemoveAt(feed.items, i))
    \/ Dismiss(<<>>)

Next == \/ Monitor \/ Session \/ Timer \/ HttpServer
        \/ Arm \/ OtherNews \/ Restart
        \/ LanChanges \/ \E n \in Nets : NetChanges(n)

\* The monitor, the ping session and the timer run.
Fairness == WF_vars(Monitor) /\ WF_vars(Session) /\ WF_vars(Timer)

Spec == Init /\ [][Next]_vars /\ Fairness

-----------------------------------------------------------------------------
(* Properties.                                                             *)

\* What the feed shows is in flash in the end, so that a reboot does not erase
\* it (notify.h), whatever is pushed, read or dismissed while the copy is being
\* written; unless that write fails.
FeedKept == (feed # flash) ~> (feed = flash \/ lost)

\* With an internet that stays as it is the verdict becomes what it is and
\* stays so, whatever late callbacks the ping session still had to make.
VerdictSettles ==
    \A n \in Nets :
        <>[](lan /\ net = n) => <>[](wan = Observed(n # "down", n = "up"))
=============================================================================
