------------------------------ MODULE WifiMgr ------------------------------
(***************************************************************************)
(* The Wi-Fi manager (src/main/net/wifi_mgr.c) with the settings it        *)
(* follows.  One worker task decides, one message at a time; the event     *)
(* task forwards the driver's events and the timer task its timeouts to    *)
(* the worker's bounded queue; httpd saves new credentials, and borrows    *)
(* the station interface to scan; the button forgets the credentials.      *)
(* Retry delays and the attempt counter are left out: a timer is armed or  *)
(* not.  So are the getters' copies of mode and addresses, and mDNS, SNTP  *)
(* and host name, which nothing here depends on.                           *)
(***************************************************************************)
EXTENDS Naturals, Sequences

CONSTANTS
    Creds,      \* credentials a user may enter
    Right,      \* the ones the network takes
    Airs,       \* what the network may be: "ok", "gone", or "nodhcp"
    QueueLen,   \* bound: messages the worker lets wait, below QUEUE_LEN
    MaxEvents,  \* bound: events of the driver that wait
    MaxEdits    \* bound: changes of the settings

ASSUME WifiAssumption ==
    /\ Right \in Creds /\ {"none", "unset"} \cap Creds = {}
    /\ Airs \subseteq {"ok", "gone", "nodhcp"} /\ "ok" \in Airs
    /\ {QueueLen, MaxEvents, MaxEdits} \subseteq Nat \ {0}

Saved == Creds \union {"none"}          \* "none": wifi_ssid is empty

VARIABLES
    saved,      \* the credentials in the settings, in RAM and NVS
    http,       \* httpd: idle, holding a copy of the settings, or scanning with a borrowed interface
    resetting,  \* the button's reset_task waits to restart
    cfg,        \* s_cfg's credentials, "unset" while s_first_apply
    enabled,    \* s_sta_enabled
    ifaceUp,    \* s_sta_iface_up
    started,    \* s_wifi_started
    fallback,   \* s_ap_fallback
    armed,      \* the timers that are running
    queue,      \* s_queue
    hasIp,      \* s_has_ip
    drv,        \* the driver: mode, link, the station's credentials, events not yet delivered
    air,        \* the network: in reach, out of reach, or giving no addresses
    joined,     \* history: an address was handled since the credentials were applied
    misled,     \* history: it was one that other credentials had led to
    overridden, \* history: a scan took back an interface the worker had switched on
    refused,    \* history: the driver refused a change of mode, or to start
    edits       \* changes of the settings so far

settingsVars == <<saved, http, resetting>>
workerVars   == <<cfg, enabled, ifaceUp, started, fallback>>
history      == <<joined, misled, overridden, refused, edits>>
vars == <<settingsVars, workerVars, armed, queue, hasIp, drv, air, history>>

Timers   == {"retry", "window", "linger"}
Messages == Timers \union {"apply", "sta_start", "sta_stop", "down", "got_ip"}
IsIn(m, s) == \E i \in DOMAIN s : s[i] = m

WifiTypeOK ==
    /\ saved \in Saved /\ cfg \in Saved \union {"unset"}
    /\ http \in [pc : {"idle", "patch", "borrowed"}, copy : Saved]
    /\ {resetting, enabled, ifaceUp, started, fallback, hasIp} \subseteq BOOLEAN
    /\ {joined, misled, overridden, refused} \subseteq BOOLEAN /\ edits \in 0..MaxEdits
    /\ armed \subseteq Timers
    /\ queue \in Seq(Messages) /\ Len(queue) <= QueueLen
    /\ drv.mode \in {"off", "sta", "ap", "apsta"} /\ drv.link \in {"down", "joining", "up"}
    /\ drv.conf \in Saved /\ drv.events \in Seq(Messages \union {"lost_ip"})
    /\ air \in Airs

-----------------------------------------------------------------------------
(* The driver (external): what a call does to it, with the events it       *)
(* leaves for the event task.                                              *)

HasSta(mode) == mode \in {"sta", "apsta"}
HasAp(mode)  == mode \in {"ap", "apsta"}

Off == [mode |-> "off", link |-> "down", conf |-> "none", events |-> <<>>]

\* esp_wifi_disconnect()
Disconnected(d) ==
    IF d.link = "down" THEN d
    ELSE [d EXCEPT !.link = "down", !.events = Append(@, "down")]

\* esp_wifi_set_mode(); a station that is taken away disconnects.  Before
\* esp_wifi_start() nothing comes of it.
Switched(d, mode) ==
    IF ~started \/ HasSta(mode) = HasSta(d.mode) THEN [d EXCEPT !.mode = mode]
    ELSE IF HasSta(mode) THEN [d EXCEPT !.mode = mode, !.events = Append(@, "sta_start")]
    ELSE LET e == Disconnected(d)
         IN [e EXCEPT !.mode = mode, !.events = Append(@, "sta_stop")]

\* esp_wifi_connect(), while a connection is there or under way, does nothing.
Connecting(d) == IF HasSta(d.mode) /\ d.link = "down" THEN [d EXCEPT !.link = "joining"] ELSE d

-----------------------------------------------------------------------------
(* The worker's helpers.                                                   *)

\* What becomes of changing the mode, or of starting the driver in it; once it
\* runs the last two are one.
Outcomes == {"done", "no mode", "no start"}

\* set_mode(): the mode, and the configuration that mode needs.
SetMode(res, d, mode, creds) ==
    IF d.mode = mode \/ res # "done" THEN d
    ELSE LET e == Switched(d, mode)
         IN IF HasSta(mode) THEN [e EXCEPT !.conf = creds] ELSE e

\* start_driver(): until the driver runs it is to be started as well.  That it
\* refused is logged, and nothing else comes of it.
StartDriver(res, d, mode, creds) ==
    IF started THEN SetMode(res, d, mode, creds)
    ELSE IF res = "no mode" THEN d
    ELSE [d EXCEPT !.mode = mode, !.conf = IF HasSta(mode) THEN creds ELSE @,
                   !.events = IF res = "done" /\ HasSta(mode) THEN Append(@, "sta_start") ELSE @]

Starts(res, mode) ==
    /\ started /\ drv.mode = mode => res = "done"
    /\ started' = (started \/ res = "done")
    /\ refused' = (refused \/ res # "done")

\* try_connect()
TryConnect(d, wanted, up) == IF wanted /\ up THEN Connecting(d) ELSE d

\* post_msg() never waits, and drops what finds the queue full; the worker,
\* which never blocks, is taken to keep it below that.
Post(m) == Len(queue) < QueueLen /\ queue' = Append(queue, m)

Takes(m) == queue # <<>> /\ Head(queue) = m /\ queue' = Tail(queue)

-----------------------------------------------------------------------------
(* handle_apply()                                                          *)

\* The first bring-up: the station alone, with the window open; or the setup AP.
ApplyFirst(res) ==
    /\ Takes("apply") /\ cfg = "unset"
    /\ cfg' = saved
    /\ enabled' = (saved # "none")
    /\ LET mode == IF saved # "none" THEN "sta" ELSE "ap"
       IN drv' = StartDriver(res, drv, mode, saved) /\ Starts(res, mode)
    /\ armed' = IF saved # "none" THEN armed \union {"window"} ELSE armed
    /\ joined' = FALSE /\ misled' = FALSE
    /\ UNCHANGED <<settingsVars, ifaceUp, fallback, hasIp, air, overridden, edits>>

\* The credentials are gone: down to the setup AP.
ApplyNone(res) ==
    /\ Takes("apply") /\ cfg # "unset" /\ saved = "none"
    /\ cfg' = saved
    /\ enabled' = FALSE /\ fallback' = FALSE /\ hasIp' = FALSE
    /\ armed' = {}
    /\ drv' = StartDriver(res, Disconnected(drv), "ap", saved)
    /\ Starts(res, "ap")
    /\ UNCHANGED <<settingsVars, ifaceUp, air, joined, misled, overridden, edits>>

\* Mutant: the fast window is not reopened.
WindowNotArmed == armed \ {"retry", "linger"}

\* begin_sta_window() stops retries and the AP's removal, and opens the window
\* unless the AP is up because of it.
Window == IF fallback' THEN armed \ {"retry", "linger"}
          ELSE (armed \ {"retry", "linger"}) \union {"window"}

\* Other credentials: an AP that is up stays up.
ApplyCreds(res) ==
    /\ Takes("apply") /\ saved \notin {cfg, "none"} /\ cfg # "unset"
    /\ cfg' = saved
    /\ enabled' = TRUE /\ hasIp' = FALSE
    /\ fallback' = (fallback /\ ~HasAp(drv.mode))
    /\ LET mode == IF HasAp(drv.mode) THEN "apsta" ELSE "sta"
           d == StartDriver(res, drv, mode, saved)
           e == [Disconnected(d) EXCEPT !.conf = saved]      \* write_sta_config()
       IN drv' = TryConnect(e, TRUE, ifaceUp) /\ Starts(res, mode)
    /\ armed' = Window
    /\ joined' = FALSE /\ misled' = FALSE
    /\ UNCHANGED <<settingsVars, ifaceUp, air, overridden, edits>>

\* Something else was changed.
ApplyRest ==
    /\ Takes("apply") /\ saved = cfg /\ saved # "none"
    /\ UNCHANGED <<settingsVars, workerVars, armed, hasIp, drv, air, history>>

-----------------------------------------------------------------------------
(* The other messages.                                                     *)

StaStarted ==
    /\ Takes("sta_start")
    /\ ifaceUp' = TRUE
    /\ drv' = TryConnect(drv, enabled, TRUE)
    /\ UNCHANGED <<settingsVars, cfg, enabled, started, fallback, armed, hasIp, air, history>>

StaStopped ==
    /\ Takes("sta_stop")
    /\ ifaceUp' = FALSE
    /\ UNCHANGED <<settingsVars, cfg, enabled, started, fallback, armed, hasIp, drv, air, history>>

\* handle_got_ip(): any address stops the window, also one that is news from
\* before the credentials were applied.
GotIp ==
    /\ Takes("got_ip")
    /\ armed' = (armed \ {"retry", "window"})
                    \union (IF HasAp(drv.mode) THEN {"linger"} ELSE {})
    /\ joined' = (joined \/ cfg = Right) /\ misled' = (misled \/ cfg # Right)
    /\ UNCHANGED <<settingsVars, workerVars, hasIp, drv, air, overridden, refused, edits>>

\* Mutant: the address is only forgotten when the station is wanted.
DownIfWanted ==
    /\ Takes("down")
    /\ hasIp' = (hasIp /\ ~enabled)
    /\ armed' = IF enabled THEN armed \union {"retry"} ELSE armed
    /\ UNCHANGED <<settingsVars, workerVars, drv, air, history>>

\* Mutant: the next attempt is not scheduled after a link that had worked.
DownNoRetry ==
    /\ Takes("down")
    /\ hasIp' = FALSE
    /\ armed' = IF enabled /\ ~hasIp THEN armed \union {"retry"} ELSE armed
    /\ UNCHANGED <<settingsVars, workerVars, drv, air, history>>

\* handle_disconnected(): always through the timer.
Down ==
    /\ Takes("down")
    /\ hasIp' = FALSE
    /\ armed' = IF enabled THEN armed \union {"retry"} ELSE armed
    /\ UNCHANGED <<settingsVars, workerVars, drv, air, history>>

RetryDue ==
    /\ Takes("retry")
    /\ drv' = TryConnect(drv, enabled, ifaceUp)
    /\ UNCHANGED <<settingsVars, workerVars, armed, hasIp, air, history>>

\* handle_fallback_timer(): still down, so the setup AP comes up beside the
\* station, which keeps trying; it is taken to be up even if the driver refused.
WindowOver(res) ==
    /\ Takes("window")
    /\ IF hasIp \/ ~enabled THEN UNCHANGED <<fallback, drv, armed, refused>>
       ELSE /\ fallback' = TRUE
            /\ IF fallback \/ HasAp(drv.mode) THEN UNCHANGED <<drv, refused>>
               ELSE drv' = SetMode(res, drv, "apsta", cfg) /\ refused' = (refused \/ res # "done")
            /\ armed' = armed \union {"retry"}
    /\ UNCHANGED <<settingsVars, cfg, enabled, ifaceUp, started, hasIp, air,
                   joined, misled, overridden, edits>>

\* handle_linger_timer(): the station has been up for a while.
LingerOver(res) ==
    /\ Takes("linger")
    /\ IF hasIp /\ enabled /\ HasAp(drv.mode)
       THEN /\ fallback' = FALSE /\ drv' = SetMode(res, drv, "sta", cfg)
            /\ refused' = (refused \/ res # "done")
       ELSE UNCHANGED <<fallback, drv, refused>>
    /\ UNCHANGED <<settingsVars, cfg, enabled, ifaceUp, started, armed, hasIp, air,
                   joined, misled, overridden, edits>>

Worker ==
    \/ \E res \in Outcomes : \/ ApplyFirst(res) \/ ApplyNone(res) \/ ApplyCreds(res)
                            \/ WindowOver(res) \/ LingerOver(res)
    \/ ApplyRest \/ StaStarted \/ StaStopped \/ GotIp \/ Down \/ RetryDue

-----------------------------------------------------------------------------
(* The event task and the timer task.                                      *)

\* The handlers note an address, or its loss, and forward the rest.
Deliver ==
    /\ drv.events # <<>>
    /\ drv' = [drv EXCEPT !.events = Tail(@)]
    /\ LET e == Head(drv.events)
       IN /\ hasIp' = ((hasIp \/ e = "got_ip") /\ e # "lost_ip")
          /\ IF e = "lost_ip" THEN UNCHANGED queue ELSE Post(e)
    /\ UNCHANGED <<settingsVars, workerVars, armed, air, history>>

Fires(t) ==
    /\ t \in armed /\ armed' = armed \ {t}
    /\ Post(t)
    /\ UNCHANGED <<settingsVars, workerVars, hasIp, drv, air, history>>

-----------------------------------------------------------------------------
(* httpd and the button.                                                   *)

\* settings_put_handler(): a copy of the settings is changed and saved whole.
PatchReads ==
    /\ http.pc = "idle" /\ edits < MaxEdits /\ edits' = edits + 1
    /\ http' = [pc |-> "patch", copy |-> saved]
    /\ UNCHANGED <<saved, resetting, workerVars, armed, queue, hasIp, drv, air,
                   joined, misled, overridden, refused>>

\* Credentials are entered, or the patch is about something else.
PatchSaves(c) ==
    /\ http.pc = "patch"
    /\ saved' = c
    /\ http' = [pc |-> "idle", copy |-> "none"]
    /\ Post("apply")
    /\ UNCHANGED <<resetting, workerVars, armed, hasIp, drv, air, history>>

\* wifi_mgr_scan() in AP-only mode borrows a station interface...
ScanBorrows ==
    /\ http.pc = "idle" /\ started /\ drv.mode = "ap" /\ drv.events = <<>>
    /\ http' = [pc |-> "borrowed", copy |-> "none"]
    /\ drv' = Switched(drv, "apsta")
    /\ UNCHANGED <<saved, resetting, workerVars, armed, queue, hasIp, air, history>>

\* ... and goes back to AP-only, if the driver does.
ScanReturns(ok) ==
    /\ http.pc = "borrowed" /\ Len(drv.events) < MaxEvents
    /\ http' = [pc |-> "idle", copy |-> "none"]
    /\ drv' = IF ok THEN Switched(drv, "ap") ELSE drv
    /\ overridden' = (overridden \/ enabled) /\ refused' = (refused \/ ~ok)
    /\ UNCHANGED <<saved, resetting, workerVars, armed, queue, hasIp, air, joined, misled, edits>>

\* The button was held: reset_task() forgets the credentials, then restarts.
Reset ==
    /\ ~resetting /\ resetting' = TRUE /\ edits < MaxEdits /\ edits' = edits + 1
    /\ saved' = "none"
    /\ UNCHANGED <<http, workerVars, armed, queue, hasIp, drv, air,
                   joined, misled, overridden, refused>>

Restart ==
    /\ resetting /\ resetting' = FALSE
    /\ http' = [pc |-> "idle", copy |-> "none"]
    /\ cfg' = "unset" /\ enabled' = FALSE /\ ifaceUp' = FALSE /\ started' = FALSE
    /\ fallback' = FALSE
    /\ armed' = {} /\ queue' = <<"apply">> /\ hasIp' = FALSE /\ drv' = Off
    /\ joined' = FALSE /\ misled' = FALSE /\ overridden' = FALSE /\ refused' = FALSE
    /\ UNCHANGED <<saved, air, edits>>

-----------------------------------------------------------------------------
(* The network (external).                                                 *)

\* The station gets an address.  That takes the radio and the DHCP server a
\* good part of a second: the worker has long taken an earlier "down".
GetsIp ==
    /\ Len(drv.events) < MaxEvents
    /\ drv.link = "joining" /\ air = "ok" /\ drv.conf = Right
    /\ ~IsIn("down", drv.events) /\ ~IsIn("down", queue)
    /\ drv' = [drv EXCEPT !.link = "up", !.events = Append(@, "got_ip")]
    /\ UNCHANGED <<settingsVars, workerVars, armed, queue, hasIp, air, history>>

\* The link is lost, or an attempt fails.
LosesLink ==
    /\ Len(drv.events) < MaxEvents
    /\ drv.link # "down" /\ (air = "gone" \/ drv.conf # Right)
    /\ drv' = Disconnected(drv)
    /\ UNCHANGED <<settingsVars, workerVars, armed, queue, hasIp, air, history>>

\* The lease runs out: still associated.
LosesIp ==
    /\ Len(drv.events) < MaxEvents
    /\ drv.link = "up" /\ air = "nodhcp"
    /\ drv' = [drv EXCEPT !.link = "joining", !.events = Append(@, "lost_ip")]
    /\ UNCHANGED <<settingsVars, workerVars, armed, queue, hasIp, air, history>>

AirChanges(a) ==
    /\ air # a /\ air' = a
    /\ UNCHANGED <<settingsVars, workerVars, armed, queue, hasIp, drv, history>>

-----------------------------------------------------------------------------
Init ==
    /\ saved \in Saved /\ http = [pc |-> "idle", copy |-> "none"] /\ resetting = FALSE
    /\ cfg = "unset" /\ enabled = FALSE /\ ifaceUp = FALSE /\ started = FALSE
    /\ fallback = FALSE
    /\ armed = {} /\ queue = <<"apply">> /\ hasIp = FALSE /\ drv = Off
    /\ air \in Airs
    /\ joined = FALSE /\ misled = FALSE /\ overridden = FALSE /\ refused = FALSE /\ edits = 0

Next ==
    \/ Worker \/ Deliver \/ \E t \in Timers : Fires(t)
    \/ PatchReads \/ (\E c \in Saved : PatchSaves(c))
    \/ ScanBorrows \/ (\E ok \in BOOLEAN : ScanReturns(ok)) \/ Reset \/ Restart
    \/ GetsIp \/ LosesLink \/ LosesIp \/ (\E a \in Airs : AirChanges(a))

\* The tasks run; a join ends one way or the other when the network answers.
Fairness ==
    /\ WF_vars(Worker) /\ WF_vars(Deliver) /\ WF_vars(Restart)
    /\ WF_vars(\E ok \in BOOLEAN : ScanReturns(ok))
    /\ WF_vars(\E c \in Saved : PatchSaves(c))
    /\ \A t \in Timers : WF_vars(Fires(t))
    /\ WF_vars(GetsIp) /\ WF_vars(LosesLink)

Spec == Init /\ [][Next]_vars /\ Fairness

-----------------------------------------------------------------------------
(* Properties.                                                             *)

Quiet == queue = <<>> /\ drv.events = <<>> /\ http.pc # "borrowed" /\ ~overridden

\* The address is noted by the event task and forgotten by the worker, in
\* turns: once both are done, what every other component is told (has an
\* address, which mode) is what the driver is in, credentials applied or
\* wiped in between or not; of a driver that refused a mode, the address only.
SettledIsTrue ==
    Quiet => /\ hasIp <=> drv.link = "up"
             /\ ~refused => /\ IF cfg = "none" THEN drv.mode = "ap" ELSE HasSta(drv.mode)
                            /\ drv.conf = cfg \/ cfg = "none"

\* Credentials that never lead to an address bring the setup AP up: as long as
\* they did not work, it is up, or the window it waits for is open.  Twice the
\* code does not: after news of an address that other credentials had led to
\* (handle_got_ip() does not look), and when the driver refuses the mode
\* (handle_fallback_timer() does not look).
SomeWayIn ==
    enabled /\ ~joined /\ ~misled /\ ~refused /\ ~hasIp /\ ~(started /\ HasAp(drv.mode)) =>
        "window" \in armed \/ (\E m \in {"window", "got_ip"} : IsIn(m, queue))

\* A network that stays in reach is joined in the end, whatever failed before
\* and whichever messages were overtaken, and the setup AP is closed.
Reconnects ==
    <>[](air = "ok" /\ saved = Right /\ ~overridden /\ ~refused) => <>[](hasIp /\ drv.mode = "sta")
=============================================================================
