-------------------------------- MODULE Ota --------------------------------
(***************************************************************************)
(* Firmware updates (src/main/net/ota.c): one task checks the release      *)
(* server, downloads the image it names into the idle one of two slots,    *)
(* resuming a stream that stops short, and restarts into it.  A new image  *)
(* is on probation until it has been up and online; the bootloader returns *)
(* to the other slot when it is not confirmed.  The idle slot can be lent  *)
(* to a restore (module Update).                                           *)
(***************************************************************************)
EXTENDS Integers, FiniteSets

CONSTANTS MaxVersion,   \* versions are 0..MaxVersion, ordered as is_newer() orders tags
          DevBuilds,    \* versions built from uncommitted changes
          HeadLen,      \* chunks of an image its header takes
          Size,         \* chunks of an image
          Attempts,     \* DL_ATTEMPTS
          Nets,         \* states of the network: "none", "offline", "online"
          MaxCuts       \* bound: power failures and crashes

Slots == {0, 1}
Versions == 0..MaxVersion
None == -1

ASSUME OtaAssumption ==
    /\ MaxVersion \in Nat /\ DevBuilds \subseteq Versions
    /\ HeadLen \in Nat \ {0} /\ Size \in Nat /\ Size > HeadLen
    /\ Nets \subseteq {"none", "offline", "online"}
    /\ Attempts \in Nat \ {0} /\ MaxCuts \in Nat

VARIABLES
    \* flash
    run,        \* the slot the running image was started from
    boot,       \* the slot the bootloader will try next
    kind,       \* what each slot holds: "app", "partial" (a cut-short image) or not an image
    version,    \* the version its description names
    mark,       \* the bootloader's note on each slot
    \* the task and its status
    rolledBack, \* s_status.rolled_back
    probation,  \* s_pending_verify
    lent,       \* s_slot_lent
    asked,      \* REQ_INSTALL waits for the task
    task,       \* where the task is
    mode,       \* why it checks: a person asked ("hand") or not ("auto")
    dl,         \* the download: s_status.latest and the locals of do_install()
    \* the world
    up,         \* uptime: 0, past CONFIRM_AFTER_S, past CONFIRM_DEADLINE_S
    net,        \* "none" (Wi-Fi not configured), "offline" or "online"
    cuts        \* power failures so far

flashVars == <<run, boot, kind, version, mark>>
taskVars  == <<rolledBack, probation, asked, task, mode, dl>>
worldVars == <<up, net, cuts>>
otaVars   == <<flashVars, taskVars, lent, worldVars>>

Idle == 1 - run                       \* esp_ota_get_next_update_partition()
Current == version[run]
NoDownload == [tag |-> None, attempt |-> 0, got |-> 0, pos |-> 0, skip |-> 0, total |-> 0,
               begun |-> FALSE, garbled |-> FALSE]

\* The states DOWNLOADING and REBOOTING of the status.
Busy == task \in {"connect", "stream", "verify", "restart"}

-----------------------------------------------------------------------------
(* The bootloader, and what a start finds (external).                      *)

Bootable(s, m, k) == k[s] = "app" /\ m[s] \in {"new", "valid"}

\* An image still on probation when the device restarts has failed.
MarkAtBoot(m, first) == CASE m = "pending" -> "invalid"
                          [] m = "new" /\ first -> "pending"
                          [] OTHER -> m

\* inspect_boot(): the version of the image the bootloader gave up in slot s,
\* if its description can still be read.
GivenUp(s, m, k) ==
    IF m[s] = "invalid" /\ k[s] \in {"app", "partial"} THEN version[s] ELSE None

\* A restart with the slots holding k and noted m: the bootloader tries slot b
\* first, and the RAM is as ota_init() leaves it.
Restarted(b, m, k) ==
    LET s == IF Bootable(b, m, k) THEN b ELSE 1 - b
        n == [x \in Slots |-> MarkAtBoot(m[x], x = b)]
    IN /\ Bootable(s, m, k)
       /\ run' = s /\ boot' = s /\ mark' = n
       /\ probation' = (n[s] = "pending")
       /\ rolledBack' = GivenUp(1 - s, n, k)
       /\ lent' = FALSE /\ asked' = FALSE /\ task' = "nap" /\ mode' = "none"
       /\ dl' = NoDownload /\ up' = 0
       /\ kind' = k
       /\ UNCHANGED <<version, net>>

-----------------------------------------------------------------------------
(* The task: housekeeping, then a check, and an install if there is        *)
(* something newer.                                                        *)

Confirms == probation /\ up >= 1 /\ net # "offline"
\* Mutant: the deadline lies beyond what uptime_s() can reach.
NeverGivesUp == probation /\ ~Confirms /\ up > 2 /\ Bootable(Idle, mark, kind)

GivesUp == probation /\ ~Confirms /\ up = 2 /\ Bootable(Idle, mark, kind)

\* It wakes; an image on probation is confirmed once it is up and online; and a
\* check that may lead to an install follows when a person asked for one, or
\* when it is due and ota_auto was set before the wait.
Wake(due) ==
    /\ task = "nap" /\ ~GivesUp
    /\ mark' = IF Confirms THEN [mark EXCEPT ![run] = "valid"] ELSE mark
    /\ probation' = (probation /\ ~Confirms)
    /\ IF net = "online" /\ (asked \/ due)
       THEN task' = "check" /\ mode' = IF asked THEN "hand" ELSE "auto"
       ELSE UNCHANGED <<task, mode>>
    /\ asked' = FALSE
    /\ UNCHANGED <<run, boot, kind, version, rolledBack, dl, lent, worldVars>>

\* Still offline at the deadline: the image is marked bad and the other started.
GiveUp ==
    /\ task = "nap" /\ GivesUp
    /\ Restarted(Idle, [mark EXCEPT ![run] = "invalid"], kind)
    /\ UNCHANGED cuts

\* Back to sleep: an error is shown, or there is nothing to do.
Rests == task' = "nap" /\ mode' = "none" /\ dl' = NoDownload

CheckFails ==
    /\ task = "check"
    /\ Rests
    /\ UNCHANGED <<flashVars, rolledBack, probation, asked, lent, worldVars>>

IsNewer(tag) == tag > Current

\* Mutant: the version that was rolled back is not compared.
AutoBlockedIfDev(tag) == Current \in DevBuilds

\* A version that is not installed without being asked for.
AutoBlocked(tag) == Current \in DevBuilds \/ tag = rolledBack

\* The manifest names tag, and maybe the size of its image.  What is newer is
\* installed when a person asked, or automatically unless blocked.
CheckAnswers(tag, sized) ==
    /\ task = "check"
    /\ IF IsNewer(tag) /\ (mode = "hand" \/ (mode = "auto" /\ ~AutoBlocked(tag)))
       THEN /\ task' = "install" /\ mode' = "none"
            /\ dl' = [NoDownload EXCEPT !.tag = tag, !.total = IF sized THEN Size ELSE 0]
       ELSE Rests
    /\ UNCHANGED <<flashVars, rolledBack, probation, asked, lent, worldVars>>

\* Mutant: the slot is taken whether or not it is lent.
InstallStartsAnyway(fits) ==
    /\ task = "install"
    /\ IF ~fits THEN Rests
       ELSE /\ task' = "connect" /\ mode' = mode
            /\ dl' = [dl EXCEPT !.attempt = 1]
    /\ UNCHANGED <<flashVars, rolledBack, probation, asked, lent, worldVars>>

\* do_install() takes the slot, unless it is lent or too small for the image.
InstallStarts(fits) ==
    /\ task = "install"
    /\ IF lent \/ ~fits THEN Rests
       ELSE /\ task' = "connect" /\ mode' = mode
            /\ dl' = [dl EXCEPT !.attempt = 1]
    /\ UNCHANGED <<flashVars, rolledBack, probation, asked, lent, worldVars>>

UnchangedButDownload ==
    UNCHANGED <<run, boot, mark, rolledBack, probation, asked, lent, worldVars>>

\* Mutant: attempts are not counted.
AttemptsForEver == /\ task' = "connect" /\ mode' = mode
                   /\ dl' = [dl EXCEPT !.attempt = @ + 1, !.pos = 0, !.skip = 0]

NextAttempt == IF dl.attempt < Attempts
               THEN /\ task' = "connect" /\ mode' = mode
                    /\ dl' = [dl EXCEPT !.attempt = @ + 1, !.pos = 0, !.skip = 0]
               ELSE Rests

\* No connection, or an answer worth another attempt; or one that is not.
ConnectFails(fatal) ==
    /\ task = "connect"
    /\ IF fatal THEN Rests ELSE NextAttempt
    /\ UNCHANGED <<kind, version>> /\ UnchangedButDownload

\* Mutant: an ignored Range header goes unnoticed.
ConnectsAtOffset(ranged, length) ==
    /\ task = "connect"
    /\ ranged => dl.got > 0
    /\ task' = "stream"
    /\ dl' = [dl EXCEPT !.pos = IF ranged THEN dl.got ELSE 0,
                        !.skip = 0,
                        !.total = IF @ = 0 /\ ~ranged /\ length THEN Size ELSE @]
    /\ UNCHANGED <<mode, kind, version>> /\ UnchangedButDownload

\* The stream starts where it was asked to, or from zero when the server
\* ignores the Range header; what is already there is then skipped.
Connects(ranged, length) ==
    /\ task = "connect"
    /\ ranged => dl.got > 0
    /\ task' = "stream"
    /\ dl' = [dl EXCEPT !.pos = IF ranged THEN dl.got ELSE 0,
                        !.skip = IF ranged THEN 0 ELSE dl.got,
                        !.total = IF @ = 0 /\ ~ranged /\ length THEN Size ELSE @]
    /\ UNCHANGED <<mode, kind, version>> /\ UnchangedButDownload

\* Chunks are written in the order they were sent, from the one after the
\* last; "garbled" notes one that was not.
Taken == [dl EXCEPT !.pos = @ + 1, !.got = @ + 1,
                    !.garbled = @ \/ dl.pos # dl.got]

\* One read: skipped, held until the header is whole, or written.  The whole
\* header is judged, and its first write erases what the slot held.
Read(rightImage) ==
    /\ task = "stream" /\ dl.pos < Size
    /\ IF dl.skip > 0
       THEN /\ dl' = [dl EXCEPT !.pos = @ + 1, !.skip = @ - 1]
            /\ UNCHANGED <<task, mode, kind, version>>
       ELSE IF dl.begun \/ dl.got + 1 < HeadLen
       THEN /\ dl' = Taken
            /\ UNCHANGED <<task, mode, kind, version>>
       ELSE IF rightImage /\ ~probation      \* esp_ota_begin() refuses during probation
       THEN /\ dl' = [Taken EXCEPT !.begun = TRUE]
            /\ kind' = [kind EXCEPT ![Idle] = "partial"]
            /\ version' = [version EXCEPT ![Idle] = dl.tag]
            /\ UNCHANGED <<task, mode>>
       ELSE Rests /\ UNCHANGED <<kind, version>>
    /\ UnchangedButDownload

\* A read or a write fails, or the stream ends: the image is complete, or
\* taken to be when its length is not known, or another attempt resumes it.
WriteFails ==
    /\ task = "stream" /\ dl.begun
    /\ Rests /\ UNCHANGED <<kind, version>> /\ UnchangedButDownload

StreamEnds(clean) ==
    /\ task = "stream"
    /\ IF \/ dl.total > 0 /\ dl.got >= dl.total
          \/ dl.total = 0 /\ clean /\ dl.begun
       THEN IF dl.begun THEN task' = "verify" /\ UNCHANGED <<dl, mode>> ELSE Rests
       ELSE NextAttempt
    /\ UNCHANGED <<kind, version>> /\ UnchangedButDownload

\* esp_ota_end() checks the image; then it is the one to start next.
Verify ==
    /\ task = "verify"
    /\ IF dl.got = Size /\ ~dl.garbled
       THEN /\ kind' = [kind EXCEPT ![Idle] = "app"]
            /\ mark' = [mark EXCEPT ![Idle] = "new"]
            /\ boot' = Idle
            /\ task' = "restart" /\ UNCHANGED <<dl, mode>>
       ELSE Rests /\ UNCHANGED <<kind, mark, boot>>
    /\ UNCHANGED <<run, version, rolledBack, probation, asked, lent, worldVars>>

-----------------------------------------------------------------------------
(* Calls of other tasks.                                                   *)

\* ota_install_now().  ota_check_now() only makes the next check due.
Ask ==
    /\ ~Busy
    /\ asked' = TRUE
    /\ UNCHANGED <<flashVars, rolledBack, probation, task, mode, dl, lent, worldVars>>

\* Mutant: the slot is lent while the running image is on probation.
MayBorrowOnProbation == ~lent /\ ~Busy

\* ota_borrow_slot() lends the slot.
MayBorrow == mark[run] # "pending" /\ ~lent /\ ~Busy

-----------------------------------------------------------------------------
(* The world.                                                              *)

\* Uptime only matters to an image on probation.
Tick == /\ probation /\ up < 2 /\ up' = up + 1
        /\ UNCHANGED <<flashVars, taskVars, lent, net, cuts>>

NetChanges(n) == /\ net # n /\ net' = n
                 /\ UNCHANGED <<flashVars, taskVars, lent, up, cuts>>

OtaInit ==
    /\ run = 0 /\ boot = 0
    /\ kind = [s \in Slots |-> IF s = 0 THEN "app" ELSE "blank"]
    /\ version = [s \in Slots |-> IF s = 0 THEN 0 ELSE None]
    /\ mark = [s \in Slots |-> IF s = 0 THEN "valid" ELSE "none"]
    /\ rolledBack = None /\ probation = FALSE /\ lent = FALSE /\ asked = FALSE
    /\ task = "nap" /\ mode = "none" /\ dl = NoDownload
    /\ up = 0 /\ net \in Nets /\ cuts = 0

\* The steps of the update task that do not restart the device.
OtaTask ==
    \/ \E due \in BOOLEAN : Wake(due)
    \/ CheckFails
    \/ \E tag \in Versions, sized \in BOOLEAN : CheckAnswers(tag, sized)
    \/ \E fits \in BOOLEAN : InstallStarts(fits)
    \/ \E fatal \in BOOLEAN : ConnectFails(fatal)
    \/ \E ranged, length \in BOOLEAN : Connects(ranged, length)
    \/ \E right \in BOOLEAN : Read(right)
    \/ WriteFails
    \/ \E clean \in BOOLEAN : StreamEnds(clean)
    \/ Verify

OtaWorld == Ask \/ Tick \/ \E n \in Nets : NetChanges(n)
=============================================================================
