------------------------------- MODULE Update -------------------------------
(***************************************************************************)
(* Firmware updates together with backup and restore (src/main/db/backup.c *)
(* and src/main/ui/usb_restore.c).  A restore checks a file record by      *)
(* record as it arrives, over HTTP or over USB, and stages it in the idle  *)
(* update slot, its header last; the next start applies it before anything *)
(* reads the setup, and erases the header when it is done.  Power may fail *)
(* between any two steps.                                                  *)
(***************************************************************************)
EXTENDS Ota

CONSTANTS Loaders,   \* tasks that can receive a restore: httpd and usb_restore
          Files,     \* backups one may receive
          Own,       \* the setup the dongle starts with
          Records    \* number of records of a backup; the last ones are files

ASSUME UpdateAssumption == Own \notin Files /\ Records \in Nat \ {0}

VARIABLES
    rst,       \* what each loader is doing
    file,      \* the backup it receives
    got,       \* records it has staged
    body,      \* the records in the staging area
    hdr,       \* the staged header: the records its digest is of
    phase,     \* "up", or how far the start has come in applying
    at,        \* records dealt with in this phase
    data,      \* the setup in flash, by record
    restored,  \* NVS "from": the backup the dongle says it was set up from
    faulty,    \* the last apply logged failures
    unsure,    \* history: records not erased before, or taken and lost, unnoticed
    unnoted    \* history: it could not note that the setup is from elsewhere

restoreVars == <<rst, file, got, body, hdr>>
setupVars   == <<phase, at, data, restored, faulty, unsure, unnoted>>
silent      == <<unsure, unnoted>>   \* what nothing is logged of, kept until something is
vars        == <<otaVars, restoreVars, setupVars>>

Recs == 1..Records
Setups == Files \union {Own}
AllOf(f) == [n \in Recs |-> f]
Blank == "blank"          \* a slot, or a record, erased
Mixed == "mixed"          \* a record's keys among those of another setup

UpdateTypeOK ==
    /\ run \in Slots /\ boot \in Slots
    /\ kind \in [Slots -> {"app", "partial", "staged", "torn", Blank}]
    /\ version \in [Slots -> Versions \union {None}]
    /\ mark \in [Slots -> {"none", "new", "pending", "valid", "invalid"}]
    /\ {dl.tag, rolledBack} \subseteq Versions \union {None}
    /\ {asked, probation, lent, faulty, unnoted} \subseteq BOOLEAN
    /\ mode \in {"hand", "auto", "none"}
    /\ task \in {"nap", "check", "install", "connect", "stream", "verify", "restart"}
    /\ dl.attempt \in 0..Attempts /\ {dl.got, dl.pos, dl.skip, dl.total} \subseteq 0..Size
    /\ up \in 0..2 /\ net \in Nets /\ cuts \in 0..MaxCuts
    /\ rst \in [Loaders -> {"idle", "erase", "stage", "done"}]
    /\ file \in [Loaders -> Setups] /\ got \in [Loaders -> 0..Records]
    /\ {body, hdr} \subseteq [Recs -> Setups \union {Blank}]
    /\ data \in [Recs -> Setups \union {Blank, Mixed}] /\ unsure \subseteq Recs
    /\ phase \in {"boot", "wipe", "write", "record", "clear", "up"}
    /\ at \in 0..Records /\ restored \in Setups

UpdateInit ==
    /\ OtaInit
    /\ rst = [w \in Loaders |-> "idle"] /\ file = [w \in Loaders |-> Own]
    /\ got = [w \in Loaders |-> 0]
    /\ body = AllOf(Blank) /\ hdr = AllOf(Blank)
    /\ phase = "up" /\ at = 0
    /\ data = AllOf(Own) /\ restored = Own /\ faulty = FALSE
    /\ unsure = {} /\ unnoted = FALSE

-----------------------------------------------------------------------------
(* Receiving a restore.                                                    *)

RestoreChanges(w, pc, f, n) ==
    /\ rst' = [rst EXCEPT ![w] = pc]
    /\ file' = [file EXCEPT ![w] = f]
    /\ got' = [got EXCEPT ![w] = n]

\* The readable part of f is in order, and the slot is lent; a request that
\* is refused before this changes nothing.
Borrow(w, f) ==
    /\ rst[w] = "idle" /\ MayBorrow
    /\ lent' = TRUE
    /\ RestoreChanges(w, "erase", f, 0)
    /\ UNCHANGED <<flashVars, taskVars, worldVars, body, hdr, setupVars>>

\* Nothing staged survives from before: the header's sector goes first.
EraseHeader(w) ==
    /\ rst[w] = "erase"
    /\ kind' = [kind EXCEPT ![Idle] = Blank]
    /\ version' = [version EXCEPT ![Idle] = None]
    /\ hdr' = AllOf(Blank)
    /\ RestoreChanges(w, "stage", file[w], 0)
    /\ UNCHANGED <<run, boot, mark, taskVars, lent, worldVars, body, setupVars>>

\* A record that opens and is one this firmware knows is appended.
StagePut(w) ==
    /\ rst[w] = "stage" /\ got[w] < Records
    /\ body' = [body EXCEPT ![got[w] + 1] = file[w]]
    /\ RestoreChanges(w, "stage", file[w], got[w] + 1)
    /\ UNCHANGED <<otaVars, hdr, setupVars>>

\* The end record is there, and nothing after it: the header completes it,
\* with the digest of what this restore staged.  The loader will restart.
StageFinish(w) ==
    /\ rst[w] = "stage" /\ got[w] = Records
    /\ kind' = [kind EXCEPT ![Idle] = "staged"]
    /\ hdr' = AllOf(file[w])
    /\ RestoreChanges(w, "done", file[w], 0)
    /\ UNCHANGED <<run, boot, version, mark, taskVars, lent, worldVars,
                   body, setupVars>>

\* What the header's sector may hold when its write does not complete.
AfterHeaderWrite(w) ==
    IF rst[w] = "stage" /\ got[w] = Records
    THEN {kind, [kind EXCEPT ![Idle] = "torn"]} ELSE {kind}

\* A wrong passphrase, a damaged record, an upload that stops, a write that
\* fails: the slot goes back.
RestoreFails(w) ==
    /\ rst[w] \in {"erase", "stage"}
    /\ kind' \in AfterHeaderWrite(w)
    /\ lent' = FALSE
    /\ RestoreChanges(w, "idle", Own, 0)
    /\ UNCHANGED <<run, boot, version, mark, taskVars, worldVars, body, hdr,
                   setupVars>>

-----------------------------------------------------------------------------
(* Restarts.                                                               *)

SetupRestarts ==
    /\ phase' = "boot" /\ at' = 0
    /\ rst' = [w \in Loaders |-> "idle"] /\ file' = [w \in Loaders |-> Own]
    /\ got' = [w \in Loaders |-> 0]
    /\ UNCHANGED <<body, hdr, data, restored, faulty, silent>>

\* The loader restarts a second after its answer.
RestartToApply(w) ==
    /\ phase = "up" /\ rst[w] = "done"
    /\ Restarted(boot, mark, kind) /\ UNCHANGED cuts
    /\ SetupRestarts

\* do_install() restarts into the new image.
RestartToUpdate ==
    /\ phase = "up" /\ task = "restart"
    /\ Restarted(boot, mark, kind) /\ UNCHANGED cuts
    /\ SetupRestarts

\* A new image that never got online is given up.
RestartToRollBack == phase = "up" /\ GiveUp /\ SetupRestarts

\* A power failure or a crash, at any moment, also in the middle of writing
\* the staged header.
PowerCut ==
    /\ cuts < MaxCuts /\ cuts' = cuts + 1
    /\ \E k \in UNION {AfterHeaderWrite(w) : w \in Loaders} : Restarted(boot, mark, k)
    /\ SetupRestarts

-----------------------------------------------------------------------------
(* backup_apply_pending(), at the start.                                   *)

Applying(from) == phase = from /\ UNCHANGED <<flashVars, taskVars, lent, worldVars>>

\* An app image in the idle slot, or nothing.
ApplyNothing ==
    /\ Applying("boot") /\ kind[Idle] \notin {"staged", "torn"}
    /\ phase' = "up"
    /\ UNCHANGED <<at, data, restored, faulty, silent, restoreVars>>

\* No memory for the buffer: left for the next start.
ApplyLater ==
    /\ Applying("boot") /\ kind[Idle] \in {"staged", "torn"}
    /\ phase' = "up" /\ faulty' = TRUE
    /\ unsure' = {} /\ unnoted' = FALSE
    /\ UNCHANGED <<at, data, restored, restoreVars>>

\* The staged bytes are checked before anything is wiped for them.
Intact == kind[Idle] = "staged" /\ hdr = body

\* Mutant: the header is erased before the records are applied.
ApplyChecksErasing ==
    /\ phase = "boot" /\ kind[Idle] \in {"staged", "torn"}
    /\ kind' = [kind EXCEPT ![Idle] = Blank]
    /\ phase' = IF Intact THEN "wipe" ELSE "clear"
    /\ at' = 0 /\ faulty' = (faulty /\ ~Intact)
    /\ UNCHANGED <<run, boot, version, mark, taskVars, lent, worldVars, data, restored,
                   silent, restoreVars>>

ApplyChecks ==
    /\ Applying("boot") /\ kind[Idle] \in {"staged", "torn"}
    /\ phase' = IF Intact THEN "wipe" ELSE "clear"
    /\ at' = 0 /\ faulty' = (faulty /\ ~Intact)
    /\ UNCHANGED <<data, restored, silent, restoreVars>>

\* Mutant: a namespace that cannot be opened stops the wiping.
WipeStopping(ok) ==
    /\ Applying("wipe")
    /\ data' = IF ok THEN [data EXCEPT ![at + 1] = Blank] ELSE data
    /\ faulty' = (faulty \/ (~ok /\ at + 1 = Records))
    /\ unsure' = IF ok THEN unsure \ {at + 1} ELSE unsure \union {at + 1}
    /\ IF at + 1 = Records \/ ~ok THEN phase' = "write" /\ at' = 0
                                 ELSE phase' = phase /\ at' = at + 1
    /\ UNCHANGED <<restored, unnoted, restoreVars>>

\* One namespace, or at last the storage partition, is emptied.  Nobody is
\* told of a namespace that is not; storage that cannot be had is logged, left
\* alone, and its files are not restored.
Wipe(ok) ==
    /\ Applying("wipe")
    /\ data' = IF ok THEN [data EXCEPT ![at + 1] = Blank] ELSE data
    /\ faulty' = (faulty \/ (~ok /\ at + 1 = Records))
    /\ unsure' = IF ok THEN unsure \ {at + 1} ELSE unsure \union {at + 1}
    /\ IF at + 1 = Records THEN phase' = "write" /\ at' = 0
                           ELSE phase' = phase /\ at' = at + 1
    /\ UNCHANGED <<restored, unnoted, restoreVars>>

\* Keys written where there are some already.
Over(old, new) == IF old \in {Blank, new} THEN new ELSE Mixed

\* One staged record is written; a failure is counted and the rest goes on.
\* One that is lost when its namespace is committed or its file closed is not.
ApplyRecord(res) ==
    /\ Applying("write")
    /\ at + 1 = Records /\ Records \in unsure => res = "failed"
    /\ data' = IF res = "done" THEN [data EXCEPT ![at + 1] = Over(@, body[at + 1])] ELSE data
    /\ faulty' = (faulty \/ res = "failed")
    /\ unsure' = CASE res = "lost"   -> unsure \union {at + 1}
                   [] res = "failed" -> unsure
                   [] res = "done"   -> IF data'[at + 1] = Mixed THEN unsure ELSE unsure \ {at + 1}
    /\ IF at + 1 = Records THEN phase' = "record" /\ at' = 0
                           ELSE phase' = phase /\ at' = at + 1
    /\ UNCHANGED <<restored, unnoted, restoreVars>>

\* Where the setup is from is noted, if NVS lets it; nothing is said if not.
RecordRestore(ok) ==
    /\ Applying("record")
    /\ restored' = IF ok THEN hdr[1] ELSE restored
    /\ unnoted' = (~faulty /\ ~ok /\ restored # hdr[1])
    /\ unsure' = IF faulty THEN {} ELSE unsure
    /\ phase' = "clear"
    /\ UNCHANGED <<at, data, faulty, restoreVars>>

\* Done either way: the header goes, or the next start finds it again, and the
\* device comes up.
ApplyDone(ok) ==
    /\ phase = "clear"
    /\ IF ok THEN kind' = [kind EXCEPT ![Idle] = Blank] /\ hdr' = AllOf(Blank)
             ELSE UNCHANGED <<kind, hdr>>
    /\ phase' = "up"
    /\ UNCHANGED <<run, boot, version, mark, taskVars, lent, worldVars, at, data, restored,
                   faulty, silent, rst, file, got, body>>

-----------------------------------------------------------------------------
Loader(w) == /\ phase = "up"
             /\ EraseHeader(w) \/ StagePut(w) \/ StageFinish(w) \/ RestoreFails(w)

Starting == \/ ApplyNothing \/ ApplyLater \/ ApplyChecks
            \/ \E ok \in BOOLEAN : Wipe(ok) \/ RecordRestore(ok) \/ ApplyDone(ok)
            \/ \E res \in {"done", "failed", "lost"} : ApplyRecord(res)

UpdateTask == \/ phase = "up" /\ OtaTask /\ UNCHANGED <<restoreVars, setupVars>>
              \/ RestartToUpdate \/ RestartToRollBack

World == phase = "up" /\ OtaWorld /\ UNCHANGED <<restoreVars, setupVars>>

Next ==
    \/ UpdateTask
    \/ World
    \/ \E w \in Loaders : \/ Loader(w) \/ RestartToApply(w)
                          \/ phase = "up" /\ \E f \in Files : Borrow(w, f)
    \/ Starting
    \/ PowerCut

\* The tasks run; a loader is never stuck, for a read that brings nothing
\* times out (RECV_WAIT_MS, httpd's receive timeout); time passes.
Fairness ==
    /\ WF_vars(UpdateTask) /\ WF_vars(Starting)
    /\ WF_vars(phase = "up" /\ Tick /\ UNCHANGED <<restoreVars, setupVars>>)
    /\ \A w \in Loaders : WF_vars(Loader(w)) /\ WF_vars(RestartToApply(w))

Spec == UpdateInit /\ [][Next]_vars /\ Fairness

-----------------------------------------------------------------------------
(* Safety.                                                                 *)

\* Whatever happens next, a power failure or a bad new image included, some
\* image starts: while one is on probation the other slot holds the confirmed
\* one, which no download and no restore has touched (ota_borrow_slot()).
SomethingStarts ==
    \/ kind[run] = "app" /\ mark[run] = "valid"
    \/ kind[run] = "app" /\ mark[run] = "pending" /\ Bootable(Idle, mark, kind)

\* A restore that was answered "OK, restarting" is staged whole and stays so
\* until the restart: nothing else writes to the slot in between.
AcceptedStays ==
    \A w \in Loaders :
        rst[w] = "done" => /\ kind[Idle] = "staged"
                           /\ hdr = AllOf(file[w]) /\ body = hdr

\* A restore takes hold entirely or not at all, whatever power cuts interrupt
\* staging or applying it: unless failures were logged, a device that is up
\* has all of one setup, the one it says it was set up from.  It may have more
\* of a namespace that could not be emptied, lack what was taken and lost, and
\* say the wrong thing if NVS did not take the note: of these nothing is logged.
HasSetup(f) == \A n \in Recs : data[n] = f \/ n \in unsure

SetupWhole ==
    phase = "up" /\ ~faulty =>
        IF unnoted THEN \E f \in Setups : HasSetup(f) ELSE HasSetup(restored)

\* A download resumed after a dropped connection, whether or not the server
\* honours the Range header, goes on with the byte after the last one taken.
ResumesInOrder == ~dl.garbled

\* An image the bootloader gave up, still in its slot, is not installed again
\* without being asked for.
NeverAutoAgain ==
    [][ task = "check" /\ task' = "install" /\ mode = "auto" =>
          ~(mark[Idle] = "invalid" /\ kind[Idle] = "app" /\ version[Idle] = dl'.tag) ]_vars

-----------------------------------------------------------------------------
(* Liveness.                                                               *)

\* A new image does not stay on probation for ever: it is confirmed or given
\* up, even when updates are asked for meanwhile.
ProbationEnds == probation ~> ~probation

\* An accepted restore is applied in the end, to its last record, power cuts
\* or not, unless it was put off for want of memory.
AcceptedApplied ==
    \A f \in Files :
        (\E w \in Loaders : rst[w] = "done" /\ file[w] = f) ~>
            \/ phase = "record" /\ hdr = AllOf(f)
            \/ phase = "up" /\ kind[Idle] = "staged" /\ hdr = AllOf(f) /\ ~lent
=============================================================================
