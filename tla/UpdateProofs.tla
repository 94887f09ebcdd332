---------------------------- MODULE UpdateProofs ----------------------------
(***************************************************************************)
(* Proofs about updates and restores, for any numbers of versions, chunks, *)
(* attempts and records, any loaders and backups, and any number of power  *)
(* cuts.                                                                   *)
(*                                                                         *)
(* IInv is inductive.  The slot that is not running belongs to one user at *)
(* a time (LoanSound), of which a download writes to it only if the image  *)
(* that runs is confirmed (DownloadSound); so there is always an image to  *)
(* start (SlotsSound), what a loader staged stays (StagingSound), and what *)
(* replaces the setup is whole until it has replaced it (ApplySound).      *)
(***************************************************************************)
EXTENDS Update, TLAPS

(* What a download holds.                                                   *)
Download == [tag : Versions \cup {None}, attempt : 0..Attempts,
             got : 0..Size, pos : 0..Size, skip : 0..Size, total : 0..Size,
             begun : BOOLEAN, garbled : BOOLEAN]

Types == UpdateTypeOK /\ dl \in Download

(* The running slot holds an image that is confirmed or on probation, the   *)
(* other one the image to go back to; a new image is there only between its *)
(* verification and the restart, and a failed one is remembered.            *)
SlotsSound ==
    /\ kind[run] = "app" /\ mark[run] \in {"valid", "pending"}
    /\ probation <=> mark[run] = "pending"
    /\ probation => kind[Idle] = "app" /\ mark[Idle] = "valid"
    /\ IF task = "restart" THEN boot = Idle /\ kind[Idle] = "app" /\ mark[Idle] = "new"
                           ELSE boot = run /\ mark[Idle] # "new"
    /\ mark[Idle] = "invalid" /\ kind[Idle] = "app" => rolledBack = version[Idle]

(* Nothing is written before the header was judged, which never happens     *)
(* during probation; a stream is where what was taken ends, or will be when *)
(* it has skipped what it has to.                                           *)
DownloadSound ==
    /\ ~dl.garbled
    /\ task \in {"nap", "check", "install"} => ~dl.begun
    /\ task \in {"verify", "restart"} => dl.begun
    /\ task = "stream" => dl.pos + dl.skip = dl.got
    /\ dl.begun => ~probation

(* The slot is one loader's, or the download's, or nobody's.                *)
LoanSound ==
    /\ Busy => ~lent
    /\ lent => ~probation
    /\ \A w \in Loaders : rst[w] # "idle" => lent /\ phase = "up"
    /\ \A v, w \in Loaders : rst[v] # "idle" /\ rst[w] # "idle" => v = w
    /\ phase # "up" => task = "nap" /\ ~lent

(* The staging area holds what was received so far, and the header is of    *)
(* one backup.                                                              *)
StagingSound ==
    /\ hdr = AllOf(hdr[1])
    /\ kind[Idle] = "staged" => hdr[1] \in Setups
    /\ \A w \in Loaders : rst[w] = "stage" => \A i \in 1..got[w] : body[i] = file[w]
    /\ AcceptedStays

(* What SetupWhole asks of a device that is up.                             *)
Whole == IF unnoted THEN \E f \in Setups : HasSetup(f) ELSE HasSetup(restored)

(* The record is that of the staged backup, or in doubt.                    *)
Applied(i) == data[i] = body[i] \/ i \in unsure

(* While the setup is being replaced what it is replaced by is whole, it is *)
(* what has been applied so far, and the rest is empty if it could be.      *)
ApplySound ==
    /\ phase \in {"wipe", "write"} => at < Records
    /\ phase \in {"wipe", "write", "record"} => Intact
    /\ phase = "clear" => kind[Idle] \in {"staged", "torn"}
    /\ phase = "wipe" => \A i \in 1..at : i \in unsure \/ data[i] = Blank
    /\ phase = "write" => \A i \in (at + 1)..Records : i \in unsure \/ data[i] = Blank
    /\ ~faulty =>
         /\ phase = "boot" => Whole \/ Intact
         /\ phase = "write" => \A i \in 1..at : Applied(i)
         /\ phase = "record" => \A i \in Recs : Applied(i)
         /\ phase \in {"clear", "up"} => Whole

IInv == Types /\ SlotsSound /\ DownloadSound /\ LoanSound /\ StagingSound /\ ApplySound

-----------------------------------------------------------------------------
(* The update task and what other tasks and the world do to it.            *)

(* The slots are two.                                                       *)
LEMMA TheOtherSlot ==
    ASSUME run \in Slots
    PROVE  Idle \in Slots /\ Idle # run /\ Slots = {run, Idle}
BY DEF Slots, Idle

(* A step of the update task leaves a restore alone, if it writes to the    *)
(* slot only while that is not lent.                                        *)
LEMMA RestoreLeftAlone ==
    ASSUME IInv, phase = "up", UNCHANGED <<run, restoreVars, setupVars>>,
           kind' = kind \/ (~lent /\ kind'[Idle] \in {"partial", "app"})
    PROVE  StagingSound' /\ ApplySound'
<1> USE DEF restoreVars, setupVars, IInv, Idle
<1>1. StagingSound'
  BY DEF StagingSound, AcceptedStays, LoanSound
<1>2. ApplySound'
  BY DEF ApplySound, Whole, HasSetup, Applied, Intact, silent
<1> QED
  BY <1>1, <1>2

(* A step that changes neither slots nor what the bootloader notes of them. *)
LEMMA SlotsLeftAlone ==
    ASSUME SlotsSound, UNCHANGED <<flashVars, rolledBack, probation>>,
           task' = "restart" <=> task = "restart"
    PROVE  SlotsSound'
BY DEF SlotsSound, Idle, flashVars

(* The task waking up keeps the invariant.                                  *)
LEMMA WakeKeeps ==
    ASSUME IInv, phase = "up", NEW due \in BOOLEAN, Wake(due),
           UNCHANGED <<restoreVars, setupVars>>
    PROVE  IInv'
<1> USE DEF restoreVars, setupVars, worldVars, Wake
<1>1. Types'
  BY DEF IInv, Types, UpdateTypeOK, Download
<1>2. SlotsSound'
  <2>1. mark' = (IF Confirms THEN [mark EXCEPT ![run] = "valid"] ELSE mark)
    OBVIOUS
  <2>2. probation' <=> (probation /\ ~Confirms)
    OBVIOUS
  <2>3. task = "nap" /\ task' # "restart"
    OBVIOUS
  <2>4. UNCHANGED <<run, boot, kind, version, rolledBack>>
    OBVIOUS
  <2>5. /\ run \in Slots /\ Idle \in Slots /\ Idle # run
        /\ mark \in [Slots -> {"none", "new", "pending", "valid", "invalid"}]
    BY TheOtherSlot DEF IInv, Types, UpdateTypeOK
  <2>6. CASE Confirms
    BY <2>1, <2>2, <2>3, <2>4, <2>5, <2>6 DEF IInv, SlotsSound, Idle
  <2>7. CASE ~Confirms
    BY <2>1, <2>2, <2>3, <2>4, <2>7 DEF IInv, SlotsSound, Idle
  <2> QED
    BY <2>6, <2>7
<1>3. DownloadSound'
  BY DEF IInv, DownloadSound
<1>4. LoanSound'
  BY DEF IInv, LoanSound, Busy
<1>5. StagingSound' /\ ApplySound'
  BY RestoreLeftAlone DEF IInv
<1> QED
  BY <1>1, <1>2, <1>3, <1>4, <1>5 DEF IInv

(* A step that only moves the task and the download on.                     *)
LEMMA DownloadMoves ==
    ASSUME IInv, phase = "up", UNCHANGED <<kind, version, restoreVars, setupVars>>,
           UnchangedButDownload, task # "restart",
           dl' \in Download, mode' \in {"hand", "auto", "none"},
           task' \in {"nap", "check", "install", "connect", "stream", "verify"},
           Busy' => ~lent, DownloadSound'
    PROVE  IInv'
<1> USE DEF UnchangedButDownload
<1>1. Types'
  BY DEF IInv, Types, UpdateTypeOK, Download, restoreVars, setupVars, worldVars
<1>2. SlotsSound'
  BY SlotsLeftAlone DEF IInv, flashVars
<1>3. LoanSound'
  BY DEF IInv, LoanSound, restoreVars, setupVars
<1>4. StagingSound' /\ ApplySound'
  BY RestoreLeftAlone
<1> QED
  BY <1>1, <1>2, <1>3, <1>4 DEF IInv

(* Nothing is held of a download that was given up.                         *)
LEMMA RestsHoldsNothing ==
    ASSUME Rests
    PROVE  /\ dl' \in Download /\ ~dl'.begun /\ ~dl'.garbled
           /\ mode' = "none" /\ task' = "nap"
BY OtaAssumption DEF Rests, NoDownload, Download, Versions, None

(* Checking, and going back to sleep, keep the invariant.                   *)
LEMMA CheckKeeps ==
    ASSUME IInv, phase = "up", UNCHANGED <<restoreVars, setupVars>>,
           \/ CheckFails
           \/ \E tag \in Versions, sized \in BOOLEAN : CheckAnswers(tag, sized)
           \/ \E fits \in BOOLEAN : InstallStarts(fits)
    PROVE  IInv'
<1>0. task \in {"check", "install"} /\ UNCHANGED <<kind, version>> /\ UnchangedButDownload
  BY DEF CheckFails, CheckAnswers, InstallStarts, UnchangedButDownload, flashVars
<1>1. \/ Rests
      \/ /\ task' = "install" /\ mode' = "none"
         /\ \E tag \in Versions, sized \in BOOLEAN :
              dl' = [NoDownload EXCEPT !.tag = tag, !.total = IF sized THEN Size ELSE 0]
      \/ ~lent /\ task = "install" /\ task' = "connect" /\ mode' = mode
         /\ dl' = [dl EXCEPT !.attempt = 1]
  BY DEF CheckFails, CheckAnswers, InstallStarts
<1>2. /\ dl' \in Download /\ ~dl'.begun /\ ~dl'.garbled
      /\ mode' \in {"hand", "auto", "none"} /\ task' \in {"nap", "install", "connect"}
  <2>1. CASE Rests
    BY <2>1, RestsHoldsNothing
  <2>2. CASE \E tag \in Versions, sized \in BOOLEAN :
               /\ task' = "install" /\ mode' = "none"
               /\ dl' = [NoDownload EXCEPT !.tag = tag, !.total = IF sized THEN Size ELSE 0]
    <3>1. PICK tag \in Versions, sized \in BOOLEAN :
               dl' = [NoDownload EXCEPT !.tag = tag, !.total = IF sized THEN Size ELSE 0]
      BY <2>2
    <3>2. dl' = [tag |-> tag, attempt |-> 0, got |-> 0, pos |-> 0, skip |-> 0,
                 total |-> IF sized THEN Size ELSE 0, begun |-> FALSE, garbled |-> FALSE]
      BY <3>1 DEF NoDownload
    <3>3. (IF sized THEN Size ELSE 0) \in 0..Size /\ 0 \in 0..Attempts /\ 0 \in 0..Size
      BY OtaAssumption
    <3> QED
      BY <2>2, <3>2, <3>3 DEF Download
  <2>3. CASE /\ task = "install" /\ task' = "connect" /\ mode' = mode
             /\ dl' = [dl EXCEPT !.attempt = 1]
    <3>1. 1 \in 0..Attempts
      BY OtaAssumption
    <3>2. dl \in Download /\ ~dl.begun /\ ~dl.garbled /\ mode \in {"hand", "auto", "none"}
      BY <2>3 DEF IInv, Types, UpdateTypeOK, DownloadSound
    <3> QED
      BY <2>3, <3>1, <3>2 DEF Download
  <2> QED
    BY <1>1, <2>1, <2>2, <2>3
<1>3. (task' = "connect" => ~lent) /\ task' # "stream" /\ task' # "verify"
  BY <1>1, <1>2 DEF Rests
<1> QED
  BY <1>0, <1>2, <1>3, DownloadMoves DEF DownloadSound, Busy

(* Another attempt goes on after what was taken, or the task rests.         *)
LEMMA AttemptKeeps ==
    ASSUME IInv, phase = "up", UNCHANGED <<kind, version, restoreVars, setupVars>>,
           UnchangedButDownload, task \in {"connect", "stream", "verify"},
           NextAttempt \/ Rests
    PROVE  IInv'
<1>1. ~lent
  BY DEF IInv, LoanSound, Busy
<1>2. CASE Rests
  BY <1>2, RestsHoldsNothing, DownloadMoves DEF DownloadSound, Busy
<1>3. CASE NextAttempt /\ ~Rests
  <2>1. /\ dl.attempt < Attempts /\ task' = "connect" /\ mode' = mode
        /\ dl' = [dl EXCEPT !.attempt = @ + 1, !.pos = 0, !.skip = 0]
    BY <1>3 DEF NextAttempt
  <2>2. dl \in Download /\ mode \in {"hand", "auto", "none"} /\ DownloadSound
    BY DEF IInv, Types, UpdateTypeOK
  <2>3. dl.attempt + 1 \in 0..Attempts /\ 0 \in 0..Size
    BY <2>1, <2>2, OtaAssumption DEF Download
  <2>4. dl' \in Download /\ dl'.begun = dl.begun /\ dl'.garbled = dl.garbled
    BY <2>1, <2>2, <2>3 DEF Download
  <2>5. DownloadSound'
    BY <2>1, <2>2, <2>4 DEF DownloadSound, UnchangedButDownload
  <2> QED
    BY <1>1, <2>1, <2>2, <2>4, <2>5, DownloadMoves
<1> QED
  BY <1>2, <1>3

(* A connection, whether or not it resumes, keeps the invariant.            *)
LEMMA ConnectKeeps ==
    ASSUME IInv, phase = "up", UNCHANGED <<restoreVars, setupVars>>,
           NEW ranged \in BOOLEAN, NEW length \in BOOLEAN, Connects(ranged, length)
    PROVE  IInv'
<1>1. dl \in Download /\ mode \in {"hand", "auto", "none"} /\ DownloadSound
  BY DEF IInv, Types, UpdateTypeOK
<1>2. ~lent
  BY DEF IInv, LoanSound, Busy, Connects
<1>3. PICK total \in 0..Size :
         dl' = [dl EXCEPT !.pos = IF ranged THEN dl.got ELSE 0,
                          !.skip = IF ranged THEN 0 ELSE dl.got, !.total = total]
  <2>1. Size \in 0..Size
    BY OtaAssumption
  <2> QED
    BY <1>1, <2>1 DEF Connects, Download
<1>4. /\ dl' \in Download /\ dl'.begun = dl.begun /\ dl'.garbled = dl.garbled
      /\ dl'.got = dl.got /\ dl'.pos + dl'.skip = dl.got
  <2>1. PICK pos \in 0..Size, skip \in 0..Size :
           /\ dl' = [dl EXCEPT !.pos = pos, !.skip = skip, !.total = total]
           /\ pos + skip = dl.got
    <3>1. dl.got \in 0..Size /\ 0 \in 0..Size /\ dl.got + 0 = dl.got /\ 0 + dl.got = dl.got
      BY <1>1, OtaAssumption DEF Download
    <3>2. CASE ranged
      BY <1>3, <3>1, <3>2
    <3>3. CASE ~ranged
      BY <1>3, <3>1, <3>3
    <3> QED
      BY <3>2, <3>3
  <2> QED
    BY <1>1, <2>1 DEF Download
<1>5. DownloadSound'
  BY <1>1, <1>4 DEF DownloadSound, Connects, UnchangedButDownload
<1> QED
  BY <1>1, <1>2, <1>4, <1>5, DownloadMoves DEF Connects

(* The end of a stream keeps it.                                            *)
LEMMA StreamEndKeeps ==
    ASSUME IInv, phase = "up", UNCHANGED <<restoreVars, setupVars>>,
           NEW clean \in BOOLEAN, StreamEnds(clean)
    PROVE  IInv'
<1>1. dl \in Download /\ mode \in {"hand", "auto", "none"} /\ DownloadSound
  BY DEF IInv, Types, UpdateTypeOK
<1>2. CASE dl.begun /\ task' = "verify" /\ UNCHANGED <<dl, mode>>
  <2>1. ~lent
    BY DEF IInv, LoanSound, Busy, StreamEnds
  <2>2. DownloadSound'
    BY <1>1, <1>2 DEF DownloadSound, StreamEnds, UnchangedButDownload
  <2> QED
    BY <1>1, <1>2, <2>1, <2>2, DownloadMoves DEF StreamEnds
<1>3. CASE NextAttempt \/ Rests
  BY <1>3, AttemptKeeps DEF StreamEnds
<1> QED
  BY <1>2, <1>3 DEF StreamEnds

(* A read, skipped, held, or written, keeps it; the first write is the only *)
(* one that erases an image, and never the one a failed update needs.       *)
LEMMA ReadKeeps ==
    ASSUME IInv, phase = "up", UNCHANGED <<restoreVars, setupVars>>,
           NEW right \in BOOLEAN, Read(right)
    PROVE  IInv'
<1> USE DEF Read
<1>1. dl \in Download /\ mode \in {"hand", "auto", "none"} /\ DownloadSound
  BY DEF IInv, Types, UpdateTypeOK
<1>2. ~lent
  BY DEF IInv, LoanSound, Busy
<1>3. /\ dl.pos \in 0..Size /\ dl.got \in 0..Size /\ dl.skip \in 0..Size
      /\ dl.pos < Size /\ dl.pos + dl.skip = dl.got /\ ~dl.garbled /\ Size \in Nat
  BY <1>1, OtaAssumption DEF Download, DownloadSound
<1>4. CASE dl.skip > 0
  <2>1. dl' = [dl EXCEPT !.pos = @ + 1, !.skip = @ - 1] /\ UNCHANGED <<task, mode, kind, version>>
    BY <1>4
  <2>2. dl.pos + 1 \in 0..Size /\ dl.skip - 1 \in 0..Size
        /\ (dl.pos + 1) + (dl.skip - 1) = dl.got
    BY <1>3, <1>4
  <2>3. dl' \in Download /\ dl'.begun = dl.begun /\ dl'.garbled = dl.garbled
        /\ dl'.pos + dl'.skip = dl'.got
    BY <1>1, <2>1, <2>2 DEF Download
  <2>4. DownloadSound'
    BY <1>1, <2>1, <2>3 DEF DownloadSound, UnchangedButDownload
  <2> QED
    BY <1>1, <1>2, <2>1, <2>3, <2>4, DownloadMoves
<1>5. dl.skip = 0 => /\ Taken \in Download /\ Taken.begun = dl.begun /\ ~Taken.garbled
                     /\ Taken.pos + Taken.skip = Taken.got
  <2>1. SUFFICES ASSUME dl.skip = 0
                 PROVE  /\ Taken \in Download /\ Taken.begun = dl.begun /\ ~Taken.garbled
                        /\ Taken.pos + Taken.skip = Taken.got
    OBVIOUS
  <2>2. dl.pos + 1 \in 0..Size /\ dl.pos = dl.got /\ dl.pos + 1 + dl.skip = dl.got + 1
    BY <1>3, <2>1
  <2>3. Taken = [dl EXCEPT !.pos = dl.pos + 1, !.got = dl.got + 1, !.garbled = FALSE]
    BY <1>1, <1>3, <2>2 DEF Taken, Download
  <2> QED
    BY <1>1, <2>2, <2>3 DEF Download
<1>6. CASE ~(dl.skip > 0) /\ (dl.begun \/ dl.got + 1 < HeadLen)
  <2>1. dl' = Taken /\ UNCHANGED <<task, mode, kind, version>> /\ dl.skip = 0
    BY <1>3, <1>6
  <2>2. DownloadSound'
    BY <1>1, <1>5, <2>1 DEF DownloadSound, UnchangedButDownload
  <2> QED
    BY <1>1, <1>2, <1>5, <2>1, <2>2, DownloadMoves
<1>7. CASE Rests /\ UNCHANGED <<kind, version>>
  BY <1>7, AttemptKeeps
<1>8. CASE /\ ~probation /\ dl.skip = 0 /\ dl' = [Taken EXCEPT !.begun = TRUE]
           /\ kind' = [kind EXCEPT ![Idle] = "partial"]
           /\ version' = [version EXCEPT ![Idle] = dl.tag]
           /\ UNCHANGED <<task, mode>>
  <2> USE <1>8 DEF UnchangedButDownload
  <2>1. dl' \in Download /\ dl'.begun /\ ~dl'.garbled /\ dl'.pos + dl'.skip = dl'.got
    BY <1>5 DEF Download
  <2>2. /\ run \in Slots /\ Idle \in Slots /\ Idle # run
        /\ kind \in [Slots -> {"app", "partial", "staged", "torn", Blank}]
        /\ version \in [Slots -> Versions \cup {None}] /\ dl.tag \in Versions \cup {None}
    BY TheOtherSlot DEF IInv, Types, UpdateTypeOK
  <2>3. Types'
    <3>1. UNCHANGED <<run, boot, mark, rolledBack, probation, asked, lent, mode, task>>
      OBVIOUS
    <3>2. /\ kind' \in [Slots -> {"app", "partial", "staged", "torn", Blank}]
          /\ version' \in [Slots -> Versions \cup {None}]
      BY <2>2
    <3> QED
      BY <2>1, <3>1, <3>2 DEF IInv, Types, UpdateTypeOK, Download, restoreVars, setupVars,
         worldVars
  <2>4. SlotsSound'
    BY <2>2 DEF IInv, SlotsSound, Idle
  <2>5. DownloadSound'
    BY <2>1 DEF DownloadSound
  <2>6. LoanSound'
    BY DEF IInv, LoanSound, Busy, restoreVars, setupVars
  <2>7. StagingSound' /\ ApplySound'
    <3>1. kind'[Idle'] = "partial" /\ Idle' = Idle
      BY <2>2 DEF Idle
    <3> QED
      BY <1>2, <3>1, RestoreLeftAlone DEF Idle
  <2> QED
    BY <2>1, <2>3, <2>4, <2>5, <2>6, <2>7 DEF IInv
<1> QED
  BY <1>3, <1>4, <1>6, <1>7, <1>8

(* An image that is verified is the one to start next; the one that runs is *)
(* confirmed, for the download had begun.                                   *)
LEMMA VerifyKeeps ==
    ASSUME IInv, phase = "up", UNCHANGED <<restoreVars, setupVars>>, Verify
    PROVE  IInv'
<1> USE DEF Verify
<1>1. ~lent /\ ~probation /\ boot = run /\ dl \in Download /\ DownloadSound
  BY DEF IInv, Types, LoanSound, DownloadSound, SlotsSound, Busy
<1>2. CASE Rests /\ UNCHANGED <<kind, mark, boot>>
  BY <1>2, AttemptKeeps DEF UnchangedButDownload
<1>3. CASE /\ kind' = [kind EXCEPT ![Idle] = "app"] /\ mark' = [mark EXCEPT ![Idle] = "new"]
           /\ boot' = Idle /\ task' = "restart" /\ UNCHANGED <<dl, mode>>
  <2> USE <1>3
  <2>1. /\ run \in Slots /\ Idle \in Slots /\ Idle # run
        /\ kind \in [Slots -> {"app", "partial", "staged", "torn", Blank}]
        /\ mark \in [Slots -> {"none", "new", "pending", "valid", "invalid"}]
    BY TheOtherSlot DEF IInv, Types, UpdateTypeOK
  <2>2. /\ kind' \in [Slots -> {"app", "partial", "staged", "torn", Blank}]
        /\ mark' \in [Slots -> {"none", "new", "pending", "valid", "invalid"}]
        /\ kind'[run] = kind[run] /\ mark'[run] = mark[run] /\ run' = run /\ Idle' = Idle
        /\ kind'[Idle] = "app" /\ mark'[Idle] = "new"
    BY <2>1 DEF Idle
  <2>3. Types'
    BY <2>1, <2>2 DEF IInv, Types, UpdateTypeOK, restoreVars, setupVars, worldVars
  <2>4. SlotsSound'
    BY <1>1, <2>1, <2>2 DEF IInv, SlotsSound
  <2>5. DownloadSound'
    BY <1>1 DEF DownloadSound
  <2>6. LoanSound'
    BY <1>1 DEF IInv, LoanSound, Busy, restoreVars, setupVars
  <2>7. StagingSound' /\ ApplySound'
    BY <1>1, <2>2, RestoreLeftAlone
  <2> QED
    BY <1>1, <2>3, <2>4, <2>5, <2>6, <2>7 DEF IInv, Types
<1> QED
  BY <1>2, <1>3

(* Every step of the update task that does not restart keeps it.            *)
LEMMA OtaTaskKeeps ==
    ASSUME IInv, phase = "up", OtaTask, UNCHANGED <<restoreVars, setupVars>>
    PROVE  IInv'
<1>1. CASE \E due \in BOOLEAN : Wake(due)
  BY <1>1, WakeKeeps
<1>2. CASE \/ CheckFails
           \/ \E tag \in Versions, sized \in BOOLEAN : CheckAnswers(tag, sized)
           \/ \E fits \in BOOLEAN : InstallStarts(fits)
  BY <1>2, CheckKeeps
<1>3. CASE (\E fatal \in BOOLEAN : ConnectFails(fatal)) \/ WriteFails
  BY <1>3, AttemptKeeps DEF ConnectFails, WriteFails
<1>4. CASE \E ranged, length \in BOOLEAN : Connects(ranged, length)
  BY <1>4, ConnectKeeps
<1>5. CASE \E right \in BOOLEAN : Read(right)
  BY <1>5, ReadKeeps
<1>6. CASE \E clean \in BOOLEAN : StreamEnds(clean)
  BY <1>6, StreamEndKeeps
<1>7. CASE Verify
  BY <1>7, VerifyKeeps
<1> QED
  BY <1>1, <1>2, <1>3, <1>4, <1>5, <1>6, <1>7 DEF OtaTask

-----------------------------------------------------------------------------
(* The world and the loaders.                                              *)

(* A request, time and the network keep the invariant.                      *)
LEMMA WorldKeeps ==
    ASSUME IInv, phase = "up", OtaWorld, UNCHANGED <<restoreVars, setupVars>>
    PROVE  IInv'
<1>1. /\ UNCHANGED <<flashVars, rolledBack, probation, task, mode, dl, lent, cuts>>
      /\ up' \in 0..2 /\ net' \in Nets /\ asked' \in BOOLEAN
  <2>1. up \in 0..2 /\ net \in Nets /\ asked \in BOOLEAN
    BY DEF IInv, Types, UpdateTypeOK
  <2>2. CASE Ask
    BY <2>1, <2>2 DEF Ask, worldVars
  <2>3. CASE Tick
    BY <2>1, <2>3 DEF Tick, taskVars
  <2>4. CASE \E n \in Nets : NetChanges(n)
    BY <2>1, <2>4 DEF NetChanges, taskVars
  <2> QED
    BY <2>2, <2>3, <2>4 DEF OtaWorld
<1>2. Types'
  BY <1>1 DEF IInv, Types, UpdateTypeOK, flashVars, restoreVars, setupVars, Download
<1>3. SlotsSound'
  BY <1>1, SlotsLeftAlone DEF IInv
<1>4. DownloadSound' /\ LoanSound'
  BY <1>1 DEF IInv, DownloadSound, LoanSound, Busy, restoreVars, setupVars
<1>5. StagingSound' /\ ApplySound'
  BY <1>1, RestoreLeftAlone DEF flashVars
<1> QED
  BY <1>2, <1>3, <1>4, <1>5 DEF IInv

(* What a loader's own record is after a step of it.                        *)
LEMMA LoaderMoves ==
    ASSUME Types, NEW w \in Loaders,
           NEW pc \in {"idle", "erase", "stage", "done"}, NEW f \in Setups,
           NEW n \in 0..Records, RestoreChanges(w, pc, f, n)
    PROVE  /\ rst' \in [Loaders -> {"idle", "erase", "stage", "done"}]
           /\ file' \in [Loaders -> Setups] /\ got' \in [Loaders -> 0..Records]
           /\ rst'[w] = pc /\ file'[w] = f /\ got'[w] = n
           /\ \A v \in Loaders : v # w => /\ rst'[v] = rst[v] /\ file'[v] = file[v]
                                          /\ got'[v] = got[v]
BY DEF Types, UpdateTypeOK, RestoreChanges

(* A loader that takes the slot finds it nobody's.                          *)
LEMMA BorrowKeeps ==
    ASSUME IInv, phase = "up", NEW w \in Loaders, NEW f \in Files, Borrow(w, f)
    PROVE  IInv'
<1>1. /\ UNCHANGED <<flashVars, taskVars, worldVars, body, hdr, setupVars>>
      /\ lent' = TRUE /\ ~lent /\ ~Busy /\ ~probation
  BY DEF Borrow, MayBorrow, IInv, SlotsSound
<1>2. f \in Setups /\ 0 \in 0..Records /\ RestoreChanges(w, "erase", f, 0)
  BY UpdateAssumption DEF Borrow, Setups
<1>3. /\ rst' \in [Loaders -> {"idle", "erase", "stage", "done"}]
      /\ file' \in [Loaders -> Setups] /\ got' \in [Loaders -> 0..Records]
      /\ rst'[w] = "erase" /\ \A v \in Loaders : v # w => rst'[v] = "idle"
  BY <1>1, <1>2, LoaderMoves DEF IInv, LoanSound
<1>4. Types'
  BY <1>1, <1>3 DEF IInv, Types, UpdateTypeOK, flashVars, taskVars, worldVars, setupVars, Download
<1>5. SlotsSound'
  BY <1>1, SlotsLeftAlone DEF IInv, taskVars
<1>6. DownloadSound'
  BY <1>1 DEF IInv, DownloadSound, taskVars
<1>7. LoanSound'
  BY <1>1, <1>3 DEF IInv, LoanSound, Busy, taskVars, setupVars
<1>8. StagingSound'
  BY <1>1, <1>3 DEF IInv, StagingSound, AcceptedStays, Idle, flashVars
<1>9. ApplySound'
  BY <1>1 DEF IInv, ApplySound, Whole, HasSetup, Applied, Intact, Idle, flashVars, setupVars,
     silent
<1> QED
  BY <1>4, <1>5, <1>6, <1>7, <1>8, <1>9 DEF IInv

(* Once a loader has the slot nobody else has.                              *)
LEMMA TheSlotIsTheirs ==
    ASSUME IInv, NEW w \in Loaders, rst[w] # "idle"
    PROVE  /\ lent /\ phase = "up" /\ ~probation /\ task \in {"nap", "check", "install"}
           /\ boot = run /\ mark[run] = "valid"
           /\ \A v \in Loaders : v # w => rst[v] = "idle"
BY DEF IInv, Types, UpdateTypeOK, SlotsSound, LoanSound, Busy

(* So what it does to the idle slot and the staging area is for it to keep  *)
(* sound.                                                                   *)
LEMMA LoaderSteps ==
    ASSUME IInv, NEW w \in Loaders, rst[w] # "idle",
           NEW pc \in {"idle", "erase", "stage", "done"}, NEW f \in Setups,
           NEW n \in 0..Records, RestoreChanges(w, pc, f, n),
           UNCHANGED <<run, boot, mark, taskVars, worldVars, setupVars>>,
           lent' \in BOOLEAN, pc # "idle" => lent' = lent,
           kind' \in [Slots -> {"app", "partial", "staged", "torn", Blank}],
           version' \in [Slots -> Versions \cup {None}],
           kind'[run] = kind[run], kind'[Idle] = "app" => UNCHANGED <<kind, version>>,
           {body', hdr'} \subseteq [Recs -> Setups \cup {Blank}],
           StagingSound'
    PROVE  IInv'
<1> USE DEF taskVars, setupVars
<1>1. /\ lent /\ phase = "up" /\ ~probation /\ task \in {"nap", "check", "install"}
      /\ boot = run /\ mark[run] = "valid"
      /\ \A v \in Loaders : v # w => rst[v] = "idle"
  BY TheSlotIsTheirs
<1>2. /\ rst' \in [Loaders -> {"idle", "erase", "stage", "done"}]
      /\ file' \in [Loaders -> Setups] /\ got' \in [Loaders -> 0..Records]
      /\ rst'[w] = pc /\ \A v \in Loaders : v # w => rst'[v] = "idle"
  BY <1>1, LoaderMoves DEF IInv
<1>3. Types'
  BY <1>2 DEF IInv, Types, UpdateTypeOK, worldVars, Download
<1>4. SlotsSound'
  BY <1>1 DEF IInv, SlotsSound, Idle
<1>5. DownloadSound'
  BY DEF IInv, DownloadSound
<1>6. LoanSound'
  BY <1>1, <1>2 DEF IInv, LoanSound, Busy
<1>7. ApplySound'
  BY <1>1 DEF IInv, ApplySound, Whole, HasSetup, Applied, silent
<1> QED
  BY <1>3, <1>4, <1>5, <1>6, <1>7 DEF IInv

(* The types those steps need.                                              *)
LEMMA TypesOfLoader ==
    ASSUME IInv, NEW w \in Loaders
    PROVE  /\ run \in Slots /\ Idle \in Slots /\ Idle # run
           /\ kind \in [Slots -> {"app", "partial", "staged", "torn", Blank}]
           /\ version \in [Slots -> Versions \cup {None}]
           /\ lent \in BOOLEAN /\ file[w] \in Setups /\ got[w] \in 0..Records
           /\ {body, hdr} \subseteq [Recs -> Setups \cup {Blank}]
           /\ 1 \in Recs /\ Records \in Nat /\ Own \in Setups
BY TheOtherSlot, UpdateAssumption DEF IInv, Types, UpdateTypeOK, Recs, Setups

(* Erasing the header keeps it: nothing is staged any more.                 *)
LEMMA EraseKeeps ==
    ASSUME IInv, NEW w \in Loaders, EraseHeader(w)
    PROVE  IInv'
<1>1. /\ rst[w] = "erase" /\ RestoreChanges(w, "stage", file[w], 0) /\ hdr' = AllOf(Blank)
      /\ kind' = [kind EXCEPT ![Idle] = Blank]
      /\ version' = [version EXCEPT ![Idle] = None]
      /\ UNCHANGED <<run, boot, mark, taskVars, lent, worldVars, body, setupVars>>
  BY DEF EraseHeader
<1>2. /\ run \in Slots /\ Idle \in Slots /\ Idle # run
      /\ kind \in [Slots -> {"app", "partial", "staged", "torn", Blank}]
      /\ version \in [Slots -> Versions \cup {None}]
      /\ lent \in BOOLEAN /\ file[w] \in Setups /\ 0 \in 0..Records
      /\ {body, hdr} \subseteq [Recs -> Setups \cup {Blank}] /\ 1 \in Recs
  BY TypesOfLoader
<1>3. /\ kind' \in [Slots -> {"app", "partial", "staged", "torn", Blank}]
      /\ version' \in [Slots -> Versions \cup {None}]
      /\ kind'[run] = kind[run] /\ kind'[Idle] = Blank /\ Idle' = Idle
  BY <1>1, <1>2 DEF Idle
<1>4. hdr' \in [Recs -> Setups \cup {Blank}] /\ hdr'[1] = Blank
  BY <1>1, <1>2 DEF AllOf
<1>5. \A v \in Loaders : v # w => rst'[v] = "idle"
  BY <1>1, <1>2, LoaderMoves, TheSlotIsTheirs DEF IInv
<1>6. rst'[w] = "stage" /\ got'[w] = 0
  BY <1>1, <1>2, LoaderMoves DEF IInv
<1>7. StagingSound'
  BY <1>1, <1>3, <1>4, <1>5, <1>6 DEF StagingSound, AcceptedStays, Blank
<1> QED
  BY <1>1, <1>2, <1>3, <1>4, <1>7, LoaderSteps DEF Blank

(* Staging a record keeps it.                                               *)
LEMMA PutKeeps ==
    ASSUME IInv, NEW w \in Loaders, StagePut(w)
    PROVE  IInv'
<1>1. /\ rst[w] = "stage" /\ got[w] < Records
      /\ body' = [body EXCEPT ![got[w] + 1] = file[w]]
      /\ RestoreChanges(w, "stage", file[w], got[w] + 1)
      /\ UNCHANGED <<flashVars, taskVars, lent, worldVars, hdr, setupVars>>
  BY DEF StagePut, otaVars
<1>2. /\ run \in Slots /\ Idle \in Slots /\ Idle # run
      /\ kind \in [Slots -> {"app", "partial", "staged", "torn", Blank}]
      /\ version \in [Slots -> Versions \cup {None}]
      /\ lent \in BOOLEAN /\ file[w] \in Setups /\ got[w] \in 0..Records
      /\ {body, hdr} \subseteq [Recs -> Setups \cup {Blank}] /\ Records \in Nat
  BY TypesOfLoader
<1>3. got[w] + 1 \in 0..Records /\ got[w] + 1 \in Recs
  BY <1>1, <1>2 DEF Recs
<1>4. body' \in [Recs -> Setups \cup {Blank}]
  BY <1>1, <1>2, <1>3
<1>5. /\ rst'[w] = "stage" /\ got'[w] = got[w] + 1 /\ file'[w] = file[w]
      /\ \A v \in Loaders : v # w => rst'[v] = "idle"
  BY <1>1, <1>2, <1>3, LoaderMoves, TheSlotIsTheirs DEF IInv
<1>6. \A i \in 1..(got[w] + 1) : body'[i] = file[w]
  BY <1>1, <1>2, <1>3 DEF IInv, StagingSound, Recs
<1>7. StagingSound'
  BY <1>1, <1>5, <1>6 DEF IInv, StagingSound, AcceptedStays, Idle, flashVars
<1> QED
  BY <1>1, <1>2, <1>3, <1>4, <1>7, LoaderSteps DEF flashVars

(* The header completes what is staged whole.                               *)
LEMMA FinishKeeps ==
    ASSUME IInv, NEW w \in Loaders, StageFinish(w)
    PROVE  IInv'
<1>1. /\ rst[w] = "stage" /\ got[w] = Records /\ hdr' = AllOf(file[w])
      /\ kind' = [kind EXCEPT ![Idle] = "staged"]
      /\ RestoreChanges(w, "done", file[w], 0)
      /\ UNCHANGED <<run, boot, version, mark, taskVars, lent, worldVars, body, setupVars>>
  BY DEF StageFinish
<1>2. /\ run \in Slots /\ Idle \in Slots /\ Idle # run
      /\ kind \in [Slots -> {"app", "partial", "staged", "torn", Blank}]
      /\ version \in [Slots -> Versions \cup {None}]
      /\ lent \in BOOLEAN /\ file[w] \in Setups /\ 0 \in 0..Records
      /\ {body, hdr} \subseteq [Recs -> Setups \cup {Blank}] /\ 1 \in Recs
  BY TypesOfLoader
<1>3. /\ kind' \in [Slots -> {"app", "partial", "staged", "torn", Blank}]
      /\ kind'[run] = kind[run] /\ kind'[Idle] = "staged" /\ Idle' = Idle
  BY <1>1, <1>2 DEF Idle
<1>4. hdr' \in [Recs -> Setups \cup {Blank}] /\ hdr'[1] = file[w] /\ hdr' = AllOf(hdr'[1])
  BY <1>1, <1>2 DEF AllOf
<1>5. body' = AllOf(file[w])
  <2>1. \A i \in Recs : body[i] = file[w]
    BY <1>1 DEF IInv, StagingSound, Recs
  <2>2. body = [i \in Recs |-> body[i]]
    BY <1>2
  <2> QED
    BY <1>1, <2>1, <2>2 DEF AllOf
<1>6. /\ rst'[w] = "done" /\ file'[w] = file[w]
      /\ \A v \in Loaders : v # w => rst'[v] = "idle"
  <2>1. Types /\ "done" \in {"idle", "erase", "stage", "done"} /\ rst[w] # "idle"
    BY <1>1 DEF IInv
  <2>2. /\ rst'[w] = "done" /\ file'[w] = file[w]
        /\ \A v \in Loaders : v # w => rst'[v] = rst[v]
    BY <1>1, <1>2, <2>1, LoaderMoves
  <2>3. \A v \in Loaders : v # w => rst[v] = "idle"
    BY <2>1, TheSlotIsTheirs
  <2> QED
    BY <2>2, <2>3
<1>7. AcceptedStays'
  BY <1>1, <1>3, <1>5, <1>6 DEF AcceptedStays
<1>8. StagingSound'
  BY <1>2, <1>4, <1>6, <1>7 DEF StagingSound
<1> QED
  BY <1>1, <1>2, <1>3, <1>4, <1>8, LoaderSteps

(* A restore that fails gives the slot back, with whatever is in it.        *)
LEMMA FailKeeps ==
    ASSUME IInv, NEW w \in Loaders, RestoreFails(w)
    PROVE  IInv'
<1>1. /\ rst[w] \in {"erase", "stage"} /\ kind' \in AfterHeaderWrite(w) /\ lent' = FALSE
      /\ RestoreChanges(w, "idle", Own, 0)
      /\ UNCHANGED <<run, boot, version, mark, taskVars, worldVars, body, hdr, setupVars>>
  BY DEF RestoreFails
<1>2. /\ run \in Slots /\ Idle \in Slots /\ Idle # run
      /\ kind \in [Slots -> {"app", "partial", "staged", "torn", Blank}]
      /\ version \in [Slots -> Versions \cup {None}]
      /\ 0 \in 0..Records /\ Own \in Setups
      /\ {body, hdr} \subseteq [Recs -> Setups \cup {Blank}]
  BY TypesOfLoader
<1>3. /\ kind' \in [Slots -> {"app", "partial", "staged", "torn", Blank}]
      /\ kind'[run] = kind[run] /\ (kind'[Idle] \in {"app", "staged"} => kind' = kind)
      /\ Idle' = Idle
  BY <1>1, <1>2 DEF AfterHeaderWrite, Idle
<1>4. \A v \in Loaders : rst'[v] = "idle"
  BY <1>1, <1>2, LoaderMoves, TheSlotIsTheirs DEF IInv
<1>5. StagingSound'
  BY <1>1, <1>3, <1>4 DEF IInv, StagingSound, AcceptedStays
<1> QED
  BY <1>1, <1>2, <1>3, <1>5, LoaderSteps

-----------------------------------------------------------------------------
(* Restarts, and applying what is staged.                                  *)

(* Which image starts, and how the slots are then: the new one once, the    *)
(* confirmed one again, or the one to go back to.                           *)
LEMMA WhatStarts ==
    ASSUME IInv, NEW b, NEW m, NEW k, Restarted(b, m, k),
           \/ b = boot /\ m = mark /\ k = kind
           \/ /\ b = boot /\ m = mark /\ ~probation /\ task # "restart"
              /\ k = [kind EXCEPT ![Idle] = "torn"]
           \/ /\ b = Idle /\ m = [mark EXCEPT ![run] = "invalid"] /\ k = kind
              /\ probation /\ task # "restart"
    PROVE  /\ run' \in Slots /\ boot' \in Slots /\ (kind[Idle] # "app" => run' = run)
           /\ mark' \in [Slots -> {"none", "new", "pending", "valid", "invalid"}]
           /\ kind' \in [Slots -> {"app", "partial", "staged", "torn", Blank}]
           /\ SlotsSound'
<1>1. /\ run \in Slots /\ Idle \in Slots /\ Idle # run /\ Slots = {run, Idle}
      /\ kind \in [Slots -> {"app", "partial", "staged", "torn", Blank}]
      /\ mark \in [Slots -> {"none", "new", "pending", "valid", "invalid"}]
      /\ run = 1 - Idle /\ 1 - run = Idle
  BY TheOtherSlot DEF IInv, Types, UpdateTypeOK, Idle, Slots
<1>2. SlotsSound /\ DownloadSound
  BY DEF IInv
<1> DEFINE s == IF Bootable(b, m, k) THEN b ELSE 1 - b
           n == [x \in Slots |-> MarkAtBoot(m[x], x = b)]
<1>3. /\ run' = s /\ boot' = s /\ mark' = n /\ kind' = k /\ UNCHANGED version
      /\ (probation' <=> n[s] = "pending") /\ rolledBack' = GivenUp(1 - s, n, k)
      /\ task' = "nap"
  BY DEF Restarted
<1>4. /\ n \in [Slots -> {"none", "new", "pending", "valid", "invalid"}]
      /\ k \in [Slots -> {"app", "partial", "staged", "torn", Blank}]
      /\ \A x \in Slots : n[x] = MarkAtBoot(m[x], x = b)
  <2>1. /\ m \in [Slots -> {"none", "new", "pending", "valid", "invalid"}]
        /\ k \in [Slots -> {"app", "partial", "staged", "torn", Blank}]
    BY <1>1
  <2>2. \A x \in Slots : MarkAtBoot(m[x], x = b) \in {"none", "new", "pending", "valid", "invalid"}
    BY <2>1 DEF MarkAtBoot
  <2> QED
    BY <2>1, <2>2
<1> HIDE DEF n
<1>5. CASE task = "restart"
  <2>1. /\ b = Idle /\ m = mark /\ k = kind /\ kind[Idle] = "app" /\ mark[Idle] = "new"
        /\ kind[run] = "app" /\ mark[run] = "valid"
    BY <1>2, <1>5 DEF SlotsSound, DownloadSound
  <2>2. s = Idle /\ n[Idle] = "pending" /\ n[run] = "valid"
    BY <1>1, <1>4, <2>1 DEF Bootable, MarkAtBoot
  <2> QED
    BY <1>1, <1>3, <1>4, <2>1, <2>2 DEF SlotsSound, Idle
<1>6. CASE task # "restart" /\ ~probation
  <2>1. /\ b = run /\ m = mark /\ k[run] = "app" /\ mark[run] = "valid" /\ mark[Idle] # "new"
        /\ (k[Idle] = "app" => kind[Idle] = "app")
    BY <1>1, <1>2, <1>6 DEF SlotsSound
  <2>2. s = run /\ n[run] = "valid" /\ n[Idle] # "new"
    BY <1>1, <1>4, <2>1 DEF Bootable, MarkAtBoot
  <2>3. n[Idle] = "invalid" /\ k[Idle] = "app" => GivenUp(Idle, n, k) = version[Idle]
    BY DEF GivenUp
  <2> QED
    BY <1>1, <1>3, <1>4, <2>1, <2>2, <2>3 DEF SlotsSound, Idle
<1>7. CASE task # "restart" /\ probation
  <2>1. /\ k = kind /\ kind[run] = "app" /\ mark[run] = "pending" /\ boot = run
        /\ kind[Idle] = "app" /\ mark[Idle] = "valid"
    BY <1>2, <1>7 DEF SlotsSound
  <2>2. m[run] \in {"pending", "invalid"} /\ m[Idle] = "valid" /\ (b = run => m[run] = "pending")
    BY <1>1, <1>7, <2>1
  <2>3. s = Idle /\ n[Idle] = "valid" /\ n[run] = "invalid"
    <3>1. b = Idle \/ b = run
      BY <1>7, <2>1
    <3>2. b = Idle => Bootable(b, m, k)
      BY <2>1, <2>2 DEF Bootable
    <3>3. b = run => ~Bootable(b, m, k)
      BY <2>2 DEF Bootable
    <3> QED
      BY <1>1, <1>4, <2>2, <3>1, <3>2, <3>3 DEF MarkAtBoot
  <2>4. GivenUp(run, n, k) = version[run]
    BY <2>1, <2>3 DEF GivenUp
  <2> QED
    BY <1>1, <1>3, <1>4, <2>1, <2>3, <2>4 DEF SlotsSound, Idle
<1> QED
  BY <1>5, <1>6, <1>7

(* Any restart keeps the invariant: what was staged whole is still there    *)
(* for the start to apply, and what was being applied is begun again.       *)
LEMMA RestartKeeps ==
    ASSUME IInv, NEW b, NEW m, NEW k, Restarted(b, m, k), SetupRestarts, cuts' \in 0..MaxCuts,
           \/ b = boot /\ m = mark /\ k = kind
           \/ /\ b = boot /\ m = mark /\ ~probation /\ task # "restart" /\ phase = "up"
              /\ k = [kind EXCEPT ![Idle] = "torn"]
           \/ /\ b = Idle /\ m = [mark EXCEPT ![run] = "invalid"] /\ k = kind
              /\ probation /\ task # "restart"
    PROVE  IInv'
<1>1. /\ run' \in Slots /\ boot' \in Slots /\ (kind[Idle] # "app" => run' = run)
      /\ mark' \in [Slots -> {"none", "new", "pending", "valid", "invalid"}]
      /\ kind' \in [Slots -> {"app", "partial", "staged", "torn", Blank}]
      /\ SlotsSound'
  BY WhatStarts
<1>2. /\ kind' = k /\ UNCHANGED <<version, net>> /\ lent' = FALSE /\ asked' = FALSE
      /\ task' = "nap" /\ mode' = "none" /\ dl' = NoDownload /\ up' = 0
      /\ phase' = "boot" /\ at' = 0 /\ UNCHANGED <<body, hdr, data, restored, faulty, unsure, unnoted>>
      /\ rst' = [w \in Loaders |-> "idle"] /\ file' = [w \in Loaders |-> Own]
      /\ got' = [w \in Loaders |-> 0]
  BY DEF Restarted, SetupRestarts, silent
<1>3. dl' \in Download /\ ~dl'.begun /\ ~dl'.garbled
  BY <1>2, OtaAssumption DEF NoDownload, Download, Versions, None
<1>4. probation' \in BOOLEAN /\ rolledBack' \in Versions \cup {None}
  <2>1. probation' \in BOOLEAN
    BY DEF Restarted
  <2>2. rolledBack' = (GivenUp(1 - run', mark', k)) /\ (1 - run') \in Slots
    BY <1>1 DEF Restarted, Slots
  <2>3. version \in [Slots -> Versions \cup {None}]
    BY DEF IInv, Types, UpdateTypeOK
  <2> QED
    BY <2>1, <2>2, <2>3 DEF GivenUp
<1>5. Types'
  <2>1. Own \in Setups /\ 0 \in 0..Records /\ 0 \in 0..2
    BY UpdateAssumption DEF Setups
  <2> QED
    BY <1>1, <1>2, <1>3, <1>4, <2>1 DEF IInv, Types, UpdateTypeOK, Download
<1>6. DownloadSound'
  BY <1>2, <1>3 DEF DownloadSound
<1>7. LoanSound'
  BY <1>2 DEF LoanSound, Busy
<1>8. /\ run \in Slots /\ Idle \in Slots /\ Idle # run /\ kind[run] = "app"
      /\ kind \in [Slots -> {"app", "partial", "staged", "torn", Blank}]
      /\ (1 - run' = run \/ 1 - run' = Idle)
  <2>1. run \in Slots /\ kind[run] = "app"
        /\ kind \in [Slots -> {"app", "partial", "staged", "torn", Blank}]
    BY DEF IInv, Types, UpdateTypeOK, SlotsSound
  <2>2. 1 - run' = run \/ 1 - run' = Idle
    <3>1. (run = 0 \/ run = 1) /\ (run' = 0 \/ run' = 1)
      BY <1>1, <2>1 DEF Slots
    <3> QED
      BY <3>1 DEF Idle
  <2> QED
    BY <2>1, <2>2, TheOtherSlot
<1>9. StagingSound'
  <2>1. kind'[Idle'] = "staged" => kind[Idle] = "staged"
    BY <1>2, <1>8 DEF Idle
  <2> QED
    BY <1>2, <2>1 DEF IInv, StagingSound, AcceptedStays
<1>10. ApplySound'
  <2>1. phase # "up" /\ Intact => Intact'
    <3>1. kind[Idle] = "staged" => ~probation /\ run' = run /\ Idle' = Idle
      BY <1>1 DEF IInv, SlotsSound, Idle
    <3> QED
      BY <1>2, <3>1 DEF Intact
  <2>2. phase \in {"boot", "wipe", "write", "record", "clear", "up"}
    BY DEF IInv, Types, UpdateTypeOK
  <2> QED
    BY <1>2, <2>1, <2>2 DEF IInv, ApplySound, Whole, HasSetup
<1> QED
  BY <1>1, <1>5, <1>6, <1>7, <1>9, <1>10 DEF IInv

(* The restarts there are.                                                  *)
LEMMA RestartsKeep ==
    ASSUME IInv,
           \/ RestartToUpdate \/ RestartToRollBack \/ PowerCut
           \/ \E w \in Loaders : RestartToApply(w)
    PROVE  IInv'
<1>1. CASE RestartToUpdate \/ \E w \in Loaders : RestartToApply(w)
  <2>1. cuts' \in 0..MaxCuts
    BY <1>1 DEF RestartToUpdate, RestartToApply, IInv, Types, UpdateTypeOK
  <2> QED
    BY <1>1, <2>1, RestartKeeps DEF RestartToUpdate, RestartToApply
<1>2. CASE RestartToRollBack
  <2>1. cuts' \in 0..MaxCuts
    BY <1>2 DEF RestartToRollBack, GiveUp, IInv, Types, UpdateTypeOK
  <2>2. /\ Restarted(Idle, [mark EXCEPT ![run] = "invalid"], kind) /\ SetupRestarts
        /\ probation /\ task # "restart"
    BY <1>2 DEF RestartToRollBack, GiveUp, GivesUp
  <2> QED
    BY <2>1, <2>2, RestartKeeps
<1>3. CASE PowerCut
  <2>1. cuts' \in 0..MaxCuts /\ SetupRestarts
    BY <1>3, OtaAssumption DEF PowerCut, IInv, Types, UpdateTypeOK
  <2>2. PICK w \in Loaders : \E k \in AfterHeaderWrite(w) : Restarted(boot, mark, k)
    BY <1>3 DEF PowerCut
  <2>3. PICK k \in AfterHeaderWrite(w) : Restarted(boot, mark, k)
    BY <2>2
  <2>4. k # kind => /\ k = [kind EXCEPT ![Idle] = "torn"] /\ ~probation
                    /\ task # "restart" /\ phase = "up"
    BY <2>3, TheSlotIsTheirs DEF AfterHeaderWrite
  <2> QED
    BY <2>1, <2>3, <2>4, RestartKeeps
<1> QED
  BY <1>1, <1>2, <1>3

(* A step of the start that keeps what is being applied sound keeps the     *)
(* invariant: nobody else is at work yet.                                   *)
LEMMA StartMoves ==
    ASSUME IInv, phase # "up",
           UNCHANGED <<run, boot, version, mark, taskVars, lent, worldVars, rst, file, got, body>>,
           \/ UNCHANGED <<kind, hdr>>
           \/ /\ kind[Idle] # "app" /\ kind' = [kind EXCEPT ![Idle] = Blank]
              /\ hdr' = AllOf(Blank),
           data' \in [Recs -> Setups \cup {Blank, Mixed}], restored' \in Setups,
           unsure' \subseteq Recs, unnoted' \in BOOLEAN,
           phase' \in {"wipe", "write", "record", "clear", "up"}, at' \in 0..Records,
           faulty' \in BOOLEAN, ApplySound'
    PROVE  IInv'
<1> USE DEF taskVars, worldVars
<1>1. /\ task = "nap" /\ ~lent /\ \A w \in Loaders : rst[w] = "idle"
  BY DEF IInv, LoanSound
<1>2. /\ run \in Slots /\ Idle \in Slots /\ Idle # run /\ Idle' = Idle
      /\ kind \in [Slots -> {"app", "partial", "staged", "torn", Blank}]
      /\ 1 \in Recs
  BY TheOtherSlot, UpdateAssumption DEF IInv, Types, UpdateTypeOK, Recs, Idle
<1>3. /\ kind' \in [Slots -> {"app", "partial", "staged", "torn", Blank}]
      /\ kind'[run] = kind[run] /\ (kind'[Idle] # Blank => UNCHANGED <<kind, hdr>>)
      /\ (kind[Idle] = "app" => kind' = kind)
  BY <1>2
<1>4. hdr' \in [Recs -> Setups \cup {Blank}] /\ (hdr' # hdr => hdr' = AllOf(hdr'[1]))
  BY <1>2 DEF IInv, Types, UpdateTypeOK, AllOf
<1>5. Types'
  BY <1>3, <1>4 DEF IInv, Types, UpdateTypeOK, Download
<1>6. SlotsSound'
  <2>1. kind'[Idle] = "app" => kind' = kind
    BY <1>3 DEF Blank
  <2> QED
    BY <1>1, <1>2, <1>3, <2>1 DEF IInv, SlotsSound
<1>7. DownloadSound' /\ LoanSound'
  BY <1>1 DEF IInv, DownloadSound, LoanSound, Busy
<1>8. StagingSound'
  <2>1. hdr' = AllOf(hdr'[1]) /\ (kind'[Idle] = "staged" => hdr'[1] \in Setups)
    BY <1>3, <1>4 DEF IInv, StagingSound, Blank
  <2> QED
    BY <1>1, <1>2, <2>1 DEF StagingSound, AcceptedStays
<1> QED
  BY <1>5, <1>6, <1>7, <1>8 DEF IInv

(* The types a step of the start needs.                                     *)
LEMMA TypesOfStart ==
    ASSUME IInv
    PROVE  /\ data \in [Recs -> Setups \cup {Blank, Mixed}]
           /\ body \in [Recs -> Setups \cup {Blank}]
           /\ unsure \subseteq Recs /\ unnoted \in BOOLEAN
           /\ hdr \in [Recs -> Setups \cup {Blank}] /\ restored \in Setups
           /\ at \in 0..Records /\ faulty \in BOOLEAN /\ 0 \in 0..Records
           /\ Records \in Nat /\ Records > 0
           /\ (phase \in {"wipe", "write"} => at + 1 \in Recs /\ at + 1 \in 0..Records)
BY UpdateAssumption DEF IInv, Types, UpdateTypeOK, ApplySound, Recs

(* Deciding what to do with the idle slot keeps it.                         *)
LEMMA JudgeKeeps ==
    ASSUME IInv, ApplyNothing \/ ApplyLater \/ ApplyChecks
    PROVE  IInv'
<1>1. /\ phase = "boot"
      /\ UNCHANGED <<flashVars, taskVars, lent, worldVars, data, restored, restoreVars>>
      /\ phase' \in {"wipe", "clear", "up"} /\ at' \in 0..Records /\ faulty' \in BOOLEAN
      /\ unsure' \subseteq Recs /\ unnoted' \in BOOLEAN /\ (~faulty' => silent' = silent)
      /\ (phase' = "wipe" => at' = 0)
  BY TypesOfStart DEF ApplyNothing, ApplyLater, ApplyChecks, Applying, silent
<1>2. /\ phase' = "wipe" => Intact
      /\ phase' = "clear" => kind[Idle] \in {"staged", "torn"}
      /\ phase' \in {"clear", "up"} /\ ~faulty' => ~faulty /\ ~Intact
  <2>1. Intact => kind[Idle] = "staged"
    BY DEF Intact
  <2>2. CASE ApplyNothing
    BY <2>1, <2>2 DEF ApplyNothing
  <2>3. CASE ApplyLater
    BY <2>3 DEF ApplyLater
  <2>4. CASE ApplyChecks
    <3>1. kind[Idle] \in {"staged", "torn"} /\ (faulty' <=> faulty /\ ~Intact)
          /\ phase' = IF Intact THEN "wipe" ELSE "clear"
      BY <2>4 DEF ApplyChecks
    <3> QED
      BY <3>1
  <2> QED
    BY <2>2, <2>3, <2>4
<1>3. (Intact' <=> Intact) /\ (~faulty' => (Whole' <=> Whole)) /\ Idle' = Idle /\ kind' = kind
  BY <1>1 DEF Intact, Idle, Whole, HasSetup, silent, flashVars, restoreVars
<1>4. ApplySound'
  <2>1. ~faulty => Whole \/ Intact
    BY <1>1 DEF IInv, ApplySound
  <2>2. \A i \in 1..at' : phase' = "wipe" => FALSE
    BY <1>1
  <2>3. phase' = "wipe" => at' < Records
    BY <1>1, UpdateAssumption
  <2> HIDE DEF Intact, Whole
  <2> QED
    BY <1>1, <1>2, <1>3, <2>1, <2>2, <2>3 DEF ApplySound
<1> QED
  BY <1>1, <1>4, StartMoves, TypesOfStart DEF flashVars, restoreVars

(* Emptying a namespace keeps it: it is empty, or known not to be.          *)
LEMMA WipeKeeps ==
    ASSUME IInv, NEW ok \in BOOLEAN, Wipe(ok)
    PROVE  IInv'
<1>1. /\ phase = "wipe"
      /\ UNCHANGED <<flashVars, taskVars, lent, worldVars, restored, unnoted, restoreVars>>
      /\ \/ at + 1 = Records /\ phase' = "write" /\ at' = 0
         \/ at + 1 # Records /\ phase' = "wipe" /\ at' = at + 1
  BY DEF Wipe, Applying
<1>2. /\ data' \in [Recs -> Setups \cup {Blank, Mixed}] /\ faulty' \in BOOLEAN
      /\ unsure' \subseteq Recs
  BY <1>1, TypesOfStart DEF Wipe
<1>3. at' \in 0..Records /\ at' < Records /\ (phase' = "write" => at' = 0)
  BY <1>1, TypesOfStart
<1>4. \A i \in 1..(at + 1) : i \in unsure' \/ data'[i] = Blank
  <2>1. \A i \in 1..at : i \in unsure \/ data[i] = Blank
    BY <1>1 DEF IInv, ApplySound
  <2>2. /\ \A i \in Recs : i # at + 1 => data'[i] = data[i] /\ (i \in unsure => i \in unsure')
        /\ at + 1 \in unsure' \/ data'[at + 1] = Blank
    BY <1>1, TypesOfStart DEF Wipe
  <2>3. \A i \in 1..(at + 1) : i \in Recs /\ (i = at + 1 \/ i \in 1..at)
    BY <1>1, TypesOfStart DEF Recs
  <2> QED
    BY <2>1, <2>2, <2>3
<1>5. ApplySound'
  <2>1. Intact'
    BY <1>1 DEF IInv, ApplySound, Intact, Idle, flashVars, restoreVars
  <2>2. phase' = "wipe" => \A i \in 1..at' : i \in unsure' \/ data'[i] = Blank
    BY <1>1, <1>4
  <2>3. phase' = "write" => /\ \A i \in (at' + 1)..Records : i \in unsure' \/ data'[i] = Blank
                            /\ 1..at' = {}
    BY <1>1, <1>4
  <2> QED
    BY <1>1, <1>3, <2>1, <2>2, <2>3 DEF ApplySound
<1> QED
  BY <1>1, <1>2, <1>3, <1>5, StartMoves, TypesOfStart DEF flashVars, restoreVars

(* Writing a record keeps it: what was applied is what was staged, or is    *)
(* in doubt.                                                                *)
LEMMA RecordKeeps ==
    ASSUME IInv, NEW res \in {"done", "failed", "lost"}, ApplyRecord(res)
    PROVE  IInv'
<1>1. /\ phase = "write"
      /\ UNCHANGED <<flashVars, taskVars, lent, worldVars, restored, unnoted, restoreVars>>
      /\ \/ at + 1 = Records /\ phase' = "record" /\ at' = 0
         \/ at + 1 # Records /\ phase' = "write" /\ at' = at + 1
  BY DEF ApplyRecord, Applying
<1>2. /\ data' \in [Recs -> Setups \cup {Blank, Mixed}] /\ faulty' \in BOOLEAN
      /\ unsure' \subseteq Recs
  BY <1>1, TypesOfStart DEF ApplyRecord, Over
<1>3. at' \in 0..Records /\ (phase' = "write" => at' < Records)
  BY <1>1, TypesOfStart
\* The records before and after are left alone.
<1>4. \A i \in Recs : i # at + 1 => data'[i] = data[i] /\ (i \in unsure <=> i \in unsure')
  BY <1>1, TypesOfStart DEF ApplyRecord
<1>5. ~faulty' => data'[at + 1] = body[at + 1] \/ at + 1 \in unsure'
  <2>1. CASE res = "done"
    <3>1. data'[at + 1] = Over(data[at + 1], body[at + 1])
      BY <1>1, <2>1, TypesOfStart DEF ApplyRecord
    <3>2. at + 1 \in unsure \/ data[at + 1] = Blank
      BY <1>1, TypesOfStart DEF IInv, ApplySound
    <3>3. unsure' = IF data'[at + 1] = Mixed THEN unsure ELSE unsure \ {at + 1}
      BY <2>1 DEF ApplyRecord
    <3> QED
      BY <3>1, <3>2, <3>3 DEF Over
  <2>2. CASE res = "lost"
    BY <2>2 DEF ApplyRecord
  <2>3. CASE res = "failed"
    BY <2>3 DEF ApplyRecord
  <2> QED
    BY <2>1, <2>2, <2>3
<1>6. ~faulty' => \A i \in 1..(at + 1) : Applied(i)'
  <2>1. SUFFICES ASSUME ~faulty', NEW i \in 1..(at + 1)
                 PROVE  Applied(i)'
    OBVIOUS
  <2>2. CASE i = at + 1
    BY <1>1, <1>5, <2>1, <2>2 DEF Applied, restoreVars
  <2>3. CASE i # at + 1
    <3>1. i \in 1..at /\ i \in Recs /\ ~faulty
      BY <1>1, <2>1, <2>3, TypesOfStart DEF Recs, ApplyRecord
    <3>2. Applied(i)
      BY <1>1, <3>1 DEF IInv, ApplySound
    <3> QED
      BY <1>1, <1>4, <2>3, <3>1, <3>2 DEF Applied, restoreVars
  <2> QED
    BY <2>2, <2>3
<1>7. ApplySound'
  <2>1. ~faulty' /\ phase' = "write" => \A i \in 1..at' : Applied(i)'
    BY <1>1, <1>6
  <2>2. ~faulty' /\ phase' = "record" => \A i \in Recs : Applied(i)'
    BY <1>1, <1>6 DEF Recs
  <2>3. Intact' /\ phase' \in {"write", "record"}
    BY <1>1 DEF IInv, ApplySound, Intact, Idle, flashVars, restoreVars
  <2>4. phase' = "write" => \A i \in (at' + 1)..Records : i \in unsure' \/ data'[i] = Blank
    <3>1. SUFFICES ASSUME phase' = "write", NEW i \in (at' + 1)..Records
                   PROVE  i \in unsure' \/ data'[i] = Blank
      OBVIOUS
    <3>2. i \in Recs /\ i # at + 1 /\ i \in (at + 1)..Records
      BY <1>1, <3>1, TypesOfStart DEF Recs
    <3>3. i \in unsure \/ data[i] = Blank
      BY <1>1, <3>2 DEF IInv, ApplySound
    <3> QED
      BY <1>4, <3>2, <3>3
  <2> QED
    BY <1>3, <2>1, <2>2, <2>3, <2>4 DEF ApplySound
<1> QED
  BY <1>1, <1>2, <1>3, <1>7, StartMoves, TypesOfStart DEF flashVars, restoreVars

(* Noting where the setup is from keeps it, whether or not NVS takes it.    *)
LEMMA NoteKeeps ==
    ASSUME IInv, NEW ok \in BOOLEAN, RecordRestore(ok)
    PROVE  IInv'
<1>1. /\ phase = "record" /\ phase' = "clear" /\ restored' = (IF ok THEN hdr[1] ELSE restored)
      /\ unnoted' = (~faulty /\ ~ok /\ restored # hdr[1])
      /\ unsure' = (IF faulty THEN {} ELSE unsure)
      /\ UNCHANGED <<flashVars, taskVars, lent, worldVars, at, data, faulty, restoreVars>>
  BY DEF RecordRestore, Applying
<1>2. /\ Intact /\ hdr = AllOf(hdr[1]) /\ hdr[1] \in Setups
      /\ ~faulty => \A i \in Recs : Applied(i)
  BY <1>1 DEF IInv, ApplySound, StagingSound, Intact
<1>3. ~faulty => HasSetup(hdr[1])
  <2>1. body = hdr /\ \A i \in Recs : hdr[i] = hdr[1]
    BY <1>2 DEF Intact, AllOf
  <2> QED
    BY <1>2, <2>1 DEF HasSetup, Applied
<1>4. ~faulty => HasSetup(hdr[1])'
  BY <1>1, <1>3 DEF HasSetup, restoreVars
<1>5. ~faulty => Whole'
  <2> SUFFICES ASSUME ~faulty
               PROVE  Whole'
    OBVIOUS
  <2>1. hdr' = hdr
    BY <1>1 DEF restoreVars
  <2>2. CASE unnoted'
    BY <1>2, <1>4, <2>1, <2>2 DEF Whole
  <2>3. CASE ~unnoted'
    <3>1. restored' = hdr[1]
      BY <1>1, <2>3
    <3> QED
      BY <1>4, <2>1, <2>3, <3>1 DEF Whole
  <2> QED
    BY <2>2, <2>3
<1>6. ApplySound'
  BY <1>1, <1>2, <1>5 DEF ApplySound, Intact, Idle, flashVars, restoreVars
<1>7. restored' \in Setups /\ unnoted' \in BOOLEAN
  BY <1>1, <1>2, TypesOfStart
<1> QED
  BY <1>1, <1>6, <1>7, StartMoves, TypesOfStart DEF flashVars, restoreVars

(* Erasing the header at the end keeps it.                                  *)
LEMMA DoneKeeps ==
    ASSUME IInv, NEW ok \in BOOLEAN, ApplyDone(ok)
    PROVE  IInv'
<1>1. /\ phase = "clear" /\ phase' = "up" /\ kind[Idle] # "app"
      /\ \/ kind' = [kind EXCEPT ![Idle] = Blank] /\ hdr' = AllOf(Blank)
         \/ UNCHANGED <<kind, hdr>>
      /\ UNCHANGED <<run, boot, version, mark, taskVars, lent, worldVars, at, data, restored,
                     faulty, unsure, unnoted, rst, file, got, body>>
  BY DEF ApplyDone, IInv, ApplySound, silent
<1>2. ApplySound'
  BY <1>1 DEF IInv, ApplySound, Whole, HasSetup
<1> QED
  BY <1>1, <1>2, StartMoves, TypesOfStart

-----------------------------------------------------------------------------
(* The theorems.                                                           *)

(* The invariant holds when a dongle is first set up.                       *)
LEMMA InitSound == UpdateInit => IInv
<1> SUFFICES ASSUME UpdateInit
             PROVE  IInv
  OBVIOUS
<1>1. /\ run = 0 /\ boot = 0 /\ Idle = 1 /\ Slots = {0, 1}
      /\ kind = [s \in Slots |-> IF s = 0 THEN "app" ELSE "blank"]
      /\ version = [s \in Slots |-> IF s = 0 THEN 0 ELSE None]
      /\ mark = [s \in Slots |-> IF s = 0 THEN "valid" ELSE "none"]
      /\ rolledBack = None /\ probation = FALSE /\ lent = FALSE /\ asked = FALSE
      /\ task = "nap" /\ mode = "none" /\ dl = NoDownload
      /\ up = 0 /\ net \in Nets /\ cuts = 0
  BY DEF UpdateInit, OtaInit, Idle, Slots
<1>2. /\ rst = [w \in Loaders |-> "idle"] /\ file = [w \in Loaders |-> Own]
      /\ got = [w \in Loaders |-> 0] /\ body = AllOf(Blank) /\ hdr = AllOf(Blank)
      /\ phase = "up" /\ at = 0 /\ data = AllOf(Own) /\ restored = Own /\ faulty = FALSE
      /\ unsure = {} /\ unnoted = FALSE
  BY DEF UpdateInit
<1>3. dl \in Download /\ ~dl.begun /\ ~dl.garbled
  BY <1>1, OtaAssumption DEF NoDownload, Download, Versions, None
<1>4. Own \in Setups /\ 0 \in 0..Records /\ 1 \in Recs /\ 0 \in 0..MaxCuts /\ 0 \in 0..2
      /\ 0 \in Versions \cup {None} /\ None \in Versions \cup {None}
  BY UpdateAssumption, OtaAssumption DEF Setups, Recs, Versions
<1>5. {body, hdr, data} \subseteq [Recs -> Setups \cup {Blank}] /\ hdr[1] = Blank
  BY <1>2, <1>4 DEF AllOf
<1>6. Types
  BY <1>1, <1>2, <1>3, <1>4, <1>5 DEF Types, UpdateTypeOK, Blank, Download
<1>7. SlotsSound /\ DownloadSound
  BY <1>1, <1>3 DEF SlotsSound, DownloadSound
<1>8. LoanSound
  BY <1>1, <1>2 DEF LoanSound, Busy
<1>9. StagingSound /\ ApplySound
  BY <1>1, <1>2, <1>5 DEF StagingSound, AcceptedStays, ApplySound, Whole, HasSetup, AllOf
<1> QED
  BY <1>6, <1>7, <1>8, <1>9 DEF IInv

(* Every step keeps it.                                                     *)
LEMMA NextKeeps == IInv /\ [Next]_vars => IInv'
<1> SUFFICES ASSUME IInv, [Next]_vars
             PROVE  IInv'
  OBVIOUS
<1>1. CASE phase = "up" /\ OtaTask /\ UNCHANGED <<restoreVars, setupVars>>
  BY <1>1, OtaTaskKeeps
<1>2. CASE World
  BY <1>2, WorldKeeps DEF World
<1>3. CASE \E w \in Loaders : Loader(w)
  BY <1>3, EraseKeeps, PutKeeps, FinishKeeps, FailKeeps DEF Loader
<1>4. CASE \E w \in Loaders : phase = "up" /\ \E f \in Files : Borrow(w, f)
  BY <1>4, BorrowKeeps
<1>5. CASE \/ RestartToUpdate \/ RestartToRollBack \/ PowerCut
           \/ \E w \in Loaders : RestartToApply(w)
  BY <1>5, RestartsKeep
<1>6. CASE Starting
  BY <1>6, JudgeKeeps, WipeKeeps, RecordKeeps, NoteKeeps, DoneKeeps DEF Starting
<1>7. CASE UNCHANGED vars
  BY <1>7 DEF vars, otaVars, flashVars, taskVars, worldVars, restoreVars, setupVars, IInv,
     Types, UpdateTypeOK, Download, SlotsSound, DownloadSound, LoanSound, Busy, StagingSound,
     AcceptedStays, ApplySound, Whole, HasSetup, Applied, silent, Intact, Idle
<1> QED
  BY <1>1, <1>2, <1>3, <1>4, <1>5, <1>6, <1>7 DEF Next, UpdateTask

(* The inductive invariant holds throughout.                                *)
LEMMA AlwaysSound == Spec => []IInv
BY InitSound, NextKeeps, PTL DEF Spec

(* The variables keep their types.                                          *)
THEOREM TypesKept == Spec => []UpdateTypeOK
<1>1. IInv => UpdateTypeOK
  BY DEF IInv, Types
<1> QED
  BY <1>1, AlwaysSound, PTL

(* Some image always starts (ota_borrow_slot(), do_install()): a download   *)
(* or a restore that wrote to the slot of the image to go back to would     *)
(* leave a dongle whose new image fails with nothing to run.                *)
THEOREM AlwaysStarts == Spec => []SomethingStarts
<1>1. IInv => SomethingStarts
  <2> SUFFICES ASSUME IInv
               PROVE  SomethingStarts
    OBVIOUS
  <2>1. mark[run] = "pending" => kind[Idle] = "app" /\ mark[Idle] = "valid"
    BY DEF IInv, SlotsSound
  <2> QED
    BY <2>1 DEF IInv, SlotsSound, SomethingStarts, Bootable
<1> QED
  BY <1>1, AlwaysSound, PTL

(* A restore that was answered is staged whole until the restart, however   *)
(* the other loader and the update task interleave (ota_borrow_slot(),      *)
(* stage_end()).                                                            *)
THEOREM AcceptedIsKept == Spec => []AcceptedStays
<1>1. IInv => AcceptedStays
  BY DEF IInv, StagingSound
<1> QED
  BY <1>1, AlwaysSound, PTL

(* A device that is up and has logged no failures has all of one setup, the *)
(* one it says it has unless that note was not taken, and more than it only *)
(* in namespaces that could not be emptied (erase_namespace()): whatever    *)
(* power cuts interrupted staging or applying it (backup_apply_pending()).  *)
THEOREM SetupIsWhole == Spec => []SetupWhole
<1>1. IInv => SetupWhole
  BY DEF IInv, ApplySound, SetupWhole, Whole
<1> QED
  BY <1>1, AlwaysSound, PTL

(* A resumed download never leaves out or repeats a byte, whatever the      *)
(* server makes of the Range header (do_install()).                         *)
THEOREM ResumedInOrder == Spec => []ResumesInOrder
<1>1. IInv => ResumesInOrder
  BY DEF IInv, DownloadSound, ResumesInOrder
<1> QED
  BY <1>1, AlwaysSound, PTL

(* An image the bootloader gave up is not installed again automatically     *)
(* (auto_blocked()): what is remembered of it is always what the slot holds.*)
THEOREM FailedStaysOut == Spec => NeverAutoAgain
<1>1. IInv /\ [Next]_vars =>
        [ task = "check" /\ task' = "install" /\ mode = "auto" =>
            ~(mark[Idle] = "invalid" /\ kind[Idle] = "app" /\ version[Idle] = dl'.tag) ]_vars
  <2> SUFFICES ASSUME IInv, [Next]_vars, task = "check", task' = "install", mode = "auto",
                      mark[Idle] = "invalid", kind[Idle] = "app"
               PROVE  version[Idle] # dl'.tag
    OBVIOUS
  <2>1. PICK tag \in Versions, sized \in BOOLEAN : CheckAnswers(tag, sized)
    <3>1. Next
      BY DEF vars, otaVars, taskVars
    <3>2. CASE OtaTask
      BY <3>2 DEF OtaTask, Wake, CheckFails, Rests, InstallStarts, ConnectFails, Connects,
         Read, WriteFails, StreamEnds, Verify, NextAttempt
    <3>3. CASE ~OtaTask
      <4>1. CASE World
        BY <4>1 DEF World, OtaWorld, Ask, Tick, NetChanges, taskVars
      <4>2. CASE \E w \in Loaders : Loader(w)
        BY <4>2 DEF Loader, EraseHeader, StagePut, StageFinish, RestoreFails, otaVars, taskVars
      <4>3. CASE \E w \in Loaders : \E f \in Files : Borrow(w, f)
        BY <4>3 DEF Borrow, taskVars
      <4>4. CASE \/ RestartToUpdate \/ RestartToRollBack \/ PowerCut
                 \/ \E w \in Loaders : RestartToApply(w)
        BY <4>4 DEF RestartToUpdate, RestartToRollBack, GiveUp, PowerCut, RestartToApply, Restarted
      <4>5. CASE Starting
        BY <4>5 DEF Starting, ApplyNothing, ApplyLater, ApplyChecks, Wipe, ApplyRecord,
           RecordRestore, ApplyDone, Applying, taskVars
      <4> QED
        BY <3>1, <3>3, <4>1, <4>2, <4>3, <4>4, <4>5 DEF Next, UpdateTask
    <3> QED
      BY <3>2, <3>3
  <2>2. dl' = [NoDownload EXCEPT !.tag = tag, !.total = IF sized THEN Size ELSE 0]
        /\ ~AutoBlocked(tag)
    BY <2>1 DEF CheckAnswers, Rests
  <2>3. dl'.tag = tag /\ tag # rolledBack
    BY <2>2 DEF NoDownload, AutoBlocked
  <2>4. rolledBack = version[Idle]
    BY DEF IInv, SlotsSound
  <2> QED
    BY <2>3, <2>4
<1> QED
  BY <1>1, AlwaysSound, PTL DEF Spec, NeverAutoAgain
=============================================================================
