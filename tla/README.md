# A TLA+ model of the LANDA.SH firmware

The firmware (`src/main`) runs on an ESP32 dongle that joins a LAN, sweeps it,
remembers every device it has seen, names and classifies them, scans their
ports and serves the result over HTTP. This directory holds TLA+ modules for
the parts whose correctness depends on order, interruption or limits, TLC
configurations that check them on small instances, and TLAPS proofs of what
holds for any size.

* [Inventory](#inventory)
* [Modules and the code they model](#modules-and-the-code-they-model)
* [Runs, bounds and results](#runs-bounds-and-results)
* [Fairness](#fairness)
* [Proofs](#proofs)
* [What the model says about the code](#what-the-model-says-about-the-code)
* [Not modelled](#not-modelled)
* [Plan](#plan)
* [How to run](#how-to-run)

## Inventory

Tasks: the **scanner** (sweeps, reports sightings), four **discovery** tasks
(mDNS, SSDP, NBNS, reverse DNS), the **port scanner**, the **link checker**,
the **WAN monitor**, the **update** task, the **Wi-Fi worker**, **httpd** (one
task, one request at a time), timers (notification flush, Wi-Fi timers) and a
**serial reader**. They share RAM tables, each under a mutex of its own, and
three kinds of flash: the register file, NVS and the two application slots.

| Component | State it keeps | Operations | What makes it hard | What makes it correct |
|---|---|---|---|---|
| Device register (`db/dev_store.c`) | file of 192-byte slots, fingerprint per slot, number of slots, records in use | init, get, update/put, remove | full register, colliding fingerprints, failed writes, power cuts in a write | one record per device; index, count and file agree; only the unnamed record unseen longest makes way |
| Device database (`db/device_db.c`) | table of active devices, seen/changed marks, device waiting to be demoted, record read ahead | upsert_seen, mark_sweep_end, set_hostname, set_services, set_user, remove, ensure, ports, history | several locked sections per operation with flash I/O between them; table of fixed size; one MAC for several devices | no device twice, lost, or swapped out while online; what users set and discovery found survives |
| Address tracker (in `device_db.c`) | 16 (MAC, address) pairs with first/last times and a move owed | note, forget, collect moves due | telling a move, a stale ARP entry and a shared MAC apart by time windows | a shared MAC is split, a moved one is not; a move is announced once |
| Scanner (`net/scanner.c`) | probe ring, hosts seen this sweep, progress | sweep, trigger, Wi-Fi events | sweeps cut short; ARP lag; requests during a sweep | only a complete active sweep counts as evidence of absence |
| Discovery (`net/disc_*.c`) | snapshots of the table | poll, match answers to devices | answers about devices gone or moved meanwhile | a name goes to the device that has the address |
| Port scanner (`net/portscan.c`) | cursor over devices, tiers and ports; one re-scan | task loop, re-scan, settings change | devices that leave, return or are forgotten in mid-tier | no open port dropped for a device not looked at; requested re-scans happen |
| Notifications (`db/notify.c`) | ring of 48, next id, changed and armed marks | arm, push, mark read, dismiss, flush | mark cleared before the write; ids after a crash | ids unique; what is shown is saved in the end |
| Links and link checker (`db/links.c`, `net/linkcheck.c`) | list of links; result per link | add, edit, delete, move; check | list edited during a pass; result after deletion | results only for links that exist |
| WAN monitor (`net/wan.c`) | verdict, streaks, ping session | probe, commit | late callbacks, flapping | a verdict changes only after agreeing probes |
| Updates (`net/ota.c`) | state, latest, rolled-back version, pending verification, slot lent | check, install, confirm or roll back, lend slot | reboot at any point, resumed downloads, two users of one slot | a version that failed is not installed again by itself; a bad image is never booted for good |
| Backup and restore (`db/backup.c`, `ui/usb_restore.c`) | staged image in the idle slot | receive, validate, stage, apply at boot | power cuts while staging or applying | a restore is applied entirely or not at all |
| Wi-Fi manager (`net/wifi_mgr.c`) | mode, driver state, retry count, timers, queue of 12 | apply, got IP, disconnected, timers, scan | events dropped or out of order, timers firing late | the device is reachable in the end: by station or by fallback AP |
| Settings (`settings/settings.c`) | one structure, saved whole | get, set, clear Wi-Fi | read-modify-write by several tasks | a change of one field does not undo another's |
| Notes vault (`db/notes.c`) | a note and a login per link, the vault's metadata, a session key | set, unlock, lock, change passphrase, reset, forget | the passphrase changes entry by entry; sessions under an old key | every login opens under the passphrase in force; nothing outlives its link |
| Icons | files under one lock | get, set, delete | full storage | plain storage |
| Classifier, vendor table, display, button, TLS memory, tools | none that others rely on | pure functions, drawing | none | not modelled |

How they interact: the scanner, discovery, the port scanner and httpd call into
the device database; the database calls the register, always *without* holding
its own lock, so that flash I/O never blocks the table. The register has a
mutex of its own, held for a whole operation; locks are never nested, apart
from a guard around one static buffer (`get_from_register()`), taken before the
register's. Sightings lead to notifications and events; restore and updates
share the idle application slot; Wi-Fi events start and stop scanning.

The full list of hazards, each at its line and with the properties that would
catch it, is in `PROJECT.json`.

## Modules and the code they model

| Module | Models |
|---|---|
| `Register` | what `dev_store.h` promises: a bounded map from key to record, in which only records without a nickname make way |
| `DevStore` | `dev_store.c`: the file, the index in RAM, failures and power cuts; does to `Register` what its header promises, operation by operation |
| `DeviceDb` | the active table of `device_db.c` and its tasks, on top of `Register` |
| `AddrTrack` | the address tracker of `device_db.c`, with its clock, for one MAC |
| `Ota` | `ota.c` and the bootloader: check, download, probation, rollback |
| `Update` | `Ota` with the restore of a backup (`backup.c`, `usb_restore.c`), which borrows the same slot |
| `WifiMgr` | `wifi_mgr.c`, its worker, timers and driver, and the credentials in `settings.c` |
| `Sweep` | `scanner.c` with lwIP's ARP table, and what the end of a sweep does to the miss counts |
| `PortScan` | `portscan.c` with the port records of `device_db.c` and the re-scan request of the web page |
| `Links` | `links.c`, the notes and logins of links in `notes.c`, and `linkcheck.c` |
| `Feed` | `notify.c`, and `wan.c`, which writes to it |
| `DevStoreProofs`, `DeviceDbProofs`, `AddrTrackProofs`, `UpdateProofs`, `WifiMgrProofs`, `PortScanProofs`, `LinksProofs`, `FeedProofs` | theorems about the module of the name |
| `MC...` | instances for TLC |

A definition that `PROJECT.json` does not map to the code and whose comment
begins "Mutant:" is a plausible bug, kept next to the definition it would
replace; no specification uses it.

### `DevStore`

`file[i]` is slot *i* of `devices.bin`: a record (key, nickname, time last
seen), `Free` (the magic byte is not set) or `Absent` (past the end). `hash`,
`slots` and `used` are `s_hash`, `s_slots` and `s_used`. The store's mutex is
held from beginning to end of every operation, so each operation is one action;
what can go wrong inside it makes variants of the action: `UpdateFails` and
`RemoveFails` (the write is reported as failed, after some of it, all of it or
none of it reached the flash), `UpdateLost` (the write is accepted and lost when
the file is closed: `fclose()`'s result is not looked at) and `PowerCutIn...`
(the same tearing, followed by `dev_store_init()`). `Torn` says what a slot can
hold after a write that was cut short: a record spans flash pages, so head and
tail can be of different ages. Operations that change nothing (not found, no
memory, an edit function that declines) are stuttering steps. The eviction of a
victim, the write and the index update are one action, as they are in the code,
in the code's order: on failure the victim's slot stays out of the index.

`ImplementsRegister` says it of each operation by name: an update is one of
`Register`'s ways to write (replace, add, and add with an eviction only when
there is no room), a failed one and a restart change nothing, a removal removes
that record and no other. Only the steps in which the power is cut may be
`Interrupted(k)`: the record being written, and the one making way for it, may
be lost or be any mixture.

### `DeviceDb`

`tab` is `s_devices[]` with its parallel arrays `s_seen[]` and `s_dirty[]`;
`reg` is the register, changed by the actions of `Register`. Keys are MACs and
pairs `<<MAC, address>>` (`shared_id()`). `pc` is where the scanner task stands
in `device_db_upsert_seen()` or in the hourly write-back of
`device_db_mark_sweep_end()`; `pre` is `s_pre`, `job` and `flush` are the local
copies these functions carry from one locked section to the next. `user` is the
request httpd is working on. One step is one locked section or one access to
the register; in between any other task may run:

    Sighted -> ReadId -> ReadMac -> Apply -> WriteDemoted
            -> RegisterOnly | WritePrimary -> Persist -> Clean -> Announce
    SweepEnd -> (FlushTake -> FlushWrite)*
    Rename -> RenameWrite | RenameEdit     Forget -> (ForgetLookup) -> ForgetErase
    Ensure -> EnsureWrite                  SetHostname

`Apply` is the long locked section of `device_db_upsert_seen()`: find or bring
back the entry, let the address tracker judge, split off an address, make room,
update the entry. It is built from one operator per decision of the
code (`Promoted`, `Verdicts`, `Declared`, `Splits`, `Rooms`, `TableFull`,
`Settle`, put together by `Resolve`).

Abstractions, and why they are safe for the properties checked: times are left
out, so among devices that missed as many sweeps any may be demoted, and any of
the remembered devices may be loaded at boot; the tracker's verdict is any that
the code could reach, given whether the MAC was under watch, and the tracker may
forget a MAC at any sweep end; what discovery learns is the rank of the source
that named the device; presence history and ports are left out. A device's
first-seen time may or may not just have been set (`dated` in `Settle`). `hw` and
`ip` of an entry are its `hw_mac` and address; `Imports` are the entries imports
may bring, whose MAC and address the handler stores unchecked (`Imported`).
`known` is a history variable: the best name learnt for a device since it was
last forgotten, cleared where the code throws the name away.

### `AddrTrack`

One MAC with an entry in the table. `trk` are the slots of `s_addrs[]` it can
have, by address; `ip` and `shared` the entry's address and flag. `Sighted` is
the tracker's part of `device_db_upsert_seen()` (`Watched` notes the addresses,
`Judges` decides between `Declares`, `Follows` and a stale sighting), `SweepEnd`
is `collect_moves_due_locked()`. `now` is `uptime_s()`; sweeps begin one `Period`
apart, and within the time of one `Walk` the addresses that resolve are sighted
in any order, at any of its moments, once, again, or not at all; `Passes` is the
rest of the walk and of the interval after it. A sweep broken off when Wi-Fi is
lost, one asked for before its time and the sightings of passive mode, which do
not wait for a walk, are left out.
`Moves` is external: a host changes its address, comes or goes, and lwIP goes
on resolving where it was for `MaxAge` (`Resolves`). History variables: `steady`,
since when no sweep missed the host at an address; `debt`, where and when the
host last moved to, until it is told; `crowd`, `back` and `stray`, what `OnlyShared` excepts.

### `Ota` and `Update`

The two application slots have a content (`kind`: a whole image, a partial one,
a staged restore, a torn header), a version and the bootloader's `mark`; `run`
and `boot` are the slot running and the one to start next. The bootloader is
external: `MarkAtBoot` turns an image started for the first time into one on
probation, and one found still on probation into a failed one. `task` follows
`ota_task()` through `do_check()` and `do_install()`, a step for each connection,
piece of the stream and end of stream; `dl` are the locals of the download,
counted in pieces: `got` taken, `skip` still to be dropped when the server
ignored the `Range` header. `garbled` is a history variable: a piece went to the
wrong place. Images have a header of a few pieces (`HeadLen`), which names the
version.

In `Update`, `rst[w]` is what the restore received by loader `w` (httpd or the
serial task) is doing: `Borrow`, `EraseHeader`, `StagePut` per record,
`StageFinish`. At a start `phase` follows `backup_apply_pending()`: the header
and digest are checked, the setup wiped, the records written, the origin
recorded, the header erased; then everything else runs. `PowerCut` comes between
any two steps, and `AfterHeaderWrite` says what the sector being written may
hold. `data` is the setup by record, a record standing for a namespace or the
storage partition: all of a file, nothing, or keys of two (`Mixed`). Each of
these steps may fail: a namespace that cannot be emptied (`erase_namespace()`
tells nobody), a record that cannot be written (counted), or is accepted and lost
when its namespace is committed or its file closed (not looked at), the note that
is not taken, the header that is not erased. `unsure` and `unnoted` are history
variables: what went wrong without being logged.

Left out: announcements, progress, the delay before a restart; reads of the
staged image at a start are taken to succeed (a failed one ends the loop and is
counted, as if the remaining records could not be written). Time only matters to
an image on probation: `up` is 0, past the time after which it may be confirmed,
past the deadline.

### `WifiMgr`

`queue` is the worker's queue, `armed` its timers, `drv` the driver: mode, link,
configured credentials and the events not yet delivered by the event task
(`Deliver`). One action per message: `ApplyFirst`, `ApplyNone` and `ApplyCreds`
with `ApplyRest` for the paths through `handle_apply()`, `GotIp`, `Down`,
`RetryDue`, `WindowOver`, `LingerOver`. `hasIp` is set by the event task, not by
the worker, which is what makes messages stale. httpd's scan
(`ScanBorrows`, `ScanReturns`) may switch the interface under the worker's feet;
its PUT of the settings reads (`PatchReads`) and writes back (`PatchSaves`) the
whole structure, and the button clears the credentials (`Reset`) and restarts.
Delays and the attempt counter are left out: a timer is armed or not. An event
waits while the queue is full (it has 12 places in the code). The driver may
refuse a change of mode, or to start (`Outcomes`; `refused` remembers it): the
worker logs that and goes on as if it had not, `s_ap_fallback` set before
`ensure_ap_up()` included. `misled` is a history variable: the worker handled an
address that other credentials had led to.

### `Sweep`

Time is counted in slots of the paced walk. `ring` holds the probes in flight
with their age, `arp` lwIP's table, least recently updated first: an entry is
stable (answered) or pending, a full table recycles the oldest stable one, and a
pending one is given up after `Life` slots. The task goes
`wait -> settle -> start -> (probe -> pace)* -> last -> snapshot -> mark`; losing
Wi-Fi or too many failed sends in a row end the sweep without `Mark`.
`seen` and `miss` are the marks and miss counts of the device database for the
addresses of the subnet.

### `PortScan`

`reg` is what the register has of a device's ports (tiers done, age, open ports),
`ram` the copy the scanner reads. `pc` is where `portscan_task()` stands: top of
the loop (settings), a jump asked for, picking a device
(`Unscanned`, `Unfinished`, `Due` are the three passes of
`next_device_for_tier()`), a batch, recording an open port, moving on,
finishing a tier, recording which ports have closed. `web` is the handler of
`POST .../portscan`: clear in RAM, clear in the register, jump, each a locked
section of its own. A batch is one port. The task takes the device's address
down when it picks it and never looks again: `cur.own` says whether it is still
the device's (`Readdresses`); at an address that is not, anything may answer.
A connect may also fail, or take too long, though the port is open. `looked` is a
history variable: the ports probed since the device's list was cleared; `doubt`:
the ports that were shut, whose connect failed, or whose device was away or at
another address, at some time since the re-scan began; `crossed`: devices one of
whose tiers ended in the middle of a request to scan them anew.

### `Links`

`list` is the whole blob of `links.c` (links, headings, next ids), `saved` the
copy in flash; every change rewrites it, possibly without success and without
notice. `notes` and `secrets` are the entries of `notes.c`; a login is the
number of the key it is encrypted under, `meta` the key of the vault and
`session` the one held while it is unlocked; `known` is the index of logins in
RAM (`s_lsec_ids`), which a change of passphrase and a reset go by and a start
rebuilds from flash. A request that takes several writes (removing links, note,
login and result one link after another; changing the passphrase; resetting the
vault) leaves the rest in `job`; the checker's steps and power cuts come between.
Every one of these writes may fail: the code gives up a change of passphrase,
and goes on with everything else, whose results it does not look at; a start may
find the list unreadable and take it for empty. `left` and `lost` are history
variables: links whose note or login may have been left behind, and logins that
a reset did not erase. The
checker (`chk`) walks the list by position, probes without a lock and records
by id in the bounded table `recs`.

### `Feed`

`feed` is the ring and the next id; `FlushTakes` clears the changed mark and
copies under the lock, `FlushWrites` or `FlushFails` follow without it. The
monitor goes through `Drains` (what an earlier check's callbacks left), `Sends`,
`Takes` or `GivesUp`, `Commits` and `Tells`. `ping` are the echoes whose end was
not reported yet; one given up is `late` and its callbacks may come at any later
moment, even during another check. Giving up counts as a fault. Two things are
taken for granted: a start reads the feed back (a `load_locked()` that fails
leaves an empty one with ids from 1, as for the links), and a check does not
start while an echo of an earlier one is unfinished and not given up, which the
interval ensures and `wan_check_now()` does not.

## Runs, bounds and results

| Run | Instance | Shows |
|---|---|---|
| `store` | 3 keys (two with one fingerprint), 2 slots, 2 faults, 2 times, 1 nickname | `UsedIsCount`, `OneRecordPerKey`, `NamedStays`, `ImplementsRegister` |
| `db_quiet` | 3 MACs at one address, table of 2, register that holds all | `OneEntryPerDevice`, `NothingLost`, `EveryDeviceRecorded`, `NewIsNew`, `OnlineStays` |
| `db_users` | 1 MAC at 2 addresses (3 keys), table of 2, register of 1; rename, forget, import | `SplitAtHome`, `SilentGoesOffline`, `DirtyIsWritten` |
| `update` | 2 versions; images of 3 pieces, 2 of them header; 2 attempts; 1 backup of 2 records, from the web or USB; 1 power cut | `UpdateTypeOK`, `SomethingStarts`, `AcceptedStays`, `SetupWhole`, `ResumesInOrder`, `NeverAutoAgain`, `ProbationEnds`, `AcceptedApplied` |
| `wifi` | right and wrong credentials; network in reach, gone, or without DHCP; 2 messages and 1 event waiting, 2 changes of the settings | `SettledIsTrue`, `SomeWayIn`, `Reconnects` |
| `sweep` | 3 addresses, 2 hosts at most; ring of 2, ARP table of 4, lag of 2 slots, 2 misses tolerated; 2 mishaps, 1 host leaving or coming | `HereStaysOnline`, `GoneGoesOffline` |
| `ports` | 2 devices, 2 tiers that overlap (ports 1 and 2, port 1), 1 port recorded at most, re-scans of both tiers; 2 events (a request, a restart, a device leaving or returning, a port opened or shut, a change of address, a connect that fails) | `TiersInOrder`, `KeepsOpen`, `EveryoneScanned` |
| `links` | 2 links at a time, 3 ever, 2 headings, 2 passphrases, 5 requests, 1 fault (power cut, failed save, failed erasure, list not read) | `LinksTypeOK`, `NothingLeftBehind`, `SecretsOpen`, `StartsClean`, `EveryLinkChecked` |
| `feed` | ring of 2, 2 notifications, a run of 2 checks, 1 fault (crash, failed save or late callback) | `FeedTypeOK`, `FeedKept`, `VerdictSettles` |
| `track` | 3 addresses, each with a slot, 2 hosts; a sweep every 2 units, a walk of 1, windows of 1 (ARP), 2 (confirmation) and 3 (expiry); 7 sweeps, 3 moves | `OnlyShared`, `EntryFollows`, `SharedIsFound`, `MovesAreTold` |
| `db_rename` | 1 device, rename | violates `NicknameSticks` |
| `track_slow` | 2 addresses, each with a slot, 2 hosts; a sweep every 4 units, a walk of 2, windows of 2, 3 and 5; 6 sweeps, 2 moves | violates `SharedIsFound` |

`TypeOK` (of `DevStore` and of `DeviceDb`), `PortScanTypeOK`, `WifiTypeOK`,
`SweepTypeOK` and `TrackTypeOK` say what the variables range over and are not
listed in a run. The first three are proved; the others hold of the instances
above.

Why these bounds are enough.

* `store`: two slots for three keys is the smallest register that can be full,
  hold a victim and a bystander and still have a newcomer, and two keys of one
  fingerprint next to a third exercise both collision and non-collision; two
  faults let a second failure meet the damage of the first. Three slots, four
  keys and one fault also pass (40 379 states).
* `db_*`: three devices for two places give a newcomer, a victim and a
  survivor, and let the victim return. In `db_quiet` the threshold is two missed
  sweeps and the count stops at three, so that a device can be absent without
  being offline and the count reaches its limit. In `db_users` the register
  holds one device, so that every insertion there evicts or is refused, and the
  table two of three: an entry can move into the gap of one removed, behind the
  index of the write-back. Its threshold is one missed sweep, which does not tell
  a comparison with exactly the threshold from one with at least that. Imports
  there say where a split device belongs; those that say elsewhere are covered by
  the proof.
* `track`: the windows keep the order they have in the code (ARP's lifetime <
  confirmation < expiry), the interval and a walk just fit in the confirmation
  (`Period + Walk = Confirm + 1`), and seven sweeps last as long as the
  longest wait a property speaks of and one sweep more. The third address is
  one a stale sighting can take the entry to between a move and its news. Three
  moves are come, move and return, or come, come and move. With windows of 3, 4
  and 5, a sweep every 3 units and a walk of 2 the properties hold as well, for
  three addresses and one host (7.2 million states) and for two of each (15.6
  million). With fewer slots than addresses `OnlyShared` and `EntryFollows` hold
  (they are proved for any number) and the others, which ask for a slot each, do
  not.
* `update`: one power cut is enough to interrupt any one step, and the
  properties are about what it leaves; steps of applying may fail any number of
  times; a second version gives releases that
  are newer, the same, older once it is installed, and rolled back; the header takes more than one piece, so a stream can
  break inside it; two attempts give one resumption.
* `wifi`: two credentials tell a wrong network from the right one and from none;
  two changes let one overtake another; more waiting messages only lengthen the
  same delay.
* `sweep`: the ring is full after two probes and the table of four overflows
  only if the walk asks more than it should; as many mishaps as misses are
  tolerated is what `HereStaysOnline` needs to be sharp.
* `ports`: two devices make the choice a choice, two tiers make order matter,
  and one recorded port makes the list overflow; two events let a device leave
  and return, change its address in mid re-scan, or a request meet a departure.
* `links`: three ids for two places let an id be reused if the code would; five
  requests are add, note, set passphrase, login, remove. One fault meets every
  step, but not the damage of another: that a login which outlived a reset is in
  the index again after a restart takes two faults. With two the properties hold
  as well (1.3 million states), and they are proved for any number.
* `feed`: a ring of two is the smallest that has an order. It does not overflow
  with two notifications; one that does is covered by the proof (three
  notifications make more than three million states). A run of two is the
  shortest that differs from a single failure (the code's, `WAN_FAIL_STREAK`, is
  three), and one late callback meets every step of the next check.

Every bound is a constant whose name begins with `Max`, or is named in the
comment of its declaration; the sizes of tables (`Ring`, `Table`, `MaxActive`,
`MaxLinks`, ...) are limits of the code, made small.

What the instances leave out, because the code does not have the property
there: with a register too small for the table, a record can be evicted while
its device is active, so `EveryDeviceRecorded` is checked with room for all;
`NewIsNew` and `NothingLost` are checked in `db_quiet` with one address, where no
MAC is ever split; `SplitAtHome` excepts a key of which an import says something
else; `TiersInOrder` the devices in `crossed`, `KeepsOpen` the ports in `doubt`,
`NothingLeftBehind` the links in `left` and both it and `StartsClean` a list that
was not saved or not read, `SecretsOpen` a `torn` change and the logins in `lost`,
`EveryLinkChecked` asks for a result only where the table has room for it;
`Reconnects` and `SettledIsTrue` except an `overridden` interface and (the address
apart) a driver that `refused`, `SomeWayIn` the latter and a worker that was
`misled`, `SetupWhole` logged failures and what is `unsure` or `unnoted`,
`NeverAutoAgain` a slot a restore has overwritten, `FeedKept` a save that failed,
`OnlyShared` and `EntryFollows` a host that came `back` or went astray (`stray`).
Each is explained below.

## Fairness

In general: a task or timer that can run does so in the end (weak fairness of
its steps), for FreeRTOS tasks block on nothing but mutexes held for bounded
times; nothing is assumed of users, devices, crashes or reboots. In detail:

* `DeviceDb`: besides, sweeps keep reaching their end with the hourly write-back
  due (strong fairness of `SweepEnd(TRUE)`: between any two operations more
  sightings may come, but a sweep visits finitely many hosts, and an hour
  passes). It does not hold with `passive_only`, or while every sweep is cut
  short: then nothing ages, by design (`scanner.c`: "only an active walk is
  evidence of absence").
* `Update`: the update task, the start sequence, the clock of an image on
  probation, and both loaders, whose reads time out.
* `WifiMgr`: the worker, the event task, armed timers, a scan and a request
  under way; and the network, when the dongle is joining it, either gives an
  address or breaks the link.
* `Sweep`: the task; a host asked for its address answers; lwIP forgets a host
  that no longer answers (strong fairness: it can only happen between sweeps
  here); Wi-Fi comes back.
* `PortScan`: the task, with strong fairness of a batch, for a socket may be
  unavailable any number of times but not for ever; the web page finishes its
  request, scanning is allowed again, a device that is there is noticed.
* `Links`: the request at hand and the checker.
* `Feed`: the monitor, the ping session and the flush timer.

## Proofs

Every theorem is about the specification of a module as TLC runs it, for all
values of its constants that satisfy the `ASSUME` of the module. Each follows
from an inductive invariant, given at the top of its module in named parts with
a comment on each; TLC checked it on the instances above before it was proved.
A proof has one lemma per action, or per group of actions that disturb the same
parts, and the lemmas about the module's operators come first.

### The register: `DevStoreProofs`

For any set of keys, any fingerprints other than zero, any capacity and any
number of faults:

* `StoreConsistent`: `TypeOK`, `UsedIsCount` and `IndexInFile` always hold,
  whatever writes fail, are lost or are cut short;
* `StoreFaithful`: until a write fails, `IndexMatchesFile` and
  `OneRecordPerKey` hold, through power cuts and reboots;
* `StoreIsRegister`: until then, `DevStore` implements `Register` operation by
  operation (`ImplementsRegister`): a record makes way only when there is no
  room, a removed one stays removed, a restart changes nothing, and only a power
  cut in the middle of a write may lose what it was about;
* `NamedIsKept`: a device with a nickname is only forgotten when that is asked
  for (`NamedStays`), whatever failed before.

(`TypeOK`, `IndexInFile` and `IndexMatchesFile` are proved only; no run repeats
them.)

The inductive invariant of the first, `Consistent`, is the conjunction itself:
the counter can only be shown not to wrap below zero, or past the capacity,
because it *is* the number of slots in use (`CountTaken`, `CountFreed`), and the
slot a new record is to go to can only be shown to be free when it is beyond
the known end of the file (`TargetIsSlot`). The second adds the two
properties to it, `Faithful`: because the index is the one of the file, the
search by fingerprint finds the record of a key if there is one, so the slot
written is the only one that can hold that key (`OwnSlot`), and a torn write
leaves in it the key of the old content or of the new (`TornWrite`,
`StillOneEach`).

The refinement maps the register to `Contents`, what `dev_store_get()` would
answer: under `Faithful` that is the one record in the file (`Answered`), a
write of one slot changes the answer for no other device (`OthersStay`), and
the file has room exactly when the register is not full (`CountRemembered`), so
that an eviction in the file is one the register allows. `NamedStays` cannot use
`Faithful`, for it also holds after faults: it is proved from `Consistent` and
from what a write may do to the one slot it touches.

Assumptions are those of `DevStore`: at least one slot, fingerprints positive
(`key_hash()` maps 0 to 1), the empty nickname is no nickname, and the markers
for free and absent slots are no records.

### The active table: `DeviceDbProofs`

For any devices and addresses, any sizes of table, register and boot load, and
any requests of users:

* `TableSound`: `TypeOK` and `OneEntryPerDevice` always hold;
* `NobodyAroundLeaves`: `OnlineStays`, for every step;
* `SplitStaysHome`: `SplitAtHome` always holds: a device split off a shared MAC
  is where its key says, if no import has said otherwise of that key.

`OneEntryPerDevice` is not inductive: it rests on what the tasks carry between
locked sections. `Inv` adds that a record read ahead belongs to one of the two
keys the sighting can be about, and is only kept until it is used
(`ReadAheadOK`; without it a stale record could bring back a device that
already has an entry); that a step about to write has something to write
(`Writable`, `UserOK`); and that the write-back's position is in the table or
past its end (`FlushOK`). The table is followed through a sighting piece by
piece: `PromotedFacts`, `DeclaredFacts`, `RoomsAreGood`, `SettleFacts`, each
saying that the table it leaves is `Good` and `Keeps` everyone who is around;
`DroppedIsGood` is the swap of the last entry into a gap. `SplitAtHome` is about
the table, and needs the same of the register and of every copy on its way
(`AllAtHome`): any of them may become the next entry.

Three properties of the run `db_quiet` hold under hypotheses, which the theorems
state, and for any number of devices, size of table and rank of sources:

* `ActiveIsRecorded`: `EveryDeviceRecorded`, if the register has room for every
  key (`RoomForAll`) and nobody asks to forget a device. Renames, imports,
  reboots and shared MACs are included. Both hypotheses are needed: a full
  register evicts the record of an active device, and a device seen between
  leaving the table and the erasure of its record, both for a request to forget
  it, stays in the table without one. Its
  invariant, `Recorded`: an active device without a record is the one the
  scanner is about to write (`Pending`).
* `NewMacIsNew` and `NewcomersAreNew`: while users ask for nothing, the scanner
  announces a MAC as new only if the register has no record of it, and nothing
  else as new if no MAC answers at two addresses (`OneAddress`; then no entry is
  split off). Invariant `LookedUp`: a record read ahead still is the record when
  it is used, and none read means there is none. Requests break this, for they
  write records between the reading and the locked section.
* `NamesOutlive`: `NothingLost`, under all three hypotheses. Invariant
  `NamesKept`: an entry has the best name known; a record has one no better; the
  record of a device that is neither active nor leaving has that very name, a
  copy leaving the table carries it, and every other copy under way is between
  its record and its entry in age, so writing it loses nothing. The case that
  breaks it with two addresses is among the hazards: an address split off a
  shared MAC returns after its entry was demoted.

In the model an address matters only for telling hosts behind one MAC apart, so
`OneAddress` stands for a network in which no MAC is shared, not for one with a
single device.

The assumptions are those of `DeviceDb`: at least one place in the table and no
more loaded at boot than fit, misses that can pass the threshold, finitely many
MACs and addresses (for the number of records to be one), split keys that are no
MACs (`shared_id()` sets the multicast bit, which no device's own address has;
that its 40 bits of hash never collide is an idealisation), and a value for
"nothing" that is no key, record or copy of an entry.

### The address tracker: `AddrTrackProofs`

For any number of addresses, hosts and slots, any interval between sweeps, and
any windows such that an ARP entry dies sooner than the confirmation window and
that is no longer than the expiry:

* `OneHostIsOne`: `OnlyShared`; `EntryIsThere`: `EntryFollows`.

If moreover a walk and the interval after it fit in the window (`Dense`:
`Period + Walk <= Confirm + 1`):

* `HostsAreFound`: `SharedIsFound`; `MovesTold`: `MovesAreTold`.

`Dense` holds of the settings as shipped: two minutes between sweeps and 16
hosts a second (`Kconfig.projbuild`), so 16 seconds to walk a /24, against a
window of 360. It is needed: `track_slow` is an instance without it. Nothing in
the code ensures it, for the interval can be set to a day and the rate to one
host a second, at which a walk alone takes four minutes.

The first two are about one host at a time (`Quiet`), and rest on comparing any two
addresses in the tracker: one of them is `Over`, as seen from the other. Its
host had left it by the time the other was first sighted, so that no sighting
of it can come later than an ARP entry lasts, or it has gone unseen for so long
that its next sighting counts as a first one. Two addresses of which one is over
are never alive at the same time, which is the first theorem. That every pair
stays so (`Apart`) needs the latest of the addresses to be the one the entry is
at (`Latest`), what is known of an entry whose address has lost its slot
(`Adrift`), and that nobody else is ever sighted late (`Silent`). The second is
`Home`. The attempt to prove these showed what the exceptions had to be: `stray`
was found by it.

`HostsAreFound` follows two hosts that every sweep has found since a time `s`
(`InPairs`). Each is in the table since before the second sighting after `s`, or
has no slot only because it is where the entry is and nothing is under watch
(`Noticed`), and no slot is lost between two sweeps (`Followed`). Once both have
been sighted in a walk later than the window, the later of the two sightings
declares the MAC shared; so at each time that it is not declared, `s` is recent
enough. `MovesTold` follows the debt (`InDebt`): only the entry's address owes
news, and owes them of an address in the table (`OneOwes`); while a move is
untold the entry either owes news at the new address or is elsewhere because a
sighting of an ARP entry, which cannot come late, has taken it back (`Unpaid`);
every other address was last seen at most `Longest` after the move, so the debt
falls due a window later. That the news name no address where that sweep found
a host is `ToldOf`, from `InTime`: what was sighted in this walk is not quiet.

These proofs corrected the model. The bound of `SharedIsFound` was `3 * Period`
past the window and is false if a walk takes time (a counterexample has a window
of 7 and a sweep every 3); `MovesAreTold` was false with three addresses, for a
stray one, and for a sighting of a third address between the move and its news.

### Updates and restores: `UpdateProofs`

For any versions, pieces, attempts, records, loaders, backups and power cuts:

* `TypesKept`: `UpdateTypeOK`; `AlwaysStarts`: `SomethingStarts`;
  `AcceptedIsKept`: `AcceptedStays`; `SetupIsWhole`: `SetupWhole`;
  `ResumedInOrder`: `ResumesInOrder`; `FailedStaysOut`: `NeverAutoAgain`, for
  every step.

The slot that is not running belongs to one user at a time (`LoanSound`): a
loader, the download or nobody, which is what keeps a staged restore
(`StagingSound`). The running slot holds an image that is confirmed or on
probation, and in the second case the other one is confirmed (`SlotsSound`);
a download never begins to write while the running one is on probation
(`DownloadSound`), and the slot is not lent then. `ApplySound` follows the
start: until the staged header is erased what is staged is whole, so a start
interrupted anywhere begins again with the same. While it is applied, a record is
empty before it is written, or among the `unsure`; what is written is what was
staged (`Applied`), or `unsure` as well.

### Wi-Fi: `WifiMgrProofs`

For any credentials, any length of the queue and any number of events waiting:

* `SettledIsSo`: `SettledIsTrue`; `WayIn`: `SomeWayIn`.

The address is noted when the driver's event is delivered and forgotten when
the worker takes a message, so what `hasIp` says lags behind in two ways.
`Linked` says what is on the way between: if the link is up, no disconnection is
waiting anywhere and the events still to be delivered, read in order, end with
the address there (`Tells`); if it is not, a disconnection is waiting, or they
end without it. For that to survive the delivery of a disconnection, no address
may be waiting behind one (`DownLast`). A call of the driver appends at most one
event and keeps `Linked` (`LinkedCalls`), taking the head keeps `Tells`
(`TellsTaken`). With both queues empty `Linked` is the theorem. `Configured` says
what the driver was last told, but for a scan under way and a driver that
refused; `Tried` is `SomeWayIn` with the case that an address came and its
message waits.

### Port scanner: `PortScanProofs`

For any devices, tiers (any sequences of ports, overlapping or not) and limits:

* `TypesKept`: `PortScanTypeOK`; `ScannedInOrder`: `TiersInOrder`;
  `OpenPortsKept`: `KeepsOpen`, for every step.

`ProgressSound` says it of the device at hand as well: the ports the cursor is
past, and all of the tiers below, were probed (`Behind`), unless a request to
scan it anew is on the way. `RescanSound` says what each of those was found to
be in a re-scan: recorded as open, or in doubt; and that all ports are in doubt
of a device that is away or no longer at the address taken down. `PlaceSound`
ties the cursor and the loop's place together.

### Links and vault: `LinksProofs`

For any numbers of links, headings, passphrases, requests and faults:

* `TypesKept`: `LinksTypeOK`; `LinksTakeTheirs`: `NothingLeftBehind`;
  `LoginsOpen`: `SecretsOpen`; `NewLinksAreClean`: `StartsClean`, for every step.

`SecretsOpen` and `NothingLeftBehind` are inductive together with what a request
cut into steps has left to do (`JobSound`, `VaultSound`, `LeftSound`), and with
the index in RAM: it misses only logins that a reset did not erase
(`IndexSound`), so a change of passphrase rewrites all others. That an unreadable
list may be taken for an empty one costs nothing but `left`: an empty list is
sound (`EmptyIsSound`).
`StartsClean` needs that everything kept is about ids handed out already
(`CheckSound` and `LeftSound`), also what the checker holds while it probes a
link that is gone.

### Feed and monitor: `FeedProofs`

For a ring of any size, any streak and any number of notifications:

* `TypesKept`: `FeedTypeOK`, which has the ring, the copy being written and the
  one in flash in the order the ids were given and within the ring, no
  notification under another's id or one still to be given, the copies not ahead
  of the ring (`LaterCopy`), and at most one late end of an echo besides the
  check's own.

### Only model-checked

* Liveness (`SilentGoesOffline`, `DirtyIsWritten`, `ProbationEnds`,
  `AcceptedApplied`, `Reconnects`, `GoneGoesOffline`, `EveryoneScanned`, `EveryLinkChecked`, `FeedKept`, `VerdictSettles`), which is
  out of the prover's reach.
* `HereStaysOnline` of `Sweep`: its invariant would have to follow the ring, the
  ARP table and the walk of a whole sweep together.

## What the model says about the code

Two statements of comments and documents do not hold of the code, each shown by
a violation run:

* **A rename can be undone** (`db_rename`). `dev_store.h:110-111` promises that
  tasks editing different fields cannot undo each other; `store_device()` writes
  every field of a copy taken earlier. The copy of a new device, taken before a
  rename and written after it, puts the old nickname back in the register.
* **With slow sweeps a shared MAC is never found** (`track_slow`).
  `docs/API.md:193-206` says that the firmware recognises several devices behind
  one MAC when an address still answers more than six minutes after the device
  has moved away. The scan interval can be set to a day (`settings.c:137-140`).
  With sweeps further apart than `SHARED_CONFIRM_S`, `addr_note_locked()`
  (`device_db.c:200-201`) counts an address as appearing afresh at every sweep,
  so no two are ever alive at once, and the entry flips between them.

Noted while modelling. These are the exceptions the properties make, and what
they leave out:

*Device database.*

* A returning split address is taken for a stranger: the register is only looked
  in when neither the MAC nor the address is active (`device_db.c:1486-1489`),
  so with the MAC's own entry active, an address whose entry was demoted gets a
  blank one, is announced as new, and its record is overwritten.
* Two demotions, one place to keep them: bringing back a shared MAC's entry and
  splitting an address off it in one sighting makes room twice, and the second
  overwrites `s_demoted` before the first was written (`device_db.c:402`).
* A name found between the write of a new device's record and the second locked
  section (`device_db.c:1680-1686`) is marked as written without being so; it is
  written when the device is next sighted and an hour has passed, unless there
  is a reboot first.
* A device forgotten while a copy of it is on its way to the register comes
  back, because `store_device()` creates the record if it is not there.
* After a failed write of a newcomer over its victim, the victim is out of the
  index but still in the file until the slot is used again; recorded again in
  another slot, it has two records after a restart. `OneRecordPerKey` is stated
  until a write fails.
* A device demoted after one missed sweep returns with a miss count of 255 and
  is announced as back online, though it was never declared offline.
* When the table is full, a MAC declared shared in the same sighting is not
  stored, and one seen at another of its addresses has its record's address
  overwritten by `edit_seen()`.
* An import of a split device is stored with whatever MAC and address it says
  (`device_db_ensure_shared()`, `device_db.c:2033-2056`), or none if it says none
  (2004-2011); nothing compares them with the key. The device is then remembered
  where it is not, until it is next sighted: the exception of `SplitAtHome`.

*Address tracker.*

* `docs/API.md:207-208` and the comment at `device_db.c:1550-1554` say that
  sightings at the old address do not move the entry back. When the move is
  found the old address is noted with the same `first_s` as the new one
  (`device_db.c:1527-1530`), and line 1556 compares them with `>=`: the next
  sighting of the stale ARP entry does move it back, and the one after at the
  new address forth again, until the ARP entry has died. Stated for `AddrTrack`
  as "no step takes the entry from where the host moved to back to where it
  was", TLC refutes it in five steps. The news come in time all the same
  (`MovesAreTold`). But a stale sighting of a third address can take the entry
  there in between, and then they name that address as the one left, not the one
  the host moved from.
* A host that comes back to an address within the confirmation window of having
  been found elsewhere, counting from the end of the ARP entry, can be declared
  shared though it is one host (`back`).
* With more addresses behind a MAC than slots, they evict each other, a move is
  told at the next sweep end, and the MAC is not found to be shared.
* A host that passed through two addresses quickly and went on, and whose ARP
  entry at the second is first sighted when it is elsewhere (`stray`): the stale
  address counts as the newest, the entry follows it, and the sightings of the
  host where it is are taken for stale, for its address is the older one. The
  entry is not led back, against `docs/API.md:207-208` and `1446-1447`. An hour
  later, when that address has expired, the MAC can even be declared shared
  though one host is there, against the comment at `device_db.c:205-208` ("A
  stale ARP entry cannot manage that"). TLC finds it with three addresses and
  one host if `stray` is not excepted.

*Updates and restores.*

* A restore overwrites the rolled-back image whose version `inspect_boot()`
  reads (`ota.c:670-687`), so that version is installed again by itself at the
  next check. `NeverAutoAgain` is about an image still in its slot.
* `erase_namespace()` (`backup.c:1156-1166`) returns without a word when it
  cannot open or empty a namespace, and nothing is counted: keys that the backup
  does not have stay among those it has, and the restore is reported as complete.
  So is a restore of which a record was accepted and lost at `nvs_commit()` or
  `fclose()` (1227, 1274), whose results are not looked at: the `unsure` records
  of `SetupWhole`. `record_restore()` (1279-1302) fails as quietly, and the
  dongle goes on saying where its former setup was from (`unnoted`).
* The feed's "was" version is written before the restart: after a rollback it
  names the new image as an update that took place.
* A power cut while applying, and then no memory at the next start
  (`backup.c:1315-1321`), leaves the half-written setup in use until a later
  start: the `faulty` exception of `SetupWhole`.

*Wi-Fi.*

* The button's reset can be undone: `README.md:80-82` promises that holding it
  forgets the Wi-Fi details; a settings request that copied the settings before
  (`PatchReads`) writes them back whole (`PatchSaves`, `http_server.c:1590`)
  before the restart 1.5 seconds later.
* After the first address, losing the network does not open the setup access
  point again: `SomeWayIn` is stated until `joined`.
* A message that an address was obtained, handled after the link was lost or
  after other credentials were applied, stops the window that was opened for them
  (`handle_got_ip()`, `wifi_mgr.c:753-755`), and nothing opens it again; the
  retries go on. If the new credentials are wrong the setup access point never
  comes up, against `wifi_mgr.c:11-13` ("Still down after that -> APSTA"). Without
  the exception (`misled`) TLC refutes `SomeWayIn` in ten states: credentials are
  applied, joined, and others saved while the address is on its way; the address
  is delivered after the apply message, and handled after it.
* `handle_fallback_timer()` sets `s_ap_fallback` before `ensure_ap_up()` and does
  not look whether that succeeded (`wifi_mgr.c:821-826`); `start_driver()` returns
  nothing (586-622). If the driver refuses the mode once, the access point is
  taken to be up and not tried again until the credentials are cleared or the
  dongle restarts: new credentials do not open a window either, for
  `begin_sta_window()` (473-482) goes by the same flag. Without the exception
  (`refused`) TLC refutes `SomeWayIn` in four states: apply, the timer fires, its
  message is handled, and the driver refuses.
* A scan that ends after the worker switched the interface switches it back
  (`overridden`).
* Of the messages that a full queue would drop, losing "disconnected" is the one
  that matters: retries would stop until the next change of settings.

*Sweep.*

* The walk keeps probes within the ARP table's capacity only while requests come
  no faster than lwIP gives them up: at 64 probes a second, the highest setting
  (`settings.c:142-145`), five seconds of unanswered requests are 320, more than
  the table's 192, and stable entries may go before they are read; at the
  default 16 they do not. `CMakeLists.txt:15-24` says as much ("as far as
  ~30/s"); the setting allows more.
* The result of the last wait is not looked at: Wi-Fi lost there does not cut the
  sweep short, which counts as a mishap.
* A trigger between the end of a sweep and the wait for the next is swallowed.

*Port scanner.*

* A re-scan request meets a tier that is just ending: the tier is recorded as
  done with an empty list, and the device counts as scanned to it (`crossed`).
* A device that leaves in mid re-scan and is still counted online at its end (a
  device is offline only after several misses) loses the ports not found, though
  `portscan.c:247-252` means to keep them.
* So does a device that changes its address in mid re-scan, present all the time:
  the address was taken down when it was picked (`portscan.c:478, 503, 537`), every
  probe goes there (725), and at the end only the device is asked to be online.
  Whatever has the old address by then is probed in its place, and its open ports
  are recorded as the device's.
* A connect that times out, or fails for want of memory, counts as a shut port
  (`portscan.c:366-370, 404-420`); in a re-scan that drops an open one. These three
  are the `doubt` of `KeepsOpen`.
* The port count in RAM can be behind the record after the hourly write-back.

*Links.*

* A removal cut short by a power cut leaves the note and login of a link that is
  gone (`left`). So does one whose erasures fail: `links_remove()` and
  `links_reorder()` ignore what `link_note_forget()` and `link_secret_forget()`
  return (`links.c:326-327, 382-383`).
* A blob that was not saved, unnoticed, brings links back at the next start and
  uses ids again; one that cannot be read at a start, for want of memory too
  (`links.c:164-178`), is taken for empty, and the ids begin with 1 again while
  notes and logins under them are still there.
* A reset of the vault erases no login if there is no memory for the list of
  them, and goes on when an erasure fails (`notes.c:756-766`); it then erases the
  metadata, empties the index and answers OK. Those logins are under a key that
  is gone (`lost`). At the next start they are in the index again, and every later
  change of passphrase is refused because of them, until each is written anew or
  its link removed.
* A change of passphrase that fails half-way leaves logins under two keys, only
  one of which is the vault's (`torn`); the comment at `notes.c:684-688` is
  about unreadable logins, which are found before anything is written.
* A result recorded after `linkcheck_forget()` takes a place in the table for
  good; with enough of them a link is never recorded (`RoomToRecord`).
* The 255th heading's id is given again. A PATCH of a link saves its note before
  it may refuse the rest.

*Feed and internet monitor.*

* A failed flush is not tried again before the next change (the exception of
  `FeedKept`), and after a crash ids handed out since the last flush are handed
  out again, against `notify.h:61`.
* From "unknown" or "degraded" a single failed check moves the verdict; the run
  of failures is only required from "up". A verdict that passes through
  "unknown" on its way back up is not announced as "back".
* A LAN lost during a check can give the verdict "down" for one check.

## Not modelled

* Presence history and the event ring (arrays advanced by a clock), icons (plain
  files), making a backup (only reads), notes of devices (as those of links).
* Cryptography, JSON, HTTP routing and authentication, parsing of packets and of
  the serial framing, the classifier, the vendor table, drawing: functions of
  bytes, with no order of events to get wrong.
* Factory reset and the migration from an old NVS layout: straight sequences,
  run once.

## Plan

Done: the modules above, checked, and the theorems above, proved. Next:

1. `HereStaysOnline` of `Sweep`, for any number of hosts and addresses.
2. `WifiTypeOK`, from the bound of the queue; `TrackTypeOK`.

## How to run

    tlc -config MCDevStore.cfg MCDevStore
    tlc -config MCDeviceDb_quiet.cfg MCDeviceDb
    tlc -config MCAddrTrack.cfg MCAddrTrack
    tlc -config MCUpdate.cfg MCUpdate
    tlc -config MCWifiMgr.cfg MCWifiMgr
    tlc -config MCSweep.cfg MCSweep
    tlc -config MCPortScan.cfg MCPortScan
    tlc -config MCLinks.cfg MCLinks
    tlc -config MCFeed.cfg MCFeed
    tlapm DevStoreProofs.tla

and likewise for the other configurations and the other modules of proofs. The longest run takes
about three minutes.
