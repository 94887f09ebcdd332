-------------------------------- MODULE Links --------------------------------
(***************************************************************************)
(* The dashboard: its links and headings (src/main/db/links.c), the notes  *)
(* and logins kept about a link (src/main/db/notes.c), and the task that   *)
(* checks what each link points at (src/main/net/linkcheck.c).  List and   *)
(* headings are one blob of flash, written with every change; a note and a *)
(* login have an entry each, a login under the key of the vault.  The web  *)
(* server runs one request at a time, in steps that a power cut separates  *)
(* and the checker interleaves with.  Labels, ports, icons, the text of a  *)
(* note, the session token and the cryptography are left out; all links    *)
(* point at one device.                                                    *)
(***************************************************************************)
EXTENDS Naturals, Sequences, SequencesExt, FiniteSets

CONSTANTS MaxLinks,  \* NETDASH_MAX_LINKS
          MaxGroups, \* NETDASH_MAX_GROUPS
          LastGroup, \* 255, the largest id of a heading
          MaxBorn,   \* bound: links ever added, fewer than 2^16
          MaxKeys,   \* bound: passphrases ever set
          MaxEdits,  \* bound: requests that change something
          MaxFaults  \* bound: power cuts and failed writes

Ids  == 1..MaxBorn
None == 0

ASSUME LinksAssumption ==
    /\ {MaxLinks, MaxGroups, LastGroup, MaxBorn} \subseteq Nat \ {0}
    /\ {MaxKeys, MaxEdits, MaxFaults} \subseteq Nat

VARIABLES
    list,    \* s_links, s_groups and the next ids
    saved,   \* the same in flash
    notes,   \* links with a note in flash
    secrets, \* the key each login in flash is encrypted under
    known,   \* s_lsec_ids, the index of the logins in RAM
    meta,    \* the key of the vault, as its metadata tells
    session, \* s_key while unlocked
    job,     \* what the request at hand has left to do, and the link it is at
    chk,     \* the checker: where it is, position, length of the pass, link
    recs,    \* s_recs, by link
    online,  \* the device answers sweeps
    keys,    \* passphrases set so far
    edits,   \* requests so far
    faults,  \* power cuts and failed writes so far
    torn,    \* history: a change of passphrase was cut short
    lost,    \* history: logins that a reset did not erase
    left     \* history: links whose removal was cut short or did not erase all; all of
             \* them, when the list was not saved or not read back

store   == <<list, saved, notes, secrets, meta>>
checker == <<chk, recs, online>>
bounds  == <<keys, edits, faults, torn, lost, left>>
vars == <<store, known, session, job, checker, bounds>>

Empty == [links |-> <<>>, groups |-> <<>>, nextId |-> 1, nextGroup |-> 1]
Idle == [what |-> "idle", todo |-> {}, at |-> None]
Resting == [pc |-> "rest", i |-> 1, n |-> 0, id |-> None]

Listed == {list.links[i].id : i \in DOMAIN list.links}
Headings == ToSet(list.groups)

LinksTypeOK ==
    /\ \A l \in {list, saved} :
         /\ Len(l.links) <= MaxLinks /\ Len(l.groups) <= MaxGroups
         /\ IsInjective([i \in DOMAIN l.links |-> l.links[i].id])
         /\ \A i \in DOMAIN l.links : /\ l.links[i].id \in 1..l.nextId - 1
                                      /\ l.links[i].group \in {None} \cup ToSet(l.groups)
         /\ l.nextId \in 1..MaxBorn + 1 /\ l.nextGroup \in 1..LastGroup
    /\ notes \subseteq Ids /\ secrets \in [Ids -> 0..MaxKeys]
    /\ meta \in 0..keys /\ session \in {None, meta}
    /\ job.what \in {"idle", "note", "login", "result", "rotate", "reset"}
    /\ job.todo \subseteq Ids /\ job.at \in {None} \cup job.todo
    /\ known \cup lost \subseteq Ids
    /\ chk.pc \in {"rest", "walk", "probe"} /\ chk.i \in 1..MaxLinks + 1
    /\ recs \in [Ids -> {"none", "unknown", "result"}]
    /\ Cardinality({id \in Ids : recs[id] # "none"}) <= MaxLinks
    /\ online \in BOOLEAN /\ torn \in BOOLEAN /\ left \subseteq Ids

-----------------------------------------------------------------------------
(* Requests about links and headings: each rewrites the whole blob.        *)

Edits == job = Idle /\ edits < MaxEdits /\ edits' = edits + 1
Fault == faults < MaxFaults /\ faults' = faults + 1

\* save_locked(), which may fail unnoticed.
Save(l) ==
    /\ list' = l
    /\ \/ saved' = l /\ UNCHANGED <<faults, left>>
       \/ Fault /\ saved' = saved /\ left' = Ids

OnlyList == UNCHANGED <<notes, secrets, known, meta, session, checker, keys, torn, lost>>

\* Mutant: the lowest id no link has.
LowestFreeId == CHOOSE id \in 1..MaxBorn + 1 : id \notin Listed /\ \A k \in 1..id - 1 : k \in Listed
AddLowest ==
    /\ Edits /\ Len(list.links) < MaxLinks /\ list.nextId <= MaxBorn
    /\ Save([list EXCEPT !.links = Append(@, [id |-> LowestFreeId, group |-> None]),
                         !.nextId = IF @ = LowestFreeId THEN @ + 1 ELSE @])
    /\ OnlyList /\ UNCHANGED job

Add ==
    /\ Edits /\ Len(list.links) < MaxLinks /\ list.nextId <= MaxBorn
    /\ Save([list EXCEPT !.links = Append(@, [id |-> list.nextId, group |-> None]),
                         !.nextId = @ + 1])
    /\ OnlyList /\ UNCHANGED job

\* links_update(): only the heading matters here.
File(id, g) ==
    /\ Edits /\ id \in Listed /\ g \in {None} \cup Headings
    /\ Save([list EXCEPT !.links = [i \in DOMAIN @ |-> IF @[i].id = id
                                                       THEN [@[i] EXCEPT !.group = g] ELSE @[i]]])
    /\ OnlyList /\ UNCHANGED job

\* What was written about the links that go is forgotten, one by one.
Forget(gone) == job' = IF gone = {} THEN Idle ELSE [what |-> "note", todo |-> gone, at |-> None]
Forgets == job.what \in {"note", "login", "result"}

RemoveLink(id) ==
    /\ Edits
    /\ \E i \in DOMAIN list.links : /\ list.links[i].id = id
                                    /\ Save([list EXCEPT !.links = RemoveAt(@, i)])
    /\ Forget({id})
    /\ OnlyList

\* Mutant: the order is taken for a permutation.
ReorderOnly(ids) ==
    /\ Edits
    /\ Save([list EXCEPT !.links = [k \in DOMAIN ids |->
                CHOOSE l \in ToSet(list.links) : l.id = ids[k]]])
    /\ OnlyList /\ UNCHANGED job

\* A new order, which doubles as a bulk delete.
Reorder(ids) ==
    /\ Edits
    /\ Save([list EXCEPT !.links = [k \in DOMAIN ids |->
                CHOOSE l \in ToSet(list.links) : l.id = ids[k]]])
    /\ Forget(Listed \ ToSet(ids))
    /\ OnlyList

AddGroup ==
    /\ Edits /\ Len(list.groups) < MaxGroups
    /\ Save([list EXCEPT !.groups = Append(@, list.nextGroup),
                         !.nextGroup = IF @ < LastGroup THEN @ + 1 ELSE @])
    /\ OnlyList /\ UNCHANGED job

\* Mutant: the links under the heading keep its id.
RemoveGroupOnly(g) ==
    /\ Edits /\ g \in Headings
    /\ Save([list EXCEPT !.groups = RemoveFirst(@, g)])
    /\ OnlyList /\ UNCHANGED job

\* Links under a heading that is gone (reconcile_groups_locked()) lose it.
RemoveGroup(g) ==
    /\ Edits /\ g \in Headings
    /\ LET rest == RemoveFirst(list.groups, g)
       IN Save([list EXCEPT !.groups = rest,
                            !.links = [i \in DOMAIN @ |-> IF @[i].group \in ToSet(rest) THEN @[i]
                                                          ELSE [@[i] EXCEPT !.group = None]]])
    /\ OnlyList /\ UNCHANGED job

ReorderGroups(order) ==
    /\ Edits /\ Len(order) = Len(list.groups)
    /\ Save([list EXCEPT !.groups = order])
    /\ OnlyList /\ UNCHANGED job

-----------------------------------------------------------------------------
(* Requests about notes, logins and the vault.                             *)

\* An empty text clears what is there; a login needs a session either way.
SetNote(id, has) ==
    /\ Edits /\ id \in Listed
    /\ notes' = IF has THEN notes \cup {id} ELSE notes \ {id}
    /\ UNCHANGED <<list, saved, secrets, known, meta, session, job, checker, keys, faults, torn,
                   lost, left>>

SetSecret(id, has) ==
    /\ Edits /\ id \in Listed /\ session # None
    /\ secrets' = [secrets EXCEPT ![id] = IF has THEN session ELSE None]
    /\ known' = IF has THEN known \cup {id} ELSE known \ {id}
    /\ lost' = lost \ {id}
    /\ UNCHANGED <<list, saved, notes, meta, session, job, checker, keys, faults, torn, left>>

Unlock ==
    /\ job = Idle /\ meta # None /\ session' = meta
    /\ UNCHANGED <<store, known, job, checker, bounds>>

\* On request, or left unused for 15 minutes.
Relock ==
    /\ job = Idle /\ session # None /\ session' = None
    /\ UNCHANGED <<store, known, job, checker, bounds>>

\* vault_set_passphrase(): every login of the index is read first; one that
\* does not open ends it there.
Held == {id \in Ids : secrets[id] # None}
Passphrase ==
    /\ Edits /\ keys < MaxKeys /\ keys' = keys + 1
    /\ meta # None => \A id \in known : secrets[id] = meta
    /\ job' = [what |-> "rotate", todo |-> IF meta = None THEN {} ELSE known, at |-> None]
    /\ UNCHANGED <<store, known, session, checker, faults, torn, lost, left>>

Rewrite(id) ==
    /\ job.what = "rotate" /\ id \in job.todo
    /\ secrets' = [secrets EXCEPT ![id] = keys]
    /\ job' = [job EXCEPT !.todo = @ \ {id}]
    /\ UNCHANGED <<list, saved, notes, known, meta, session, checker, bounds>>

\* Mutant: an open session keeps the key it had.
RotatedKeepingSession ==
    /\ job.what = "rotate" /\ job.todo = {}
    /\ meta' = keys /\ session' = IF session = None THEN keys ELSE session
    /\ job' = Idle
    /\ UNCHANGED <<list, saved, notes, secrets, known, checker, bounds>>

\* The metadata comes last, and the session is under the new key.
Rotated ==
    /\ job.what = "rotate" /\ job.todo = {}
    /\ meta' = keys /\ session' = keys
    /\ job' = Idle
    /\ UNCHANGED <<list, saved, notes, secrets, known, checker, bounds>>

\* A write fails: the request is given up as it stands.
RotateFails ==
    /\ job.what = "rotate" /\ Fault
    /\ job' = Idle /\ torn' = (torn \/ \E id \in Ids : secrets[id] = keys)
    /\ UNCHANGED <<store, known, session, checker, keys, edits, lost, left>>

\* vault_reset(): without memory for the list of logins none is erased, and
\* whether an erasure succeeds is not looked at; the metadata goes, and the
\* index is emptied, in any case.
Reset ==
    /\ Edits
    /\ \E todo \in {known, {}} :
         /\ job' = [what |-> "reset", todo |-> todo, at |-> None]
         /\ IF todo = known THEN UNCHANGED faults ELSE Fault
    /\ UNCHANGED <<store, known, session, checker, keys, torn, lost, left>>

ResetErase(id) ==
    /\ job.what = "reset" /\ id \in job.todo
    /\ \/ secrets' = [secrets EXCEPT ![id] = None] /\ UNCHANGED faults
       \/ Fault /\ UNCHANGED secrets
    /\ job' = [job EXCEPT !.todo = @ \ {id}]
    /\ UNCHANGED <<list, saved, notes, known, meta, session, checker, keys, edits, torn, lost, left>>

ResetDone ==
    /\ job.what = "reset" /\ job.todo = {}
    /\ \/ meta' = None /\ UNCHANGED faults
       \/ Fault /\ UNCHANGED meta
    /\ known' = {} /\ session' = None /\ job' = Idle
    /\ lost' = Held
    /\ UNCHANGED <<list, saved, notes, secrets, checker, keys, edits, torn, left>>

\* link_note_forget(), link_secret_forget() and linkcheck_forget(), each an
\* erasure of its own; the first two may fail unnoticed.
ForgetNote(id) ==
    /\ job.what = "note" /\ id \in job.todo
    /\ \/ notes' = notes \ {id} /\ UNCHANGED <<faults, left>>
       \/ id \in notes /\ Fault /\ left' = left \cup {id} /\ UNCHANGED notes
    /\ job' = [job EXCEPT !.what = "login", !.at = id]
    /\ UNCHANGED <<list, saved, secrets, known, meta, session, checker, keys, edits, torn, lost>>

ForgetSecret(id) ==
    /\ job.what = "login" /\ id = job.at
    /\ \/ /\ secrets' = [secrets EXCEPT ![id] = None]
          /\ known' = known \ {id} /\ lost' = lost \ {id}
          /\ UNCHANGED <<faults, left>>
       \/ /\ secrets[id] # None /\ Fault /\ left' = left \cup {id}
          /\ UNCHANGED <<secrets, known, lost>>
    /\ job' = [job EXCEPT !.what = "result"]
    /\ UNCHANGED <<list, saved, notes, meta, session, checker, keys, edits, torn>>

ForgetCheck(id) ==
    /\ job.what = "result" /\ id = job.at
    /\ recs' = [recs EXCEPT ![id] = "none"]
    /\ Forget(job.todo \ {id})
    /\ UNCHANGED <<store, known, session, chk, online, bounds>>

Continues == \/ Rotated \/ ResetDone
             \/ \E id \in Ids : \/ Rewrite(id) \/ ResetErase(id)
                                \/ ForgetNote(id) \/ ForgetSecret(id) \/ ForgetCheck(id)

-----------------------------------------------------------------------------
(* The checker.                                                            *)

PassStarts ==
    /\ chk.pc = "rest"
    /\ chk' = [Resting EXCEPT !.pc = "walk", !.n = Len(list.links)]
    /\ UNCHANGED <<store, known, session, job, recs, online, bounds>>

\* Mutant: the last link is not reached.
LookShort ==
    /\ chk.pc = "walk"
    /\ chk' = IF chk.i >= chk.n \/ chk.i > Len(list.links) THEN Resting
              ELSE [chk EXCEPT !.pc = "probe", !.id = list.links[chk.i].id]
    /\ UNCHANGED <<store, known, session, job, recs, online, bounds>>

\* By position, in a list that may have changed since.
Look ==
    /\ chk.pc = "walk"
    /\ chk' = IF chk.i > chk.n \/ chk.i > Len(list.links) THEN Resting
              ELSE [chk EXCEPT !.pc = "probe", !.id = list.links[chk.i].id]
    /\ UNCHANGED <<store, known, session, job, recs, online, bounds>>

\* record(), after a probe that took a while: by id, if there is room.
Recorded(id, result) ==
    IF recs[id] = "none" /\ Cardinality({k \in Ids : recs[k] # "none"}) >= MaxLinks THEN recs
    ELSE [recs EXCEPT ![id] = result]

Check ==
    /\ chk.pc = "probe"
    /\ recs' = Recorded(chk.id, IF online THEN "result" ELSE "unknown")
    /\ chk' = [chk EXCEPT !.pc = "walk", !.i = @ + 1, !.id = None]
    /\ UNCHANGED <<store, known, session, job, online, bounds>>

Checker == PassStarts \/ Look \/ Check

-----------------------------------------------------------------------------
(* The device and the power.                                               *)

Answers == /\ online' = ~online
           /\ UNCHANGED <<store, known, session, job, chk, recs, bounds>>

\* links_init() and notes_init(), which index what is in flash; the vault is
\* locked again.  A list that cannot be read is taken for an empty one.
Restart ==
    /\ Fault
    /\ \/ list' = saved /\ left' = IF Forgets THEN left \cup job.todo ELSE left
       \/ list' = Empty /\ left' = Ids
    /\ known' = Held /\ session' = None /\ job' = Idle
    /\ chk' = Resting /\ recs' = [id \in Ids |-> "none"]
    /\ torn' = (torn \/ (job.what = "rotate" /\ \E id \in Ids : secrets[id] = keys))
    /\ UNCHANGED <<saved, notes, secrets, meta, online, keys, edits, lost>>

-----------------------------------------------------------------------------
Init ==
    /\ list = Empty /\ saved = Empty /\ notes = {} /\ secrets = [id \in Ids |-> None]
    /\ known = {} /\ meta = None /\ session = None /\ job = Idle
    /\ chk = Resting /\ recs = [id \in Ids |-> "none"] /\ online = TRUE
    /\ keys = 0 /\ edits = 0 /\ faults = 0 /\ torn = FALSE /\ lost = {} /\ left = {}

Orders(S) == UNION {SetToAllKPermutations(T) : T \in SUBSET S}

\* POST and PUT /api/links, and DELETE of one link.
ListRequests ==
    \/ Add
    \/ \E ids \in Orders(Listed) : Reorder(ids)
    \/ \E id \in Ids : RemoveLink(id)

\* PATCH of one link: its note, then the rest, which may still be refused when
\* the note is saved already; each counts as a request here.
PatchLink ==
    \E id \in Ids : \/ \E has \in BOOLEAN : SetNote(id, has)
                    \/ \E g \in 0..LastGroup : File(id, g)

\* POST, PUT and DELETE under /api/links/groups; a PATCH renames.
GroupRequests ==
    \/ AddGroup
    \/ \E g \in Headings : RemoveGroup(g)
    \/ \E order \in SetToSeqs(Headings) : ReorderGroups(order)

\* PUT and DELETE /api/vault, POST /api/vault/unlock and .../lock.
VaultRequests == Passphrase \/ Reset \/ Unlock \/ Relock

\* PUT /api/links/{id}/secret.
PutSecret == \E id \in Ids, has \in BOOLEAN : SetSecret(id, has)

Requests == ListRequests \/ PatchLink \/ GroupRequests \/ VaultRequests \/ PutSecret

Next == Requests \/ Continues \/ RotateFails \/ Checker \/ Answers \/ Restart

\* The web server goes on with a request, and the checker with its passes.
Fairness == WF_vars(Continues) /\ WF_vars(Checker)

Spec == Init /\ [][Next]_vars /\ Fairness

-----------------------------------------------------------------------------
(* Properties.                                                             *)

\* A link starts with nothing written about another: its id is not one that
\* a note, a login or a result is still kept under, not even after a removal
\* cut short by a power failure or one that could not erase them all; as long
\* as the list is saved, and read back at a start.
StartsClean ==
    [][ \A id \in Ids :
          (id \in Listed' \ Listed /\ left # Ids) =>
              id \notin notes /\ secrets[id] = None /\ recs[id] = "none" ]_vars

\* Whatever was written about a link goes with it (links_remove(),
\* links_reorder()), by whichever way the link goes; but for the link whose
\* removal was cut short, or the erasure of whose note or login failed.
NothingLeftBehind ==
    (~Forgets /\ left # Ids) =>
        notes \cup Held \subseteq Listed \cup left

\* Every login kept opens under the passphrase in force, however passphrases,
\* resets, sessions and new logins follow each other; but for a change of
\* passphrase that failed or lost power halfway, and for a login that a reset
\* could not erase, until it is written again.
SecretsOpen ==
    ~torn => \A id \in Held \ lost :
        secrets[id] = meta \/ (job.what = "rotate" /\ secrets[id] = keys /\ id \notin job.todo)

\* A link that stays is checked again and again, whatever is added, moved and
\* removed in mid-pass; and while its device answers the result is kept, if
\* those of links removed in mid-probe leave it room.
RoomToRecord == Cardinality({id \in Ids : recs[id] # "none"} \cup Listed) <= MaxLinks
Checks(id) == Check /\ chk.id = id /\ (RoomToRecord => recs'[id] = "result")
EveryLinkChecked ==
    \A id \in Ids : <>[](id \in Listed /\ online) => []<><<Checks(id)>>_vars
=============================================================================
