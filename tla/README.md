# Formal verification of branchdam-agent

This directory holds TLA+ specifications of the parts of branchdam-agent where a
test hardly reaches the interesting cases: work that is carried out in steps by
several actors (ingest workers, the drain pass, an operator, the server, other
users of the archive share), that fails or is killed between any two of them,
and that must neither lose a photographer's file nor claim that it is safe when
it is not.

## The system

branchdam-agent runs on a workstation beside a branchDAM server. It ingests
camera cards: every file is copied to a local edit tree and to an archive share
(a NAS), verified by reading it back, and registered with the server. When the
server or the share cannot be reached, the work is put in a SQLite queue
(`queue.db`) and finished later.

| Component | State it keeps | Operations | Interacts with |
|---|---|---|---|
| `internal/queue` (store) | one row per file: four step statuses, attempt counters, next-attempt times | insert, the `Mark*` updates, `ResetFailed`, counts, garbage collection | everything below, one SQLite file, several processes |
| `internal/ingest` drain | none across passes | `Drain`: register, copy, rebase, upload, sweep | store, server, share |
| `internal/ingest` archive copy | temp and final files on the share | `CopyToArchive`, `renameNoClobber` | share, other users of it |
| `internal/ingest` offline and online ingest | files in the local tree | `IngestCard`, `IngestCardOffline`, `registerNode` | store, server, card |
| `internal/ingest` upload mode | local copies under two names | `streamUpload`, `deferUpload`, `drainUploadOne` | store, server, card, drain |
| `internal/prune` | none | `Pass`: delete local copies the server has verified | store, server, local tree |
| `internal/tray` runner | gates, the cards detected, held and skipped, timers | triggers for ingest, drain, prune, probe, sync; cancel, pause, reconfigure | all of the above, the operator |
| `internal/branchdam` client | HTTP client, the key in use and the one on trial | requests, error classification, key rotation | server, `config.yaml` |
| `internal/config`, settings of `cmd/branchdam-agent` | `config.yaml`, the settings in memory | validate, patch, reload, pair, deep links | client, tray, other processes |
| `internal/selfupdate` | the installed programs, their backups, a label | check, apply, roll back | tray, release server |
| `internal/eject` | a handle on the volume | lock, dismount, eject | tray, other programs |
| `internal/exiftool` | a pool of processes | read metadata | ingest |
| `internal/netgate`, `runtime` | a cached probe, a state file | probe, load, save | tray |
| `internal/resolve`, `luminar` | none | read foreign catalogues, send events | server |

Hard behaviours: a pass works from a snapshot and one reading of the clock while
workers, resets and other processes change the rows; each call to the server or
the share may fail, or succeed and lose its answer; the process may die between
a call and its record; a NAS may not store what it was given; the server applies
events later than it accepts them; a settings change replaces the engine under
running ingests. `PROJECT.json` lists the hazards at their lines with the
properties that would catch them; those that no property covers are the
observations below.

What makes each part correct:

- store and drain: nothing is recorded done that is not, nothing done is undone,
  every row is carried to its end, the server never has a node without its bytes;
- archive copy: a foreign file is never touched, an unfinished or wrong copy is
  never taken for the master;
- ingest: what is reported as taken care of may be wiped from the card;
- upload mode: what is recorded uploaded is on the server, no copy is lost, a
  sidecar follows its master;
- prune: only what the archive holds is removed;
- tray: no engine is closed under an ingest, the newest settings win, nobody
  waits for ever; every card that is put in is offered, once;
- settings and keys: the stored key is good at every instant, a save leaves file
  and memory in agreement, no deep link is forgotten;
- self-update: there is always a program to start, a failed update is undone, no
  quit is decided during one, and a label is kept only with its backups.

## Modules

| Module | Models | Used by |
|---|---|---|
| `QueueStore` | rows of `queue.db` and the `Mark*`, reset and bucket operations, as operators on rows | `Drain`, `UploadDrain` |
| `Drain` | `Drain` on OFFLINE and ONLINE rows, the inline submissions of ingest, the server, the share, the clock | `MCDrain`, `DrainProofs` |
| `UploadDrain` | upload mode: defer, queue, upload, place, move, reconcile, and Drain's upload phase, for a master and its sidecar | `MCUploadDrain`, `UploadDrainProofs` |
| `ArchiveSlot` | abstract: what one archive name may hold and when its row may be done | `ArchiveCopy` (refinement) |
| `ArchiveCopy` | `CopyToArchive` call by call, with its temp file, one or more processes | `MCArchiveCopy`, `DrainProofs` |
| `OfflineIngest` | `ingestFileOffline`: lookup, resume, choice of a name, copy, dedup, insert, place | `Prune`, `PruneProofs` |
| `Prune` | `Pass`, beside everything in `OfflineIngest` | `MCPrune`, `PruneProofs` |
| `TrayGate` | the tray's gate: ingests, cancel, prune, settings changes, detector restarts | `MCTrayGate`, `TrayGateProofs` |
| `CardOffers` | from the insertion of a card to its eject: detector, pause, resume, skip, dialog, ingest, dismount | `MCCardOffers`, `CardOffersProofs` |
| `OnlineIngest` | `IngestCard`: filter, metadata, name, dual write, duplicates, verification, registration | `MCOnlineIngest`, `OnlineIngestProofs` |
| `Credentials` | `config.yaml` and everything that writes it: saves, pairing, deep links, the client's key rotation | `MCCredentials`, `CredentialsProofs` |
| `SelfUpdate` | check, apply and rollback, file operation by file operation | `MCSelfUpdate`, `SelfUpdateProofs` |

### How state and actions correspond to the code

**QueueStore, Drain.** A row keeps kind, origin, the four step statuses, attempt
counters, next-attempt times and the times the code compares. `rows` is the
table. A pass is a program counter `pc` over the phases of `Drain`; `nowT` is its
single `e.now()`, `snap` the result of `Store.Pending`, `todo` the rows of the
phase not visited yet, `res` the answer of a call whose record is not written.
So `DrainPost` and `DrainPostMark`, `CopyExamine` ... `CopyMark`, `DrainRebase` and
its mark are separate steps and anything may come between. `worker` is the
ingest goroutine of a file: it inserts, places its copy, posts once, marks.
`Crash` ends the process: pass and workers are gone, rows and files stay. `Tick`
advances the clock; during a pass by at most `MaxPass`.

**UploadDrain.** `meta` and `rows` are the upload rows; `files` says for each
item what is at each name the agent would plan and at the server's; `stored` is
what the server has, and under which name. Back-off is untimed: a row whose
attempt failed is `waiting` until `BackoffEnds`. Rows are ordered by their
insertion instead of a time, the retention is longer than a card pass, and the
sweep runs between passes. A graceful shutdown is a `Crash`: the code keeps
nothing else.

**ArchiveCopy.** `tmp` and `final` are what is at the agent's temp name and at the
archive name; an unfinished file is named by the process that writes it, so that
a file renamed or removed while another process still has it open is modelled as
POSIX does it. Each system call
of `CopyToArchive` is a step, except that nobody else acts between the two calls
of `renameNoClobber`.

**OfflineIngest.** All files render to one name, so the candidates are the
numbers 1, 2, ...; a content stands for bytes, size and modification time.
`ing` is the ingest of one file (a card is walked file by file), `promised` the
contents reported as queued, resumed or skipped: the operator may wipe them.
Whether the archive can be reached, and which suffix a sibling has, is any
choice for each file, which includes the code's one choice per card. Drain is
one step per row and phase. Media files only; the hash budget of
`ResolveDestination` and its answer when all 10000 names are taken are left out.

**Prune.** `pass` is the list of candidates between the three loops of `Pass`.
Age is any choice. The server's answer is true when it is given; the re-stat and
the removal that follows it are one step.

**TrayGate.** Threads are the detector's goroutine, manual ingests, calls of
`Reconfigure` and their waiter goroutines; `gate` and `detMu` are the two
mutexes; an engine is a number, larger is newer. Roots are compared, not looked at:
whether a restart finds any, and so starts a detector, is any choice. Pause, skip and confirmation of
cards are in `CardOffers`; the closing of the engine at exit, and the summaries of
an unreachable share (which touch nothing shared) are left out.

**CardOffers.** `known` is the detector's last listing, `detected` the set in the
runner, `diff` the report it works on, `held` the insertions put aside by a pause,
`resuming` the resumes that have not taken them yet. Every goroutine that may ingest
has a program counter: the detector's, those of
`offerCardsHeldDuringPause`, "Ingest now" and the window's batch. The mutexes of
the runner are held for single steps; only the gate is held over several. The
walk itself is one step; its inside is `OnlineIngest` and `OfflineIngest`. The
eject is the Windows sequence. `inserts`, `offers` and `owed` are history.

**OnlineIngest.** A card is a function from files to content, rendered base, stem
and kind; a copy says of which content it is and whether it is whole. `pass` is
the walk, `cur` the file at work and its place in `ingestFile`; `rows` and `node`
are queue and server; `idle` is the output that a pooled exiftool process has not
handed over yet. The drain and the server's scan are one step each. When a copy was
removed, the server has seen it before it is asked about that content again.

**Credentials.** Threads are workers (drain, ingest, probe), goroutines that save,
and the one that works through deep links. `file` is `config.yaml` as it is on
disk, with the flaws a hand edit may leave; reading and writing of a patch are two
steps under `patchMu`. A client keeps the key in use, the one on trial, the one to
go back to and those that were refused; a request keeps the key it was sent with.
The server accepts the key in force and the one handed out, and the first use of
the latter revokes the former. Another process writes the file, but not between
the read and the write of a patch, which `patchMu` cannot prevent.

**SelfUpdate.** `bin` and `prev` are the programs and their `.previous` files, a
version or, below zero, an archive the release workflow did not sign; `label` is
the file that makes a rollback available. `op` is the apply or rollback under
way, with its place and the targets still to do. The four file operations of the
library go-selfupdate are modelled from how `selfupdate` calls it. The end of the
process is three steps, as in the code: the menu loop decides to leave (`leaving`:
`Quit`, `Tick`, `RestartNow`, or the end of the menu's own operation), the status
server stops taking requests (`Shutdown`; a signal may do that first), and `Exit`,
which looks at neither gate nor phase. Between them the window may start an
operation; it is marked `late`, and `cut` remembers that an exit has ended one. A
death may come between the two renames of `restoreOne` and the removal of the
backup (`Restoring`). `labelled` is history: the backups that were there when the
label was written. Left out: the instants in which the old process and the one it
relaunched both live, the wait for the detector in `onExit` and that for open
requests in `Shutdown` (`Exit` does not wait, but the code's wait is bounded and does not
include an operation, whose request is answered when it starts), and a label file
that a death leaves empty.

## Runs

| Run | Shows |
|---|---|
| `queue` | `Drain` with two faults, one intervention, passes that take time and a sweep: records are true (`ArchivedIsVerified`, `SubmittedWasAccepted`), nodes have their bytes (`Tier3IsArchived`), no rebase overtakes its event (`NoBareNode`), the sweep forgets only what is safe (`CollectedIsSafe`), buckets are a partition (`Bucketed`), foreign files are untouched (`ForeignUntouched`), nothing regresses (`NoRegression`), one fault fails nothing for good (`OneFaultIsSurvived`) |
| `settle` | under fairness every row is carried to its end (`EventuallySettled`) and every media file is registered (`EventuallyRegistered`) |
| `upload_card` | a card put back while Drain uploads its file: `DoneIsStored`, `CopyKept`, `UserFilesKept` |
| `upload_sidecar` | `SidecarFollows`, and under fairness `EventuallyEnds` |
| `archive_slot` | `ArchiveCopy` implements `ArchiveSlot` with one process (`KeepsSlot`) |
| `card_prune` | offline ingest, drain, sweep, prune and users in every order: `SafeToWipe`, `ClaimsApart`, `PruneLeavesMaster` |
| `online_ingest` | two walks over a card, with a crash, a failing or corrupting operation and another event anywhere: when a walk ends well, everything is in the archive or the library (`OnlineSafeToWipe`) and registered or queued (`OnlineRegistered`), metadata is the file's own (`MetadataIsOwn`), foreign files are untouched (`OthersUntouched`) |
| `tray_gate` | settings changes against detected and manual ingests and a prune: `EngineOpen`, `StopArmed`, `NewestInstalled`, and under fair mutexes `EventuallyApplied` |
| `card_offers` | pause, resume and pause again against insertions, pulls, detector restarts and manual ingests: no insertion is offered twice (`OfferedOncePerInsertion`), none is lost on the way (`NoReportLost`), each is offered in the end (`EventuallyOffered`), no card is dismounted in use (`DismountedIdle`) |
| `credentials` | rotations, saves, pairings, deep links, hand edits and a crash: the stored key is good (`StoredKeyLives`), a save leaves file, engine and drainer in agreement (`SavedIsLive`), no link waits for nobody (`NoLinkStranded`), a key taken back is given up in the file too (`EventuallyRestored`) |
| `rotations_meet` | a second rotation while the first is still being adopted by another client: `RestartsOnIt`, what the comment on `KeyPersister` says, is violated (see the observations) |
| `self_update` | updates and rollbacks with two failing file operations and a death: the menu loop never decides to leave during one (`QuitSafe`), a rollback on offer comes with the backups its label was written for (`LabelMatches`), one fault leaves no mixed install (`OneFaultIsUndone`), every program can be recovered (`Recoverable`) |

Each module's `TypeOK` is an invariant of its instance, and part of the theorem on
its inductive invariant where there is one. TLC checked every inductive invariant
on the instances of the runs before it was proved.

Bounds. `queue` and `settle` have one file: rows share nothing but the pass, which
visits them one after the other, and the theorems below hold for any number.
Two faults and one intervention reach every pair of failures in one row's life;
a back-off of one tick and attempt counters that saturate at `MaxTries` keep every
due time distinguishable. `queue` has a pass that lasts a tick and a dwell of two;
`settle` a pass and a lag of a tick each and a dwell of three, the shortest that
`MinRebaseDwell` must exceed. In `card_prune` one source path with two contents and
reformatting stands for any two files that want one name; two rows and two names
are the least with which a claim can collide; three interventions allow a
reformat, a user's file and a lost master in one behaviour. Contents are only
compared, so they are symmetric. In `tray_gate` three changes are what it takes
for one to displace another while a third is being applied; its budget is split in
four, three changes against a poll that finds two cards or against a manual ingest,
two against both and two against a card and a prune. Clock and counters
stop at their bounds. In `online_ingest` the cards are the four ways in which two
files of one card can meet: one name, one content, a master and its sidecar, or
one that is filtered beside one that cannot be read; a second walk finds what a
first left. `card_offers` has two cards, since a list of one cannot be half worked
off, and three changes of the pause flag, so that a pause can begin while a
resume still works. `credentials` splits its budget four ways (a rotation without
saves, two saves, a save among hand edits and faults, a save during a rotation), and has three
clients: the old, the new and one that a request still holds; `rotations_meet` has
two rotations and a save. `self_update` has a
program and its sibling, and three releases, so that a backup can be of neither
the running nor the newest version, and three operations. Deadlock is checked in `queue` and `settle`, where a pass can
always be started; elsewhere the model may stop when its cards, changes or
interventions are used up, so it is not.

Fairness. `Drain`: passes are started again and again by a timer and every
request has a timeout (weak fairness of `PassStep`), an ingest goroutine runs on,
the server applies what it accepted, and the clock moves; faults end at `Quiet`.
`UploadDrain`: passes repeat and a metered link is unmetered in the end. `TrayGate`:
goroutines run, a walk over a card and a prune end, and of those who wait for the
gate or for `detectorMu` one gets it when it is released again and again (strong
fairness of the group, which is less than a starvation free mutex gives and
enough, since each waits a bounded number of times). `CardOffers`: the same for the gate, the detector's poll comes round,
and goroutines, dialogs and walks end; nothing is assumed of the operator's
resume, so `EventuallyOffered` speaks of a tray that stays resumed. `Credentials`:
each worker goes on with its request and, by its timer, begins another; nothing is
assumed of saves, the server's operator or deep links.

## What is proved

Module `DrainProofs`. `DrainInvariant`: `Spec => []DrainInv` for every number of
files, faults and interventions, every dwell, lag and retention. The properties
alone are not inductive: a pass acts on a snapshot, so the proof needs that what
it is about to do is still to be done (`SnapshotFresh`), that an answer in hand
was really given (`Answers`), that steps are reached in order (`RowOrder`), that
files not yet ingested are unknown (`Unknown`), and that what the server holds at
a Tier-3 path is recorded as archived, so no pass copies over it
(`Tier3Recorded`). `ArchiveSafety`, `Tier3Safety`, `SubmitSafety` and `SweepSafety`
follow; `BucketSafety` needs `RowOrder`; `DoneIsTerminal` is the agreement of
`Record.Done` with `terminalSQL`.

`ForeignSafety` and `RegressionSafety` are the action
properties, from the same invariant. `DwellSafety`: if
`MaxPass + ServerLag < Dwell`, then `[]NoBareNode`. Its invariant `DwellInv` bounds
how old a submission time can be when it is recorded (`SubmittedInPass`), and
with it when the server must have applied the event.

`OneFaultSafety` (`OneFaultIsSurvived`): an archive copy is given up only at the
second mismatch in a row or for an error that is not transient, and one fault makes
only one of either. `OneFaultInv` says where the trace of that fault is: a wrong copy
about to be read back, a mismatch about to be recorded, or one on record, in the
table or in the snapshot a pass still works from, and never two of these
(`OneTrace`); and that without an intervention there is nothing else to go wrong,
since files are the agent's own and the local copy is whole (`OwnFiles`).

At the end of the same module stand the proofs about `ArchiveCopy`, the inside of
the copy step. `CopyTypeCorrect` for any number of processes; with one
process (`OneCopier`) `CopyCorrect`, whose invariant says that the temp file is the
process's own and complete before the rename, and `CopyKeepsSlot`, the refinement
of `ArchiveSlot`: every step of a copy is a step of the slot or a stutter.

Module `PruneProofs`, about `Prune` beside everything in `OfflineIngest`.
`PruneInvariant`, `WipeSafety`, `ClaimSafety` and `RemovalSafety` (`SafeToWipe`,
`ClaimsApart`, `PruneLeavesMaster`), for any number of files, rows, crashes and
interventions. What is in the archive is no reason for the next step; where the
bytes of a row are is: every unfinished row has them at its name or at its temp
name (`RowSafe`, `TempWhole`), a fresh copy goes only where nobody claims the name
(`FreshName`), a resumed one belongs to the row it resumes (`OwnRow`), and at a row's
name there is its own copy or something that is no card file (`LocalOwn`).
`Accounted` carries a promise from the row to the archive when the sweep forgets
the row. The theorems have the hypothesis `~UserAnywhere`, users keep off the names
that rows claim; without it `SafeToWipe` is false (see the observations).

Module `UploadDrainProofs`. `UploadInvariant`, for any number of rows, insertions,
faults, crashes, retries and changes of the user, with a sidecar or without one. A
pass works from snapshots, while the card closes rows and moves copies: `Snapshots`
says what of a snapshot stays true (all but the path of a row that was closed
meanwhile), `Recorded` that a copy is moved only after its row was closed with the
new path, `ToldStored` what whoever holds an answer of the server can rely on. With
`Untouched` (copies the user left alone are the card's bytes) `StoredSafety` and
`CopySafety` follow (`DoneIsStored`, `CopyKept`). `SidecarSafety` (`SidecarFollows`)
needs that the row of a media file is still there when its sidecar is queued
(`MasterStays`): the sweep forgets a row that is closed and whose copy is not at the
path it names, and between the two files of a card a pass may close that row and
move that copy. What makes it true is that there is one unfinished row for the
copy, at the first name (`OneName`), and that the row names the copy's path again
when the move is over. `Linked` carries it on to the sidecar's own row.
`UserFilesSafety` is the action property `UserFilesKept`, by counting the edited
files.

Module `OnlineIngestProofs`. `OnlineInvariant`, for any number of files, names,
walks, faults and crashes. A walk removes copies of its own that turn out corrupt
or duplicate, and what is already settled must not rest on one of them: `Settled`
counts only copies and rows that are not the one at work (`Mine`), `AtWork` says
what each place in `ingestFile` has established, `Shelved` what a row of
`queue.db` and a node stand for. `OnlineWipeSafety`, `RegistrationSafety`,
`MetadataSafety` and `OthersSafety` are the run's four properties.

Module `TrayGateProofs`. `GateInvariant`, for any number of settings changes, cards
and ingests: the gate has one holder (`GateHeld`), an ingest walks with the engine
that is installed (`WalksInstalled`), every engine so far is in exactly one place
(`EnginesPlaced`: closed, installed, pending or in the hands of one call), and the
newest one is never replaced or displaced (`NewestKept`). `EngineSafety`,
`StopSafety` and `NewestSafety` follow.

Module `CardOffersProofs`. `OffersInvariant`, for any number of cards, goroutines,
pauses and restarts: every insertion is worth one offer, which is made, not yet
reported, or in exactly one of the places that carry it (`Counted`, by
cardinalities), and `InHand` and `Reported` say where. `OfferedOnce`, `NothingLost`
and `DismountSafety` follow.

Module `CredentialsProofs`, for any number of workers, saves, clients, rotations and
mishaps. `SaveCorrect` is the part without keys: who holds `saveMu` and `patchMu`,
that whoever is about to write has read what the file still holds (`Locked`), the
link's goroutine (`LinkInv`), and what a save has loaded against the file, unless the
file was edited by hand meanwhile (`SaveInv`). `LinksAreTaken` (`NoLinkStranded`) and
`SavesGoLive` (`SavedIsLive`) follow. `CredentialsCorrect` adds the keys. Keys are
handed out in order (`KeyOrder`, `OfferInv`), so a request that was accepted, one that
was refused and one that carries an offer each bound, by the key they were sent
with, what the server has in force now (`Told`); no client or request knows a key
between the last one revoked and the one in force (`KeyInv`), and a key that is not
stored yet is in use nowhere (`Unused`), so the server cannot have revoked the
stored one. `StoredKeySafety` (`StoredKeyLives`) follows. The property makes two exceptions,
both of the server's operator: a key taken back before its first use, and a rotation
while some request still carries the offer, or an older answer, of the one before
(`Unsettled`). The second was not in the property before: the proof failed there,
and TLC found the behaviour that `rotations_meet` shows.

Module `SelfUpdateProofs`. `UpdateInvariant`, for any number of programs, faults,
deaths and operations: what each step of an apply, of its undoing and of a
rollback has done to programs, backups and label (`TargetLeft`, `Swappable`,
`Withdrawn`, `LabelKept`, `LabelNamed`, `Halfway`, `Undone`). `QuitSafety` (`QuitSafe`): no
operation is under way when the menu loop decides to leave, and one that runs
afterwards began after the decision. It does not say that such an operation is
finished: it may be cut (`QuitNeverMixes` is false, see the observations). `LabelSafety` is
`[](MaxFaults - faults <= 2 => LabelMatches)`: with up to two failing operations, and
through deaths, cuts and updates from installs they left half way, a rollback on
offer comes with the very backups its label was written for. It does not say that
the label names their version: it need not (`LabelNamesBackups` is false, see the observations), except while
every update began with all programs at the running version (`LabelNamed`). After a third
failure even `LabelMatches` is false, as the observations tell. `Recoverability` has
no hypothesis. `UndoneSafety` is the property as it stands, whose own precondition
is that all updates began with every program at the running version (`clean`), that no
exit has cut an operation and that nothing died.

The proofs use the assumptions on constants named in the modules
(`BackoffAssumption`, `DrainAssumption`, `UploadAssumption`, `OfflineAssumption`,
`OnlineAssumption`, `TrayAssumption`, `OffersAssumption`, `UpdateAssumption`,
`CredentialsAssumption`) and,
beside the three hypotheses named above (`OneCopier`, `~UserAnywhere`, the dwell) and
`CopiersApart`, which is `ArchiveCopyAssumption` of the instance in `DrainProofs`,
nothing else. The assumptions say that bounds are natural numbers, that sets are
finite whose members are counted, and that a file, a card or a content is none of
the values that stand for its absence.

Only model-checked: liveness (`EventuallySettled`, `EventuallyRegistered`,
`EventuallyEnds`, `EventuallyApplied`, `EventuallyOffered`, `EventuallyRestored`),
which is out of the prover's reach. Every other property of a passing run is
stated by a theorem.

## Observations

Met while modelling; each can be read off the lines named. The first four were
confirmed with TLC on the modules above, and so were the first two of Self-update,
each on the instance given with it; `rotations_meet` is a run.

Queue, archive and ingest:

- two processes that copy one row share a temp name (`offline_write.go:249`): one may
  remove the copy after the other recorded it DONE. `docs/offline-queue.md:304`
  calls running twice redundant, not unsafe; `archive_slot` assumes one process;
- ingesting the card again does nothing for a row whose archive copy FAILED
  (`offline.go:751`), which `docs/offline-queue.md:172` gives as the way out;
- a crash between `MarkUploadDone` and the move leaves a finished row with a path
  its file never reached (`upload_queue.go:353`), against the comment at line 343
  and `docs/offline-queue.md:431`;
- the detector may be restarted last by an older settings change and watch its
  roots (`tray.go:2224`), against the comments at lines 2108 and 2122;
- a submission is recorded with the time the pass began (`drain.go:165`), so a
  rebase may follow acceptance by less than `MinRebaseDwell`; `DwellSafety` states
  how much of the dwell a slow pass uses up;
- `completeResumedLocalCopy` takes anything at a pending row's local path for its
  copy (`offline.go:754`);
- `offlineSlotUsable` trusts an identical file at a claimed name without comparing
  the row's hash (`offline.go:710`). `card_prune` leaves both to `UserAnywhere`: if users
  may put files at names that rows claim (`TRUE`), `SafeToWipe` fails through them;
- a copy that a failed verification removed, and that the server does not know to
  be missing yet, would make the next walk delete its good copy as a duplicate;
- a sidecar that is walked before its master does not get the master's suffix.

Tray:

- `applyPendingReconfigAndUnlock` restarts the detector after it released the gate
  (`tray.go:2221`), when a waiting ingest may already run on the context the
  restart cancels; the same restart cancels an open dialog or a walk, and the card
  is not offered again;
- the answer Skip is recorded after the dialog (`tray.go:983`): when the card was pulled
  meanwhile, the entry silences the next insertion;
- a card that was passed over because the configuration was incomplete, or whose
  walk failed, is offered again only after it is put in again;
- a resume works from one listing of the volumes: a card that is absent at that
  moment is dropped from what was held, and one that is pulled and put in again
  while the list is worked off may be asked about from the list.

Settings and keys:

- two clients may adopt at a time, each under its own `adoptMu`, and `SetRotatedAPIKey`
  compares nothing with what the file holds: a reload whose new client was offered
  a key and then waits may store it over the key of a second rotation, which a drain
  pass has adopted with the old client, and the next start has a revoked key, against
  the comment at `keyrotation.go:109` (run `rotations_meet`). It takes two rotations
  within one handshake of a reload;
- the old key is written back outside `keyMu` and `adoptMu` (`keyrotation.go:193`), which
  makes the same possible after a key was taken back;
- a reload that read the file before another client stored a rotated key installs a
  client with the revoked one (`settings.go:775`), until the next reload; and a reload
  between the storing of a key and its withdrawal drops the client that knows;
- a rotation that is stored after a pairing overwrites the paired key, so that the
  file mixes two servers; a crash after a key was stored that the server then
  takes back leaves a key nobody accepts;
- `patchMu` is of one process: a hand edit or a pairing command at the instant of a
  patch may be lost, as `patch.go` says;
- the branch "key changed" of the switch (`keyrotation.go:256`) cannot be reached.

Self-update:

- the menu loop asks `trayQuitBlocked` and leaves (`run_supported.go:487`, 498, 728, 733),
  and "Restart now" gives the gate back before it does (line 589). Until `stop()` is
  called (`cmd/branchdam-agent/tray.go:641`) the status server accepts an apply or a
  rollback of the window; nothing waits for its goroutine, and the process ends in the
  middle of the replacement, with a program missing or two versions side by side,
  which the comment at line 475 is there to exclude. `QuitNeverMixes` states it, and TLC
  refutes it in a few seconds with `NTargets = 2`, `MaxVersion = 2`, `Bundle = FALSE`,
  one operation and neither faults nor crashes: the window reads the status, Quit is
  decided, the update starts, moves the sibling aside, and the server shuts down;
- the label is the version that runs, not that of the programs that are moved aside. They
  differ after an update whose restart did not come: the window's phase "restarting" can
  be overwritten by a check before the ticker has seen it
  (`selfupdateagent.go:280`), so that the same release is offered once more, or the menu's
  Install, with its dialog open meanwhile, comes before the tick; and that second Install
  puts the new version under the old label. `LabelNamesBackups` states the
  comment's claim, and TLC refutes it with `NTargets = 2`, `MaxVersion = 3`, `Bundle =
  FALSE`, two operations and neither faults nor crashes.
  A failed write of `Info.plist` and a second Install (`selfupdate.go:223`) do the
  same; a death between the sibling and the primary, and the second run that the
  comment at `selfupdate.go:261` prescribes, leave the two backups at different versions
  under one label. The comments at `selfupdate.go:149` and 236 and at `rollback.go:21`
  say otherwise;
- after three failing operations the label may be there without its backup
  (`selfupdate.go:279`): when an apply fails on a sibling after both the move and its
  undoing failed, `recoverFailedSwap` may fail too, and the old label is written back
  although that sibling's backup is the version that runs;
- a sibling that is missing after a death in mid-replacement is left out by
  `DetectLayout` from then on; a rollback by hand is what `Recoverable` leaves;
- `StartApply` reads the status before it has the lock.

## Not modelled

- Drawing and wording of windows, menus and notifications, installers, icons,
  registry keys, log files: presentation and platform calls without a protocol.
- Flag parsing and wiring of the commands; HTTP, TLS, YAML and SQLite themselves.
- Hashing, perceptual hashes, DJI subtitles, the extraction of metadata, name
  templates: functions on bytes and strings. The models use what they tell apart.
- The readers of foreign catalogues (`resolve`, `luminar`): they read what another
  program wrote, and send events that the server accepts any number of times.
- The runtime state file, the probes behind the metered gate and their cache, and
  the coalescing of the tray's drain, probe and sync triggers: what a trigger
  starts is modelled, and that it comes round is a fairness assumption.

`PROJECT.json` lists every component with its status.

## What could come next

1. The coalescing of the tray's triggers, and the state file.
2. `ResolveDestination` with its hash budget against a reference definition.
