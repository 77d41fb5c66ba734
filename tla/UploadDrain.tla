---------------------------- MODULE UploadDrain ----------------------------
(***************************************************************************)
(* Upload mode on a link that is metered at times.  Inserting a card       *)
(* uploads its files, or keeps verified local copies of them and queues    *)
(* UPLOAD rows (upload.go, queueDeferredUpload); the last phase of a Drain *)
(* pass uploads the queued rows (upload_queue.go).  Drain holds no ingest  *)
(* gate, so a card that comes back can upload a file, move its copy and    *)
(* close its row while a pass streams that very copy.                      *)
(*                                                                         *)
(* The card holds a media file, 1, and perhaps its sidecar, 2.  A local    *)
(* copy is at one of the names the agent would plan, 1, 2, ... (the        *)
(* collision suffixes), or at 0, the path the server gave the node when it *)
(* is none of those.  The clock is left out: a row that backs off is in    *)
(* `waiting' until its time comes, and a row's creation time is the number *)
(* of the insertion it was made in.  A graceful shutdown is a Crash at the *)
(* same point.  Only UPLOAD rows are here, so no row of another origin     *)
(* owns a copy.                                                            *)
(***************************************************************************)
EXTENDS QueueStore, FiniteSets

CONSTANTS
    WithSidecar,  \* does the media file have a sidecar
    MaxRows,      \* bound: rows queue.db takes before inserts fail
    MaxInserts,   \* bound: how often the card is inserted
    MaxFaults,    \* bound: failing reads, calls and writes, and crashes
    MaxTouches,   \* bound: how often the user changes or removes a copy
    MaxMetered,   \* bound: how often the link turns metered
    MaxResets     \* bound: how often the operator retries what failed

ASSUME UploadAssumption ==
    /\ WithSidecar \in BOOLEAN
    /\ {MaxRows, MaxInserts, MaxFaults, MaxTouches, MaxMetered, MaxResets} \subseteq Nat

None   == 0
Unsafe == -1  \* a server path that safeRelativePath refuses
Items == IF WithSidecar THEN {1, 2} ELSE {1}
Ids   == 1..MaxRows
\* One name more than the user can occupy, so that a free one is left.
Names == 1..(MaxTouches + 1)
Paths == {0} \cup Names

VARIABLES
    rows,     \* queue.db: a function from the ids of its rows to the rows
    meta,     \* of every row the columns that say what to upload
    nextId,   \* the id of the next row
    waiting,  \* rows whose next attempt is in the future
    files,    \* what is at an item's paths: none, copy (of the card), edited
    rel,      \* where the server puts an item: a path, or Unsafe
    stored,   \* the name the server stored an item under first, or "no"
    metered,  \* the link
    card,     \* the pass over the card: its step, item and what it found
    master,   \* what became of file 1 in this pass over the card
    drain,    \* Drain's upload phase: its step, row, that row's snapshot
    todo,     \* the snapshots the phase still has to visit
    inserts, faults, touches, flips, resets,  \* what is left of the bounds
    touched   \* the items whose copies the user has changed

cardVars  == <<card, master, inserts>>
drainVars == <<drain, todo>>
dbVars    == <<rows, meta, nextId, waiting>>
env       == <<rel, metered, touches, flips, resets, touched>>
vars == <<dbVars, files, stored, cardVars, drainVars, env, faults>>

Live == DOMAIN rows

(* item; local_path; master_node_uuid; upload_name (final: the name the    *)
(* server gave the master); the content behind size_bytes and mtime_unix;  *)
(* the content behind full_hash.                                           *)
Meta == [item : Items, path : Paths, master : {None} \cup Ids, name : {"planned", "final"},
         base : {"copy", "edited"}, hash : {"copy", "edited"}]

IdleCard  == [pc |-> "out", item |-> 1, path |-> 0, fresh |-> FALSE, ok |-> FALSE]
IdleDrain == [pc |-> "idle", id |-> None]

TypeOK ==
    /\ Live \subseteq Ids /\ rows \in [Live -> Row] /\ meta \in [Live -> Meta]
    /\ nextId \in 1..(MaxRows + 1) /\ waiting \subseteq Ids
    /\ files \in [Items -> [Paths -> {"none", "copy", "edited"}]]
    /\ rel \in [Items -> {0, 1, Unsafe}]
    /\ stored \in [Items -> {"no", "planned", "final"}]
    /\ metered \in BOOLEAN
    /\ card \in [pc : {"out", "next", "uploaded", "placed", "copied"}, item : Items,
                 path : Paths, fresh : BOOLEAN, ok : BOOLEAN]
    /\ master \in [is : {"failed", "uploaded", "deferred", "queued"}, id : {None} \cup Ids, path : Paths]
    /\ \/ drain = IdleDrain /\ todo = <<>>
       \/ /\ drain \in [pc : {"visiting"}, id : {None}]
                 \cup [pc : {"streaming", "refused", "broken", "stored"}, id : Ids, row : Meta]
                 \cup [pc : {"confirmed", "recorded"}, id : Ids, row : Meta, target : Paths]
          /\ DOMAIN todo \subseteq Ids /\ todo \in [DOMAIN todo -> Meta]
    /\ inserts \in 0..MaxInserts /\ {faults, touches, flips, resets} \subseteq Nat /\ touched \subseteq Items

Init ==
    /\ rows = <<>> /\ meta = <<>> /\ nextId = 1 /\ waiting = {}
    /\ files = [i \in Items |-> [p \in Paths |-> "none"]]
    /\ rel \in [Items -> {0, 1, Unsafe}]
    /\ stored = [i \in Items |-> "no"]
    /\ metered \in BOOLEAN
    /\ card = IdleCard /\ master = [is |-> "failed", id |-> None, path |-> 0]
    /\ drain = IdleDrain /\ todo = <<>>
    /\ inserts = MaxInserts /\ faults = MaxFaults /\ touches = MaxTouches /\ flips = MaxMetered
    /\ resets = MaxResets /\ touched = {}

Fault   == faults > 0 /\ faults' = faults - 1
NoFault == UNCHANGED faults

\* POST /upload: the server checks the hash it is sent, keeps the first copy
\* of the bytes and answers a repeat with where that is.
Store(i, name) == stored' = [stored EXCEPT ![i] = IF @ = "no" THEN name ELSE @]

-----------------------------------------------------------------------------
(* The card *)

\* A file is through; its sidecar is next, or the card is.
FileDone(is, id) ==
    /\ card' = IF card.item = 1 /\ WithSidecar THEN [IdleCard EXCEPT !.pc = "next", !.item = 2]
               ELSE IdleCard
    /\ master' = IF card.item = 1 THEN [is |-> is, id |-> id, path |-> card.path] ELSE master

InsertCard ==
    /\ card.pc = "out" /\ inserts > 0 /\ inserts' = inserts - 1
    /\ card' = [IdleCard EXCEPT !.pc = "next"]
    /\ UNCHANGED <<dbVars, files, stored, master, drainVars, env, faults>>

IsSidecar == card.item = 2
Insertion == MaxInserts - inserts  \* which insertion of the card this is

\* uploadSidecar: the sidecar of a master that failed is held back.
HoldBack ==
    /\ card.pc = "next" /\ IsSidecar /\ master.is = "failed"
    /\ FileDone("failed", None)
    /\ UNCHANGED <<dbVars, files, stored, inserts, drainVars, env, faults>>

\* The sidecar of a queued or deferred master must not go without it.
forceDefer == IsSidecar /\ master.is \in {"deferred", "queued"}
hold       == forceDefer \/ metered
Ready      == card.pc = "next" /\ ~(IsSidecar /\ master.is = "failed")

\* masterFor: the name a file is uploaded or queued under; the sidecar of a
\* master that is on the server takes the master's name there.
uploadName == IF IsSidecar /\ master.is # "uploaded" THEN "planned" ELSE "final"

\* streamUpload as far as the server's answer: one read of the card into a
\* verified temp copy, which is uploaded.  An error may hide a stored file.
StreamFile ==
    /\ Ready /\ ~hold
    /\ \/ /\ Store(card.item, uploadName) /\ NoFault
          /\ card' = [card EXCEPT !.pc = "uploaded"] /\ UNCHANGED master
       \/ /\ Store(card.item, uploadName) \/ UNCHANGED stored
          /\ Fault /\ FileDone("failed", None)
    /\ UNCHANGED <<dbVars, files, inserts, drainVars, env>>

\* moveDeferredCopy: the first intact copy of an earlier deferral under one
\* of the planned names, if nothing is at the server's path.
Earlier(i, target) == {p \in Names : p # target /\ files[i][p] = "copy"}
Movable(i, target) == files[i][target] = "none" /\ Earlier(i, target) # {}
First(S) == CHOOSE x \in S : \A y \in S : x <= y

\* Variant: the copy is removed where it was to be moved.
RenamedAway(f, from, to) == [f EXCEPT ![from] = "none"]

Renamed(f, from, to) == [f EXCEPT ![from] = "none", ![to] = f[from]]

\* moveDeferredCopy, else placeLocalCopy: the temp copy goes to the server's
\* path, unless the same bytes or another file already are there.
PlaceUploaded ==
    LET i == card.item
        target == rel[i]
    IN  /\ card.pc = "uploaded"
        /\ \/ /\ target = Unsafe /\ NoFault
              /\ card' = [card EXCEPT !.pc = "placed"] /\ UNCHANGED files
           \/ /\ target # Unsafe /\ Movable(i, target) /\ NoFault
              /\ files' = [files EXCEPT ![i] = Renamed(@, First(Earlier(i, target)), target)]
              /\ card' = [card EXCEPT !.pc = "placed", !.ok = TRUE, !.path = First(Earlier(i, target))]
           \/ /\ target # Unsafe
              /\ IF Movable(i, target) THEN Fault ELSE NoFault
              /\ files' = [files EXCEPT ![i][target] = IF @ = "none" THEN "copy" ELSE @]
              /\ card' = [card EXCEPT !.pc = "placed", !.ok = files'[i][target] = "copy"]
           \/ /\ target # Unsafe /\ ~Movable(i, target) /\ Fault
              /\ card' = [card EXCEPT !.pc = "placed"] /\ UNCHANGED files
        /\ UNCHANGED <<dbVars, stored, master, inserts, drainVars, env>>

\* uploadRowBy: the newest of these rows, or None.
Newest(S) == IF S = {} THEN None ELSE CHOOSE r \in S : \A q \in S : q <= r

Unfinished(r) == rows[r].upload \in {"PENDING", "FAILED"}
Owner(i, p)   == Newest({r \in Live : Unfinished(r) /\ meta[r].item = i /\ meta[r].path = p})

\* reconcileQueuedUpload: closes the row of the copy that was moved, or else
\* the row that was queued for this card file.
Reconcile ==
    LET i == card.item
        bySource == Newest({r \in Live : Unfinished(r) /\ meta[r].item = i /\ meta[r].hash = "copy"})
        moved == card.path # 0
        r == IF moved /\ Owner(i, card.path) # None THEN Owner(i, card.path) ELSE bySource
    IN  /\ card.pc = "placed"
        /\ \/ /\ r # None /\ NoFault
              /\ rows' = [rows EXCEPT ![r] = MarkUploadDone(@)]
              /\ meta' = [meta EXCEPT ![r].path = IF moved /\ @ = card.path THEN rel[i] ELSE @]
           \/ /\ IF r = None THEN NoFault ELSE Fault
              /\ UNCHANGED <<rows, meta>>
        /\ FileDone(IF card.ok THEN "uploaded" ELSE "failed", None)
        /\ UNCHANGED <<nextId, waiting, files, stored, inserts, drainVars, env>>

\* Where deferUploadCopy keeps the copy: beside the master that waits, else
\* at the first planned name that is free or holds these bytes already; the
\* last name is tried in any case.
Slot == IF forceDefer THEN master.path
        ELSE First({p \in Names : files[card.item][p] \in {"none", "copy"} \/ p = MaxTouches + 1})

DeferFile ==
    LET at == files[card.item][Slot]
    IN  /\ Ready /\ hold
        /\ \/ /\ at \in {"none", "copy"} /\ NoFault
              /\ files' = [files EXCEPT ![card.item][Slot] = "copy"]
              /\ card' = [card EXCEPT !.pc = "copied", !.path = Slot, !.fresh = at = "none"]
              /\ UNCHANGED master
           \/ /\ IF at = "edited" THEN NoFault ELSE Fault
              /\ FileDone("failed", None) /\ UNCHANGED files
        /\ UNCHANGED <<dbVars, stored, inserts, drainVars, env>>

\* The row for the copy at card.path, as it is found there now.
newMeta ==
    LET at == files[card.item][card.path]
    IN  [item |-> card.item, path |-> card.path, name |-> uploadName,
         master |-> IF forceDefer THEN master.id ELSE None,
         base |-> at, hash |-> IF card.fresh THEN "copy" ELSE at]

\* There is a copy to queue, and room for the row.
Insertable(at) == at # "none" /\ nextId <= MaxRows

\* queueDeferredUpload: a pending row of this copy stands; a failed one
\* starts over if the copy is as it was recorded; else a row is inserted.
QueueFile ==
    LET i == card.item
        at == files[i][card.path]
        own == Owner(i, card.path)
        noQueue == forceDefer /\ master.is = "deferred"
        pending == own # None /\ rows[own].upload = "PENDING"
        retry == own # None /\ rows[own].upload = "FAILED" /\ at = meta[own].base
        insert == own = None /\ Insertable(at)
    IN  /\ card.pc = "copied"
        /\ \/ /\ ~noQueue /\ (pending \/ retry) /\ NoFault
              /\ rows' = [rows EXCEPT ![own] = resetFailed(@)]
              /\ waiting' = IF retry THEN waiting \ {own} ELSE waiting
              /\ FileDone("queued", own) /\ UNCHANGED <<meta, nextId>>
           \/ /\ ~noQueue /\ insert /\ NoFault
              /\ rows' = [r \in Live \cup {nextId} |-> IF r \in Live THEN rows[r]
                            ELSE InsertPending(IF i = 1 THEN "MEDIA" ELSE "SIDECAR", "UPLOAD", Insertion)]
              /\ meta' = [r \in Live \cup {nextId} |-> IF r \in Live THEN meta[r] ELSE newMeta]
              /\ nextId' = nextId + 1
              /\ FileDone("queued", nextId) /\ UNCHANGED waiting
           \/ /\ IF ~noQueue /\ (pending \/ retry \/ insert) THEN Fault ELSE NoFault
              /\ FileDone("deferred", None) /\ UNCHANGED dbVars
        /\ UNCHANGED <<files, stored, inserts, drainVars, env>>

-----------------------------------------------------------------------------
(* Drain's upload phase *)

Visiting == [pc |-> "visiting", id |-> None]
NextRow  == drain' = Visiting /\ UNCHANGED todo

\* The phase lists the rows that are due.
StartUploads ==
    LET due == {r \in Live : rows[r].upload = "PENDING" /\ r \notin waiting}
    IN  /\ drain = IdleDrain /\ due # {}
        /\ drain' = Visiting /\ todo' = [r \in due |-> meta[r]]
        /\ UNCHANGED <<dbVars, files, stored, cardVars, env, faults>>

\* No row is left, or the link is metered or its probe fails.
EndUploads ==
    /\ drain.pc = "visiting"
    /\ IF todo = <<>> \/ metered THEN NoFault ELSE Fault
    /\ drain' = IdleDrain /\ todo' = <<>>
    /\ UNCHANGED <<dbVars, files, stored, cardVars, env>>

\* A write to queue.db that goes through, or is lost.
Write(newRows) ==
    \/ rows' = newRows /\ NoFault
    \/ rows' = rows /\ Fault

\* Variant: a copy that is gone is taken for one that was uploaded.
FailAsDone(r) == IF r \in Live THEN [rows EXCEPT ![r] = MarkUploadDone(@)] ELSE rows

Fail(r) == IF r \in Live THEN [rows EXCEPT ![r] = MarkUploadFailed(@)] ELSE rows

\* MarkUploadAttempt, with the back-off in `waiting'.
Attempt(r) ==
    /\ rows' = IF r \in Live THEN [rows EXCEPT ![r] = MarkUploadAttempt(@, 0)] ELSE rows
    /\ waiting' = IF r \in Live /\ rows[r].upload = "PENDING" THEN waiting \cup {r} ELSE waiting

\* Variant: the sidecar of a failed master goes on waiting.
MasterIsWaiting(row) ==
    IF row.master \in Live /\ rows[row.master].upload # "DONE" THEN "PENDING" ELSE "DONE"

\* What a linked sidecar finds: its master's status; a master that was
\* collected had finished.
MasterIs(row) == IF row.master \in Live THEN rows[row.master].upload ELSE "DONE"

\* drainUploadOne up to the open file.  A sidecar waits for its master and
\* takes the name the master got, and a copy that is gone or not as recorded
\* fails the row.
VisitRow ==
    LET id == First(DOMAIN todo)
        row == todo[id]
        linked == row.master \in Live
        is == MasterIs(row)
        named == IF linked THEN [row EXCEPT !.name = "final"] ELSE row
        intact == files[row.item][row.path] = row.base
    IN  /\ drain.pc = "visiting" /\ todo # <<>> /\ ~metered
        /\ todo' = [r \in DOMAIN todo \ {id} |-> todo[r]]
        /\ \/ /\ IF is = "PENDING" THEN NoFault ELSE linked /\ Fault
              /\ drain' = Visiting /\ UNCHANGED <<rows, waiting>>
           \/ /\ is = "FAILED" \/ (is = "DONE" /\ ~intact)
              /\ Write(Fail(id))
              /\ drain' = Visiting /\ UNCHANGED waiting
           \/ /\ is = "DONE" /\ intact /\ NoFault
              /\ drain' = [pc |-> "streaming", id |-> id, row |-> named]
              /\ UNCHANGED <<rows, waiting>>
           \/ /\ is = "DONE" /\ intact /\ Fault
              /\ Attempt(id) \/ (rows' = Fail(id) /\ UNCHANGED waiting)
              /\ drain' = Visiting
        /\ UNCHANGED <<meta, nextId, files, stored, cardVars, env>>

\* Upload reads the open file: a copy that was moved or removed since is read
\* all the same, one that was edited in place is not what was recorded.  The
\* server refuses bytes that do not have the recorded hash.
StreamRow ==
    LET row == drain.row
        read == IF files[row.item][row.path] = "edited" THEN "edited" ELSE row.base
    IN  /\ drain.pc = "streaming"
        /\ \/ /\ read = row.hash /\ NoFault
              /\ IF row.hash = "copy" THEN Store(row.item, row.name) ELSE UNCHANGED stored
              /\ drain' = [drain EXCEPT !.pc = "stored"]
           \/ /\ read # row.hash /\ NoFault
              /\ drain' = [drain EXCEPT !.pc = "refused"] /\ UNCHANGED stored
           \/ /\ Fault
              /\ \/ UNCHANGED stored
                 \/ read = row.hash /\ row.hash = "copy" /\ Store(row.item, row.name)
              /\ \E answer \in {"refused", "broken"} : drain' = [drain EXCEPT !.pc = answer]
        /\ UNCHANGED <<dbVars, files, cardVars, todo, env>>

\* An error that a retry cannot mend fails the row; another backs it off.
UploadFailed ==
    /\ \/ drain.pc = "refused" /\ Write(Fail(drain.id)) /\ UNCHANGED waiting
       \/ drain.pc = "broken" /\ Attempt(drain.id) /\ NoFault
       \/ drain.pc = "broken" /\ UNCHANGED <<rows, waiting>> /\ Fault
    /\ NextRow
    /\ UNCHANGED <<meta, nextId, files, stored, cardVars, env>>

\* plannedUploadMove: where the copy is to go, or where it is.
plannedUploadMove(row) ==
    LET target == rel[row.item]
    IN  IF target # Unsafe /\ files[row.item][target] = "none" THEN target ELSE row.path

\* The row is read again: a card that came back may have closed it.  A
\* failing read goes on to the compare-and-set.
ConfirmRow ==
    LET open == drain.id \in Live /\ rows[drain.id].upload = "PENDING"
    IN  /\ drain.pc = "stored"
        /\ \/ ~open /\ NextRow /\ NoFault
           \/ /\ IF open THEN NoFault ELSE Fault
              /\ drain' = [pc |-> "confirmed", id |-> drain.id, row |-> drain.row,
                           target |-> plannedUploadMove(drain.row)]
              /\ UNCHANGED todo
        /\ UNCHANGED <<dbVars, files, stored, cardVars, env>>

\* MarkUploadDone applies to an unfinished row only.
RecordRow ==
    LET id == drain.id
        applies == id \in Live /\ Unfinished(id)
    IN  /\ drain.pc = "confirmed"
        /\ \/ /\ applies /\ NoFault
              /\ rows' = [rows EXCEPT ![id] = MarkUploadDone(@)]
              /\ meta' = [meta EXCEPT ![id].path = drain.target]
              /\ drain' = IF drain.target = drain.row.path THEN Visiting ELSE [drain EXCEPT !.pc = "recorded"]
           \/ /\ IF applies THEN Fault ELSE NoFault
              /\ drain' = Visiting /\ UNCHANGED <<rows, meta>>
        /\ UNCHANGED <<nextId, waiting, files, stored, cardVars, todo, env>>

\* Variant: the rename replaces what is at the target.
CanRenameOver(f, from, to) == f[from] # "none"

\* renameNoClobber succeeds.
CanRename(f, from, to) == f[from] # "none" /\ f[to] = "none"

\* moveNoClobber; if the copy did not go, SetUploadLocalPath takes back what
\* was recorded, unless something else moved the copy.
MoveRow ==
    LET i == drain.row.item
        from == drain.row.path
        movable == CanRename(files[i], from, drain.target)
        correct == files[i][from] # "none" /\ drain.id \in Live
    IN  /\ drain.pc = "recorded" /\ NextRow
        /\ \/ movable /\ NoFault /\ files' = [files EXCEPT ![i] = Renamed(@, from, drain.target)] /\ UNCHANGED meta
           \/ /\ IF movable THEN Fault ELSE NoFault
              /\ meta' = IF correct THEN [meta EXCEPT ![drain.id].path = from] ELSE meta
              /\ UNCHANGED files
        /\ UNCHANGED <<rows, nextId, waiting, stored, cardVars, env>>

-----------------------------------------------------------------------------
(* The sweep, the operator, the user, the link, the process *)

\* Variant: the clause for masters forgotten.
MasterFree(r) == TRUE

\* No unfinished sidecar row names r as its master.
NoSidecarWaits(r) == \A q \in Live : meta[q].master = r => ~Unfinished(q)

\* CollectGarbage, at the end of a Drain pass: of the finished rows one whose
\* copy is gone and that no unfinished sidecar row names as its master.  The
\* retention is far longer than a pass over the card.
CollectRow ==
    \E r \in Live :
       /\ drain = IdleDrain
       /\ FinishedOld(rows[r], IF card = IdleCard THEN Insertion + 1 ELSE Insertion)
       /\ files[meta[r].item][meta[r].path] = "none"
       /\ NoSidecarWaits(r)
       /\ rows' = [q \in Live \ {r} |-> rows[q]]
       /\ meta' = [q \in Live \ {r} |-> meta[q]]
       /\ waiting' = waiting \ {r}
       /\ UNCHANGED <<nextId, files, stored, cardVars, drainVars, env, faults>>

\* ResetFailed, the operator's retry of every failed row.
ResetFailed ==
    LET failed == {r \in Live : rows[r].upload = "FAILED"}
    IN  /\ failed # {} /\ resets > 0 /\ resets' = resets - 1
        /\ rows' = [r \in Live |-> resetFailed(rows[r])] /\ waiting' = waiting \ failed
        /\ UNCHANGED <<meta, nextId, files, stored, cardVars, drainVars, rel, metered, touches, flips, touched, faults>>

BackoffEnds ==
    /\ waiting # {} /\ waiting' = {}
    /\ UNCHANGED <<rows, meta, nextId, files, stored, cardVars, drainVars, env, faults>>

\* The process dies; queue.db, the files and the server stay.
Crash ==
    /\ card # IdleCard \/ drain # IdleDrain
    /\ Fault /\ card' = IdleCard /\ drain' = IdleDrain /\ todo' = <<>>
    /\ UNCHANGED <<dbVars, files, stored, master, inserts, env>>

\* The user edits, replaces, removes or restores a file in the edit tree.
Touch ==
    /\ touches > 0 /\ touches' = touches - 1
    /\ \E i \in Items, p \in Paths :
          /\ \E c \in {"none", "copy", "edited"} \ {files[i][p]} : files' = [files EXCEPT ![i][p] = c]
          /\ touched' = touched \cup {i}
    /\ UNCHANGED <<dbVars, rel, stored, metered, flips, resets, cardVars, drainVars, faults>>

Meter ==
    /\ ~metered /\ flips > 0 /\ flips' = flips - 1 /\ metered' = TRUE
    /\ UNCHANGED <<dbVars, files, rel, stored, touches, resets, touched, cardVars, drainVars, faults>>

Unmeter ==
    /\ metered /\ metered' = FALSE
    /\ UNCHANGED <<dbVars, files, rel, stored, touches, flips, resets, touched, cardVars, drainVars, faults>>

CardStep  == InsertCard \/ HoldBack \/ StreamFile \/ PlaceUploaded \/ Reconcile \/ DeferFile \/ QueueFile
DrainStep == \/ StartUploads \/ EndUploads \/ VisitRow \/ StreamRow \/ UploadFailed
             \/ ConfirmRow \/ RecordRow \/ MoveRow
Next == \/ CardStep \/ DrainStep \/ CollectRow \/ ResetFailed \/ BackoffEnds
        \/ Crash \/ Touch \/ Meter \/ Unmeter

Spec == Init /\ [][Next]_vars

\* The tray drains on every tick and a back-off is a bounded delay; that the
\* link is not metered for ever is an assumption about the user.
FairSpec == Spec /\ WF_vars(DrainStep) /\ WF_vars(BackoffEnds) /\ WF_vars(Unmeter)

-----------------------------------------------------------------------------
(* Properties *)

(* MarkUploadDone is only reached after the server confirmed the hash: a   *)
(* row that was queued for the card's bytes and is DONE is on the server,  *)
(* whichever of Drain and the card closed it (streamUpload, RecordRow).    *)
DoneIsStored ==
    \A r \in Live : rows[r].upload = "DONE" /\ meta[r].hash = "copy" => stored[meta[r].item] # "no"

(* deferUploadCopy, moveDeferredCopy and moveNoClobber: as long as the user *)
(* leaves an item's copies alone, an item that has a row keeps a copy of   *)
(* the card's bytes in the edit tree, whoever moves it and whoever dies.   *)
CopyKept ==
    \A r \in Live : meta[r].item \notin touched => \E p \in Paths : files[meta[r].item][p] = "copy"

(* uploadSidecar's forceDefer and noQueue, drainUploadOne's master switch  *)
(* and the sweep's clause for masters: if the user leaves the master's     *)
(* copies alone, a sidecar reaches the server after its master and under   *)
(* the name the master has there.                                          *)
SidecarFollows ==
    WithSidecar /\ 1 \notin touched /\ stored[2] # "no" => stored[1] # "no" /\ stored[2] = "final"

Edits(f) == Cardinality({ip \in Items \X Paths : f[ip[1]][ip[2]] = "edited"})

(* placeLocalCopy, moveDeferredCopy and moveNoClobber never overwrite: only *)
(* the user makes one of the user's own files disappear.                   *)
UserFilesKept == [][touches' = touches => Edits(files') >= Edits(files)]_vars

(* Every queued upload comes to an end, DONE or FAILED: a sidecar does not *)
(* wait for ever for its master, nor a row for the link or its back-off.   *)
EventuallyEnds ==
    \A r \in Ids : (r \in Live /\ rows[r].upload = "PENDING")
                   ~> ~(r \in Live /\ rows[r].upload = "PENDING")
-----------------------------------------------------------------------------
(* The invariant from which the first four follow *)

Busy == drain.pc \in {"streaming", "refused", "broken", "stored", "confirmed", "recorded"}

\* A snapshot is of a row that is still there; what it says is still so, but
\* for the path of a row that was closed meanwhile, and the name in hand.
SnapshotOf(row, r) ==
    /\ r \in Live /\ row.item = meta[r].item /\ row.master = meta[r].master
    /\ row.base = meta[r].base /\ row.hash = meta[r].hash
    /\ Unfinished(r) => row.path = meta[r].path

Snapshots ==
    /\ \A r \in Live : r < nextId
    /\ \A r \in DOMAIN todo : SnapshotOf(todo[r], r) /\ todo[r].name = meta[r].name
    /\ Busy => SnapshotOf(drain.row, drain.id)

\* A copy that is about to be moved has its row closed, with the new path.
Recorded == drain.pc = "recorded" => ~Unfinished(drain.id) /\ meta[drain.id].path = drain.target

\* Who was told that an item is stored can rely on it.
ToldStored ==
    /\ card.pc \in {"uploaded", "placed"} => stored[card.item] # "no"
    /\ master.is = "uploaded" => stored[1] # "no"
    /\ drain.pc \in {"stored", "confirmed", "recorded"} /\ drain.row.hash = "copy" => stored[drain.row.item] # "no"

\* A copy is moved only if the server's path is safe, and the sidecar of a
\* master that failed is not queued.
CardWork ==
    /\ card.pc \in {"out", "next", "uploaded"} => card.path = 0
    /\ card.pc = "placed" /\ card.path # 0 => rel[card.item] # Unsafe
    /\ card.pc = "copied" /\ card.item = 2 => master.is # "failed"

\* The copies of an item that the user left alone are of the card's bytes.
Untouched ==
    \A i \in Items \ touched :
        /\ \A p \in Paths : files[i][p] # "edited"
        /\ \A r \in Live : meta[r].item = i => meta[r].base = "copy" /\ meta[r].hash = "copy"

\* Such a media file is kept at the first name, and has one unfinished row.
OneName ==
    1 \notin touched =>
        /\ card.pc = "copied" /\ card.item = 1 => card.path = 1
        /\ \A r \in Live : meta[r].item = 1 /\ Unfinished(r) => meta[r].path = 1
        /\ \A r, q \in Live : meta[r].item = 1 /\ Unfinished(r) /\ meta[q].item = 1 /\ Unfinished(q) => r = q
        /\ card.pc = "copied" /\ card.item = 1 /\ Busy /\ Unfinished(drain.id) /\ drain.row.item = 1 => files[1][1] = "copy"

\* Until its sidecar is queued, the row of a queued media file is not swept.
MasterStays ==
    1 \notin touched /\ card.item = 2 /\ master.is = "queued" =>
        LET m == master.id IN
        /\ m \in Live /\ meta[m].item = 1
        /\ \A r \in Live : meta[r].item = 1 /\ Unfinished(r) => r = m
        /\ Busy /\ drain.id = m /\ (Unfinished(m) \/ drain.pc = "recorded") => files[1][drain.row.path] = "copy"
        /\ Unfinished(m) \/ (drain.pc = "recorded" /\ drain.id = m) \/ files[1][meta[m].path] = "copy"
        /\ drain.pc = "recorded" /\ drain.row.item = 1 /\ drain.id # m => Unfinished(m)

\* A sidecar goes with its master's row, or after the master.
Linked ==
    /\ \A r \in Live : meta[r].master # None => meta[r].item = 2
    /\ 1 \notin touched =>
          /\ \A r \in Live : meta[r].item = 2 /\ meta[r].master = None => meta[r].name = "final" /\ stored[1] # "no"
          /\ \A r \in Live : meta[r].master # None /\ (Unfinished(r) \/ r \in DOMAIN todo) =>
                meta[r].master \in Live /\ meta[meta[r].master].item = 1
          /\ Busy /\ drain.row.item = 2 => drain.row.name = "final" /\ stored[1] # "no"

UploadInv ==
    /\ TypeOK /\ Snapshots /\ Recorded /\ ToldStored /\ CardWork /\ Untouched /\ OneName /\ MasterStays /\ Linked
    /\ DoneIsStored /\ CopyKept /\ SidecarFollows
=============================================================================
