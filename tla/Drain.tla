------------------------------- MODULE Drain -------------------------------
(***************************************************************************)
(* The offline queue: ingest puts a row in queue.db for every file, and    *)
(* Drain (internal/ingest/drain.go), called again and again by the tray or *)
(* by `queue-drain -watch`, carries each row to its end in passes of       *)
(*   1. POST EVENT_NODE_CREATED for rows not yet submitted,                *)
(*   2. CopyToArchive for rows not yet archived,                           *)
(*   3. POST /rebase for rows archived, submitted and past MinRebaseDwell, *)
(*   4. a sweep that deletes old finished rows.                            *)
(* (The upload phase touches only UPLOAD rows, which have no other step;   *)
(* it is not part of this module.)                                         *)
(*                                                                         *)
(* One pass reads the clock once (nowT) and works from snapshots of the    *)
(* pending rows; every call to the server or the NAS and every update of   *)
(* queue.db is a step of its own, so the ingest worker that submits the    *)
(* same event inline, the user, the operator, the server's own drainer and *)
(* a crash can all come in between.                                        *)
(***************************************************************************)
EXTENDS QueueStore, FiniteSets

CONSTANTS
    N,            \* bound: how many files are ingested
    Shapes,       \* the <<kind, origin>> pairs they may have
    Dwell,        \* MinRebaseDwell
    Retention,    \* queue.GCRetention
    GCInterval,   \* queue.GCInterval
    ServerLag,    \* how long the server may take to apply an accepted event
    MaxPass,      \* how much time may go by during one pass
    MaxTime,      \* bound: the clock stops here
    Quiet,        \* from this time on nothing fails, nobody intervenes and the
                  \* drainer keeps up with the clock
    MaxFaults,    \* bound: how many calls, writes or processes fail
    MaxMeddle     \* bound: how often user, operator or NAS users intervene

Ids   == 1..N
Never == -1

ASSUME DrainAssumption ==
    /\ N \in Nat
    /\ Shapes \subseteq {<<"MEDIA", "OFFLINE">>, <<"SIDECAR", "OFFLINE">>, <<"MEDIA", "ONLINE">>}
    /\ {Dwell, Retention, GCInterval, ServerLag, MaxPass} \subseteq Nat
    /\ {MaxTime, Quiet, MaxFaults, MaxMeddle} \subseteq Nat

VARIABLES
    now,        \* the clock
    shape,      \* what kind of file each is and how it is ingested
    rows,       \* queue.db: a function from the ids of its rows to the rows
    local,      \* file at a row's local path: none, temp (still under the
                \* agent's temp name), good, edited, gone
    archive,    \* file at a row's archive path: none, good (the queued bytes),
                \* bad (the agent's copy, stored wrong), foreign (somebody
                \* else's), twin (somebody else's, of the same size)
    acceptedAt, \* when the server first accepted the row's event, or Never
    node,       \* the server's node: none, tier0, tier3, bare (made by a
                \* rebase that came before the event, without its metadata)
    worker,     \* where the ingest worker of a file is
    pc,         \* where the pass is
    nowT,       \* the pass's one reading of the clock
    snap,       \* the pending rows as the pass last listed them
    todo,       \* ids the current phase still has to visit
    res,        \* outcome of the call whose result is not recorded yet
    lastGC,     \* when this process last swept queue.db, or Never
    faults,     \* faults left
    meddle      \* interventions left

passVars   == <<pc, nowT, snap, todo, res, lastGC>>
fileVars   == <<local, archive>>
serverVars == <<acceptedAt, node>>
vars == <<now, shape, rows, fileVars, serverVars, worker, passVars, faults, meddle>>

TypeOK ==
    /\ now \in Nat /\ nowT \in Nat
    /\ shape \in [Ids -> Shapes]
    /\ DOMAIN rows \subseteq Ids /\ rows \in [DOMAIN rows -> Row]
    /\ local \in [Ids -> {"none", "temp", "good", "edited", "gone"}]
    /\ archive \in [Ids -> {"none", "good", "bad", "foreign", "twin"}]
    /\ acceptedAt \in [Ids -> Nat \cup {Never}]
    /\ node \in [Ids -> {"none", "tier0", "tier3", "bare"}]
    /\ worker \in [Ids -> {"new", "inserted", "placed", "accepted", "refused", "end"}]
    /\ pc \in {"idle", "creating", "posted", "copying", "staged", "placed", "copied",
               "rebasing", "answered", "collecting"}
    /\ DOMAIN snap \subseteq Ids /\ snap \in [DOMAIN snap -> Row]
    /\ todo \subseteq Ids
    /\ res \in {"none", "ok", "err", "fatal", "mismatch"}
    /\ lastGC \in Nat \cup {Never}
    /\ faults \in Nat /\ meddle \in Nat

Init ==
    /\ now = 0 /\ nowT = 0
    /\ shape \in [Ids -> Shapes]
    /\ rows = [i \in {} |-> InsertPending("MEDIA", "OFFLINE", 0)]
    /\ local = [i \in Ids |-> "none"]
    /\ archive = [i \in Ids |-> "none"]
    /\ acceptedAt = [i \in Ids |-> Never]
    /\ node = [i \in Ids |-> "none"]
    /\ worker = [i \in Ids |-> "new"]
    /\ pc = "idle" /\ snap = rows /\ todo = {} /\ res = "none" /\ lastGC = Never
    /\ faults = MaxFaults /\ meddle = MaxMeddle

Live == DOMAIN rows

\* A call, a write or the process fails: there is an outage to fail it.
Fault   == now < Quiet /\ faults > 0 /\ faults' = faults - 1
NoFault == UNCHANGED faults

\* Somebody outside the agent does something.
Meddle == now < Quiet /\ meddle > 0 /\ meddle' = meddle - 1

-----------------------------------------------------------------------------
(* The server, as far as the agent relies on it *)

Unapplied(i) == acceptedAt[i] # Never /\ node[i] = "none"

\* POST /events: a 202 means the event is queued; a repeat of its UUID is a
\* no-op.  An error may hide an event that was accepted all the same.
PostNodeCreated(i, answer) ==
    /\ \/ acceptedAt' = [acceptedAt EXCEPT ![i] = IF @ = Never THEN now ELSE @]
       \/ answer = "err" /\ UNCHANGED acceptedAt
    /\ \/ answer = "ok" /\ NoFault
       \/ answer = "err" /\ Fault

\* POST /rebase moves the node to its Tier-3 path, or makes one from the few
\* fields the request carries if the event has not been applied.
Rebase(i, answer) ==
    /\ \/ node' = [node EXCEPT ![i] = IF @ = "none" THEN "bare"
                                      ELSE IF @ = "tier0" THEN "tier3" ELSE @]
       \/ answer # "ok" /\ UNCHANGED node
    /\ \/ answer = "ok" /\ NoFault
       \/ answer \in {"err", "fatal"} /\ Fault

\* The server's own drainer applies an accepted event; it ignores one whose
\* node exists.
ServerApply(i) ==
    /\ Unapplied(i)
    /\ node' = [node EXCEPT ![i] = IF shape[i][2] = "ONLINE" THEN "tier3" ELSE "tier0"]
    /\ UNCHANGED <<now, shape, rows, fileVars, acceptedAt, worker, passVars, faults, meddle>>

-----------------------------------------------------------------------------
(* The ingest worker of one file, from the insert of its row *)

\* The local copy is verified under its temp name (offline), or both copies
\* are in place and verified (online), before the row is committed.
Insert(i) ==
    /\ worker[i] = "new" /\ now < Quiet /\ \A j \in Ids : j < i => worker[j] # "new"
    /\ archive[i] = "none" \/ shape[i][2] = "OFFLINE"
    /\ rows' = [j \in Live \cup {i} |-> IF j = i THEN InsertPending(shape[i][1], shape[i][2], now)
                                        ELSE rows[j]]
    /\ local' = [local EXCEPT ![i] = IF shape[i][2] = "ONLINE" THEN "good" ELSE "temp"]
    /\ archive' = [archive EXCEPT ![i] = IF shape[i][2] = "ONLINE" THEN "good" ELSE @]
    /\ worker' = [worker EXCEPT ![i] = IF shape[i][2] = "ONLINE" THEN "placed" ELSE "inserted"]
    /\ UNCHANGED <<now, shape, serverVars, passVars, faults, meddle>>

\* placeLocal: on a failed rename the temp stays for a re-run to complete.
PlaceLocal(i) ==
    /\ worker[i] = "inserted"
    /\ \/ /\ local' = [local EXCEPT ![i] = "good"]
          /\ worker' = [worker EXCEPT ![i] = IF shape[i][1] = "MEDIA" THEN "placed" ELSE "end"]
          /\ NoFault
       \/ /\ worker' = [worker EXCEPT ![i] = "end"]
          /\ UNCHANGED local /\ Fault
    /\ UNCHANGED <<now, shape, rows, archive, serverVars, passVars, meddle>>

InlinePost(i) ==
    /\ worker[i] = "placed"
    /\ \E answer \in {"ok", "err"} :
          /\ PostNodeCreated(i, answer)
          /\ worker' = [worker EXCEPT ![i] = IF answer = "ok" THEN "accepted" ELSE "refused"]
    /\ UNCHANGED <<now, shape, rows, fileVars, node, passVars, meddle>>

\* Submitted at the time of the update; a refusal is recorded by online
\* ingest only.  The update may fail, and nobody looks at that.
InlineMark(i) ==
    /\ worker[i] \in {"accepted", "refused"}
    /\ worker' = [worker EXCEPT ![i] = "end"]
    /\ \/ /\ rows' = [rows EXCEPT ![i] =
                        IF worker[i] = "accepted" THEN MarkNodeCreatedSubmitted(@, now)
                        ELSE IF shape[i][2] = "ONLINE" THEN MarkNodeCreatedAttempt(@, backoffFor(1, now))
                        ELSE @]
          /\ NoFault
       \/ UNCHANGED rows /\ Fault
    /\ UNCHANGED <<now, shape, fileVars, serverVars, passVars, meddle>>

-----------------------------------------------------------------------------
(* The pass *)

\* Variants: steps that are never retried, a
\* rebase that does not wait for the copy, a dwell measured from the insert.
CreateDueOnce(r, t)  == r.kind = "MEDIA" /\ r.nodeCreated = "PENDING" /\ r.ncTries = 0
CopyDueOnce(r, t)    == r.archiveCopy = "PENDING" /\ r.acTries = 0
RebaseDueEarly(r, t) ==
    /\ r.kind = "MEDIA" /\ r.rebase = "PENDING" /\ r.nodeCreated = "SUBMITTED"
    /\ r.rbNext <= t /\ t - r.submittedAt >= Dwell
RebaseDueByAge(r, t) ==
    /\ r.kind = "MEDIA" /\ r.rebase = "PENDING"
    /\ r.archiveCopy = "DONE" /\ r.nodeCreated = "SUBMITTED"
    /\ r.rbNext <= t /\ t - r.createdAt >= Dwell

CreateDue(r, t) == r.kind = "MEDIA" /\ r.nodeCreated = "PENDING" /\ r.ncNext <= t
CopyDue(r, t)   == r.archiveCopy = "PENDING" /\ r.acNext <= t
RebaseDue(r, t) ==
    /\ r.kind = "MEDIA" /\ r.rebase = "PENDING"
    /\ r.archiveCopy = "DONE" /\ r.nodeCreated = "SUBMITTED"
    /\ r.rbNext <= t
    /\ t - r.submittedAt >= Dwell

\* The pass returns and its local variables go with it.
PassOver ==
    /\ pc' = "idle" /\ nowT' = 0 /\ todo' = {} /\ res' = "none"
    /\ snap' = [i \in {} |-> rows[i]]

Pending == {i \in Live : ~TerminalSQL(rows[i])}
First(i) == i \in todo /\ \A j \in todo : i <= j

StartPass ==
    /\ pc = "idle"
    /\ nowT' = now
    /\ snap' = [i \in Pending |-> rows[i]]
    /\ todo' = {i \in Pending : CreateDue(rows[i], now)}
    /\ pc' = "creating"
    /\ UNCHANGED <<now, shape, rows, fileVars, serverVars, worker, res, lastGC, faults, meddle>>

(* Phase 1 *)

DrainPost(i) ==
    /\ pc = "creating" /\ First(i)
    /\ \E answer \in {"ok", "err"} : PostNodeCreated(i, answer) /\ res' = answer
    /\ pc' = "posted"
    /\ UNCHANGED <<now, shape, rows, fileVars, node, worker, nowT, snap, todo, lastGC, meddle>>

\* A mark that fails leaves the row for the next pass.
Mark(i, row, next) ==
    /\ \/ rows' = [rows EXCEPT ![i] = row] /\ NoFault
       \/ UNCHANGED rows /\ Fault
    /\ todo' = todo \ {i} /\ res' = "none" /\ pc' = next
    /\ UNCHANGED <<now, shape, fileVars, serverVars, worker, nowT, snap, lastGC, meddle>>

\* Variant: the answer is not looked at.
DrainPostMarkAnyway(i) ==
    /\ pc = "posted" /\ First(i)
    /\ Mark(i, MarkNodeCreatedSubmitted(rows[i], nowT), "creating")

DrainPostMark(i) ==
    /\ pc = "posted" /\ First(i)
    /\ Mark(i, IF res = "ok" THEN MarkNodeCreatedSubmitted(rows[i], nowT)
               ELSE MarkNodeCreatedAttempt(rows[i], backoffFor(snap[i].ncTries + 1, nowT)),
            "creating")

(* Phase 2, CopyToArchive: examine, stage, place, verify *)

StartCopies ==
    /\ pc = "creating" /\ todo = {}
    /\ todo' = {i \in DOMAIN snap : CopyDue(snap[i], nowT)}
    /\ pc' = "copying"
    /\ UNCHANGED <<now, shape, rows, fileVars, serverVars, worker, nowT, snap, res, lastGC, faults, meddle>>

\* What CopyToArchive says of a file at the archive path that does not read
\* as the queued bytes: a read-back mismatch if it has the local copy's size,
\* else a conflict, which is fatal.  An edit may or may not change the size.
Unequal(i) ==
    CASE local[i] = "edited" -> {"mismatch", "fatal"}
      [] local[i] = "good" /\ archive[i] # "foreign" -> {"mismatch"}
      [] OTHER -> {"fatal"}

\* Variant: a file of the right size is taken for the copy.
ExamineBySize(i) ==
    /\ archive[i] # "none"
    /\ \/ archive[i] \in {"good", "twin"} /\ res' = "ok" /\ NoFault
       \/ archive[i] \in {"bad", "foreign"} /\ res' \in Unequal(i) /\ NoFault
    /\ pc' = "copied"

ExamineExisting(i) ==
    /\ archive[i] # "none"
    /\ \/ archive[i] = "good" /\ res' = "ok" /\ NoFault
       \/ archive[i] # "good" /\ res' \in Unequal(i) /\ NoFault
       \/ archive[i] = "good" /\ res' \in Unequal(i) /\ Fault
       \/ res' = "err" /\ Fault
    /\ pc' = "copied"

\* Nothing there: the local copy is streamed to the agent's temp name in the
\* archive directory and hashed on the way.
Stage(i) ==
    /\ archive[i] = "none"
    /\ \/ local[i] = "good" /\ pc' = "staged" /\ UNCHANGED res /\ NoFault
       \/ local[i] = "edited" /\ pc' = "copied" /\ res' = "fatal" /\ NoFault
       \/ local[i] \in {"temp", "gone"} /\ pc' = "copied" /\ res' = "err" /\ NoFault
       \/ pc' = "copied" /\ res' = "err" /\ Fault

CopyExamine(i) ==
    /\ pc = "copying" /\ First(i)
    /\ ExamineExisting(i) \/ Stage(i)
    /\ UNCHANGED <<now, shape, rows, fileVars, serverVars, worker, nowT, snap, todo, lastGC, meddle>>

\* Variant: a plain rename, which replaces what is there.
CopyPlaceOver(i) ==
    /\ pc = "staged" /\ First(i)
    /\ archive' = [archive EXCEPT ![i] = "good"] /\ pc' = "placed" /\ UNCHANGED res /\ NoFault
    /\ UNCHANGED <<now, shape, rows, local, serverVars, worker, nowT, snap, todo, lastGC, meddle>>

\* renameNoClobber; the NAS may not store what it was given.
CopyPlace(i) ==
    /\ pc = "staged" /\ First(i)
    /\ \/ archive[i] # "none" /\ pc' = "copied" /\ res' = "err" /\ UNCHANGED archive /\ NoFault
       \/ /\ archive[i] = "none" /\ pc' = "placed" /\ UNCHANGED res
          /\ \/ archive' = [archive EXCEPT ![i] = "good"] /\ NoFault
             \/ archive' = [archive EXCEPT ![i] = "bad"] /\ Fault
       \/ pc' = "copied" /\ res' = "err" /\ UNCHANGED archive /\ Fault
    /\ UNCHANGED <<now, shape, rows, local, serverVars, worker, nowT, snap, todo, lastGC, meddle>>

\* A copy that reads back wrong is removed; one that cannot be read is left.
CopyVerify(i) ==
    /\ pc = "placed" /\ First(i)
    /\ \/ archive[i] = "good" /\ res' = "ok" /\ UNCHANGED archive /\ NoFault
       \/ archive[i] = "bad" /\ res' = "mismatch" /\ archive' = [archive EXCEPT ![i] = "none"] /\ NoFault
       \/ archive[i] = "good" /\ res' = "mismatch" /\ archive' = [archive EXCEPT ![i] = "none"] /\ Fault
       \/ archive[i] = "bad" /\ res' = "mismatch" /\ UNCHANGED archive /\ Fault
       \/ res' = "err" /\ UNCHANGED archive /\ Fault
    /\ pc' = "copied"
    /\ UNCHANGED <<now, shape, rows, local, serverVars, worker, nowT, snap, todo, lastGC, meddle>>

\* Variant: no grace retry.
everyMismatch(r) == res = "mismatch"

\* A second read-back mismatch in a row is given up on, a first is retried.
repeatMismatch(r) == res = "mismatch" /\ r.acTries > 0 /\ r.acMismatch

CopyMark(i) ==
    /\ pc = "copied" /\ First(i)
    /\ Mark(i, IF res = "ok" THEN MarkArchiveCopyDone(rows[i])
               ELSE IF res = "fatal" \/ repeatMismatch(snap[i])
               THEN MarkArchiveCopyFailed(rows[i], res = "mismatch")
               ELSE MarkArchiveCopyAttempt(rows[i], res = "mismatch",
                                           backoffFor(snap[i].acTries + 1, nowT)),
            "copying")

(* Phase 3 *)

StartRebases ==
    /\ pc = "copying" /\ todo = {}
    /\ snap' = [i \in Pending |-> rows[i]]
    /\ todo' = {i \in Pending : RebaseDue(rows[i], nowT)}
    /\ pc' = "rebasing"
    /\ UNCHANGED <<now, shape, rows, fileVars, serverVars, worker, nowT, res, lastGC, faults, meddle>>

DrainRebase(i) ==
    /\ pc = "rebasing" /\ First(i)
    /\ \E answer \in {"ok", "err", "fatal"} : Rebase(i, answer) /\ res' = answer
    /\ pc' = "answered"
    /\ UNCHANGED <<now, shape, rows, fileVars, acceptedAt, worker, nowT, snap, todo, lastGC, meddle>>

DrainRebaseMark(i) ==
    /\ pc = "answered" /\ First(i)
    /\ Mark(i, IF res = "ok" THEN MarkRebaseDone(rows[i])
               ELSE IF res = "fatal" THEN MarkRebaseFailed(rows[i])
               ELSE MarkRebaseAttempt(rows[i], backoffFor(snap[i].rbTries + 1, nowT)),
            "rebasing")

(* The sweep *)

gcDue == lastGC = Never \/ nowT - lastGC >= GCInterval

\* CollectGarbageIfDue lists the candidates, or the pass is over.
StartSweep ==
    /\ pc = "rebasing" /\ todo = {}
    /\ \/ /\ gcDue /\ pc' = "collecting"
          /\ todo' = {i \in Live : FinishedOld(rows[i], nowT - Retention)}
          /\ UNCHANGED <<nowT, snap, res>>
       \/ ~gcDue /\ PassOver
    /\ UNCHANGED <<now, shape, rows, fileVars, serverVars, worker, lastGC, faults, meddle>>

\* One candidate: gone from its local path and still finished, it is deleted.
Collect(i) ==
    /\ pc = "collecting" /\ First(i)
    /\ rows' = IF local[i] \in {"temp", "gone"} /\ i \in Live /\ FinishedOld(rows[i], nowT - Retention)
               THEN [j \in Live \ {i} |-> rows[j]]
               ELSE rows
    /\ todo' = todo \ {i}
    /\ UNCHANGED <<now, shape, fileVars, serverVars, worker, pc, nowT, snap, res, lastGC, faults, meddle>>

EndSweep ==
    /\ pc = "collecting" /\ todo = {}
    /\ lastGC' = nowT /\ PassOver
    /\ UNCHANGED <<now, shape, rows, fileVars, serverVars, worker, faults, meddle>>

\* A listing of queue.db fails: the pass returns early (or the sweep does,
\* which then does not count as done).
AbortPass ==
    /\ \/ pc \in {"copying", "rebasing"} /\ todo = {}
       \/ pc = "collecting"
    /\ Fault /\ PassOver
    /\ UNCHANGED <<now, shape, rows, fileVars, serverVars, worker, lastGC, meddle>>

-----------------------------------------------------------------------------
(* Everybody else *)

\* The process dies: what is not in queue.db or on a disk is gone.
Crash ==
    /\ pc # "idle" \/ \E i \in Ids : worker[i] \notin {"new", "end"}
    /\ Fault /\ PassOver /\ lastGC' = Never
    /\ worker' = [i \in Ids |-> IF worker[i] = "new" THEN "new" ELSE "end"]
    /\ UNCHANGED <<now, shape, rows, fileVars, serverVars, meddle>>

\* A card re-insert finds the row and, while its archive copy is pending,
\* restores the local copy from the temp file or from the card
\* (completeResumedLocalCopy).
ResumeLocalCopy(i) ==
    /\ i \in Live /\ worker[i] = "end" /\ Meddle
    /\ rows[i].archiveCopy = "PENDING" /\ local[i] \in {"temp", "gone"}
    /\ local' = [local EXCEPT ![i] = "good"]
    /\ UNCHANGED <<now, shape, rows, archive, serverVars, worker, passVars, faults>>

UserTouchesLocal(i) ==
    /\ Meddle
    /\ \/ local[i] = "good" /\ local' = [local EXCEPT ![i] = "edited"]
       \/ local[i] \in {"good", "edited"} /\ local' = [local EXCEPT ![i] = "gone"]
    /\ UNCHANGED <<now, shape, rows, archive, serverVars, worker, passVars, faults>>

\* Somebody else puts a file at a free archive path (an identical one counts
\* as good), or moves aside a file that is not the archived one, though not
\* in the instant between the agent's rename and its read-back.
FileAppears(i) ==
    /\ Meddle /\ archive[i] = "none"
    /\ \E f \in {"foreign", "twin", "good"} : archive' = [archive EXCEPT ![i] = f]
    /\ UNCHANGED <<now, shape, rows, local, serverVars, worker, passVars, faults>>

OperatorMovesAside(i) ==
    /\ Meddle /\ archive[i] \in {"bad", "foreign", "twin"} /\ pc # "placed"
    /\ archive' = [archive EXCEPT ![i] = "none"]
    /\ UNCHANGED <<now, shape, rows, local, serverVars, worker, passVars, faults>>

OperatorRestoresLocal(i) ==
    /\ Meddle /\ local[i] \in {"edited", "gone"}
    /\ local' = [local EXCEPT ![i] = "good"]
    /\ UNCHANGED <<now, shape, rows, archive, serverVars, worker, passVars, faults>>

\* ResetFailed (all rows) and ResetFailedNode (one of them).
ResetFailed(which) ==
    /\ Meddle /\ \E i \in which \cap Live : Failed(rows[i])
    /\ rows' = [i \in Live |-> IF i \in which THEN resetFailed(rows[i]) ELSE rows[i]]
    /\ UNCHANGED <<now, shape, fileVars, serverVars, worker, passVars, faults>>

\* Work that would be done at once were the drainer not behind.
Behind ==
    \/ \E i \in Ids : worker[i] \notin {"new", "end"}
    \/ \E i \in Pending : CreateDue(rows[i], now) \/ CopyDue(rows[i], now) \/ RebaseDue(rows[i], now)

\* Time goes on, but during a pass no longer than MaxPass, and not past the
\* time by which the server has applied what it accepted.
Tick ==
    /\ now < MaxTime
    /\ now >= Quiet => ~Behind
    /\ pc # "idle" => now < nowT + MaxPass
    /\ \A i \in Ids : Unapplied(i) => now < acceptedAt[i] + ServerLag
    /\ now' = now + 1
    /\ UNCHANGED <<shape, rows, fileVars, serverVars, worker, passVars, faults, meddle>>

-----------------------------------------------------------------------------
IngestStep(i) == PlaceLocal(i) \/ InlinePost(i) \/ InlineMark(i)

PassStep ==
    \/ StartPass \/ StartCopies \/ StartRebases \/ StartSweep \/ EndSweep \/ AbortPass
    \/ \E i \in Ids : \/ DrainPost(i) \/ DrainPostMark(i)
                      \/ CopyExamine(i) \/ CopyPlace(i) \/ CopyVerify(i) \/ CopyMark(i)
                      \/ DrainRebase(i) \/ DrainRebaseMark(i)
                      \/ Collect(i)

PeopleStep ==
    \/ \E i \in Ids : \/ ResumeLocalCopy(i) \/ UserTouchesLocal(i) \/ FileAppears(i)
                      \/ OperatorMovesAside(i) \/ OperatorRestoresLocal(i)
                      \/ ResetFailed({i})
    \/ ResetFailed(Ids)

Next ==
    \/ \E i \in Ids : Insert(i) \/ IngestStep(i) \/ ServerApply(i)
    \/ PassStep \/ PeopleStep \/ Crash \/ Tick

Spec == Init /\ [][Next]_vars

\* Passes are run again and again and no call in one blocks for ever (every
\* request has a timeout), a running worker goes on, the server applies what
\* it accepted, and time passes.
Fairness ==
    /\ WF_vars(PassStep)
    /\ \A i \in Ids : WF_vars(IngestStep(i)) /\ WF_vars(ServerApply(i))
    /\ SF_vars(Tick)

FairSpec == Spec /\ Fairness

-----------------------------------------------------------------------------
(* What must hold *)

\* An archive copy is recorded DONE only when the archive path holds the
\* queued bytes, whatever the NAS, other users of the archive, failing marks
\* and crashes did on the way (CopyToArchive's verify, Drain's phase 2).
ArchivedIsVerified == \A i \in Live : rows[i].archiveCopy = "DONE" => archive[i] = "good"

\* The server never has a node at a Tier-3 path that does not hold the bytes:
\* a rebase is sent only after the verified copy (docs/offline-queue.md,
\* ordering invariant 3), also when its answer is lost.
Tier3IsArchived == \A i \in Ids : node[i] \in {"tier3", "bare"} => archive[i] = "good"

\* A row recorded SUBMITTED was accepted by the server; the record may be
\* missing after a crash, never wrong.
SubmittedWasAccepted ==
    \A i \in Live : rows[i].nodeCreated = "SUBMITTED" => acceptedAt[i] # Never

\* The sweep forgets a file only when it is archived and, if it is media,
\* known to the server: nothing that queue.db alone remembers is collected.
CollectedIsSafe ==
    \A i \in Ids : worker[i] # "new" /\ i \notin Live =>
        archive[i] = "good" /\ (shape[i][1] = "MEDIA" => acceptedAt[i] # Never)

\* No rebase overtakes the event it depends on: the dwell is long enough if
\* a pass and the server's own lag together are shorter (MinRebaseDwell).
NoBareNode == \A i \in Ids : node[i] # "bare"

\* Every row is in exactly one of the buckets the tray shows (Store.Counts).
Bucketed ==
    \A i \in Live :
        LET bucket == <<AwaitingUpload(rows[i]), AwaitingRebase(rows[i]), Failed(rows[i]), CountedDone(rows[i])>>
        IN  \E b \in 1..4 : \A c \in 1..4 : bucket[c] <=> c = b

\* One failing call never fails a row for good (the grace retry after a
\* read-back mismatch, transient classification): with nobody meddling and
\* a single fault, every archive copy stays retriable.
OneFaultIsSurvived ==
    MaxFaults - faults <= 1 /\ meddle = MaxMeddle => \A i \in Live : rows[i].archiveCopy # "FAILED"

\* A file the agent did not write is never overwritten or removed by it.
ForeignUntouched ==
    [][\A i \in Ids : archive[i] \in {"foreign", "twin"} =>
          archive'[i] = archive[i] \/ OperatorMovesAside(i)]_vars

\* What is done stays done, and what failed stays failed until somebody
\* resets it, although passes write from snapshots without looking again.
NoRegression ==
    [][\A i \in Live \cap Live' :
          /\ rows[i].nodeCreated = "SUBMITTED" => rows'[i].nodeCreated = "SUBMITTED"
          /\ rows[i].archiveCopy = "DONE" => rows'[i].archiveCopy = "DONE"
          /\ rows[i].rebase = "DONE" => rows'[i].rebase = "DONE"
          /\ Failed(rows[i]) => Failed(rows'[i]) \/ meddle' < meddle]_vars

\* A row whose local copy is in place is carried to its end (done, failed
\* for an operator to see, or collected) unless the user removes that copy.
EventuallySettled ==
    \A i \in Ids :
        i \in Live /\ worker[i] = "end" /\ local[i] \in {"good", "edited"}
            ~> i \notin Live \/ Done(rows[i]) \/ local[i] = "gone"

\* Every media file gets to the server, however often the POST or the
\* recording of it fails, unless its archive copy fails first.
EventuallyRegistered ==
    \A i \in Ids :
        i \in Live /\ shape[i][1] = "MEDIA"
            ~> node[i] # "none" \/ (i \in Live /\ rows[i].archiveCopy = "FAILED")

-----------------------------------------------------------------------------
(* Why it holds: an invariant that every step preserves *)

\* A file not yet ingested is unknown to queue.db and to the server.
Unknown ==
    \A i \in Ids : worker[i] = "new" => i \notin Live /\ acceptedAt[i] = Never /\ node[i] = "none"

\* Rows have the steps of their shape, and reach them in order.
RowOrder ==
    \A i \in Live :
        /\ <<rows[i].kind, rows[i].origin>> = shape[i]
        /\ rows[i].archiveCopy # "SKIPPED" /\ rows[i].upload = "SKIPPED"
        /\ rows[i].kind = "MEDIA" => rows[i].nodeCreated # "SKIPPED"
        /\ shape[i] = <<"MEDIA", "OFFLINE">> => rows[i].rebase # "SKIPPED"
        /\ rows[i].rebase \in {"DONE", "FAILED"} =>
              rows[i].archiveCopy = "DONE" /\ rows[i].nodeCreated = "SUBMITTED"

\* An answer in hand is the server's or the NAS's.
Answers ==
    /\ \A i \in Ids : worker[i] = "accepted" => acceptedAt[i] # Never
    /\ pc = "posted" /\ res = "ok" => \A i \in Ids : First(i) => acceptedAt[i] # Never
    /\ pc = "placed" => \A i \in Ids : First(i) => archive[i] \in {"good", "bad"}
    /\ pc = "copied" /\ res = "ok" => \A i \in Ids : First(i) => archive[i] = "good"

\* The snapshot a pass works from is not out of date where it matters: the
\* steps it is about to take are still to be taken.
SnapshotFresh ==
    /\ todo \subseteq Live
    /\ pc = "idle" => todo = {}
    /\ pc \notin {"idle", "collecting"} => todo \subseteq DOMAIN snap
    /\ pc \in {"creating", "posted"} =>
          \A i \in DOMAIN snap : i \in Live /\ (snap[i].archiveCopy = "PENDING" => rows[i].archiveCopy = "PENDING")
    /\ pc \in {"copying", "staged", "placed", "copied"} =>
          \A i \in todo : rows[i].archiveCopy = "PENDING"
    /\ pc \in {"rebasing", "answered"} =>
          \A i \in todo : /\ rows[i].archiveCopy = "DONE" /\ rows[i].nodeCreated = "SUBMITTED"
                         /\ rows[i].rebase = "PENDING"

\* What the server holds at a Tier-3 path, or online ingest wrote, is
\* archived and is recorded so.
Tier3Recorded ==
    \A i \in Ids :
        \/ node[i] \in {"tier3", "bare"}
        \/ worker[i] # "new" /\ shape[i][2] = "ONLINE"
        => archive[i] = "good" /\ (i \in Live => rows[i].archiveCopy = "DONE")

\* Together with the properties they support, preserved by every step.
DrainInv ==
    /\ TypeOK /\ Unknown /\ RowOrder /\ Answers /\ SnapshotFresh /\ Tier3Recorded
    /\ ArchivedIsVerified /\ SubmittedWasAccepted /\ CollectedIsSafe

\* The clock, the pass and the server keep their bounds; a row's submission
\* time is at most a pass older than its acceptance; and so, when the dwell
\* is over, the server has applied the event.
InTime ==
    /\ \A i \in Ids : acceptedAt[i] <= now /\ (Unapplied(i) => now <= acceptedAt[i] + ServerLag)
    /\ pc # "idle" => nowT <= now /\ now <= nowT + MaxPass
SubmittedInPass ==
    \A i \in Live : rows[i].nodeCreated = "SUBMITTED" => acceptedAt[i] <= rows[i].submittedAt + MaxPass
AppliedBeforeRebase == pc \in {"rebasing", "answered"} => \A i \in todo : node[i] # "none"
DwellInv == InTime /\ SubmittedInPass /\ AppliedBeforeRebase /\ NoBareNode


\* With nobody meddling and at most one fault so far.  The fault leaves a
\* trace at one place only: a copy that is stored wrong and about to be read
\* back, a mismatch about to be recorded, or a mismatch on record, which
\* the grace retry needs not to be followed by another.
Calm      == meddle = MaxMeddle /\ faults >= MaxFaults - 1
Stored(f) == \E i \in Ids : archive[i] = f
OnRecord  == \/ \E i \in Live : rows[i].acMismatch
             \/ \E i \in DOMAIN snap : snap[i].acMismatch

\* Nobody but the agent touched a file, and it archives from a whole copy.
OwnFiles ==
    /\ \A i \in Ids : /\ local[i] \in {"none", "temp", "good"} /\ archive[i] \in {"none", "good", "bad"}
                      /\ archive[i] # "none" => local[i] = "good" /\ worker[i] # "new"
    /\ pc = "staged" => \A i \in Ids : First(i) => local[i] = "good"

OneTrace ==
    /\ faults = MaxFaults => ~Stored("bad") /\ res \notin {"fatal", "mismatch"} /\ ~OnRecord
    /\ \A i \in Ids : archive[i] = "bad" => pc = "placed" /\ First(i)
    /\ res = "mismatch" => pc = "copied"
    /\ res = "fatal" => pc = "answered"
    /\ Stored("bad") \/ res = "mismatch" => ~OnRecord

NoneFailed == \A i \in Live : rows[i].archiveCopy # "FAILED"

OneFaultInv ==
    /\ meddle <= MaxMeddle /\ faults <= MaxFaults
    /\ Calm => OwnFiles /\ OneTrace /\ NoneFailed
=============================================================================
