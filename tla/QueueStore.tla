----------------------------- MODULE QueueStore -----------------------------
(***************************************************************************)
(* The rows of queue.db and what internal/queue.Store does to one of them. *)
(*                                                                         *)
(* A row carries four step statuses (node_created, archive_copy, rebase,   *)
(* upload), each PENDING until done, failed or skipped, with its own       *)
(* attempt counter and next-attempt time.  This module has no variables:   *)
(* every Store method that changes a row is an operator from the old row   *)
(* to the new one, so a specification applies it with                      *)
(*    rows' = [rows EXCEPT ![i] = MarkRebaseDone(@)].                      *)
(* An UPDATE whose WHERE matches no row changes nothing, and so does       *)
(* EXCEPT at an index outside the domain.                                  *)
(*                                                                         *)
(* Paths, hashes, payloads and error texts are left out; of the last error *)
(* of an archive copy the model keeps what Drain reads back from it (was   *)
(* it a read-back mismatch).                                               *)
(***************************************************************************)
EXTENDS Integers

CONSTANTS
    BackoffBase,  \* backoffBase, the delay after the first failed attempt
    BackoffCap,   \* backoffCap, the longest delay
    MaxTries      \* bound: attempt counters saturate here

(* The counters may saturate because past MaxTries attempts the delay is at *)
(* its cap already, and nothing else tells one count above 0 from another. *)
ASSUME BackoffAssumption ==
    /\ BackoffBase \in Nat \ {0}
    /\ BackoffCap \in Nat
    /\ BackoffBase <= BackoffCap
    /\ MaxTries \in Nat \ {0}
    /\ BackoffBase * 2^(MaxTries - 1) >= BackoffCap

-----------------------------------------------------------------------------
Kind   == {"MEDIA", "SIDECAR"}
Origin == {"OFFLINE", "ONLINE", "UPLOAD"}

Row == [kind        : Kind,
        origin      : Origin,
        nodeCreated : {"PENDING", "SUBMITTED", "SKIPPED"},
        ncTries     : 0..MaxTries,
        ncNext      : Nat,
        submittedAt : Nat,
        archiveCopy : {"PENDING", "DONE", "SKIPPED", "FAILED"},
        acTries     : 0..MaxTries,
        acNext      : Nat,
        acMismatch  : BOOLEAN,
        rebase      : {"PENDING", "DONE", "SKIPPED", "FAILED"},
        rbTries     : 0..MaxTries,
        rbNext      : Nat,
        upload      : {"PENDING", "DONE", "SKIPPED", "FAILED"},
        upTries     : 0..MaxTries,
        upNext      : Nat,
        createdAt   : Nat]

\* Store.InsertPending: the steps a row needs follow from its kind and origin.
InsertPending(kind, origin, t) ==
    [kind        |-> kind,
     origin      |-> origin,
     nodeCreated |-> IF kind = "SIDECAR" \/ origin = "UPLOAD" THEN "SKIPPED" ELSE "PENDING",
     ncTries     |-> 0,
     ncNext      |-> 0,
     submittedAt |-> 0,
     archiveCopy |-> CASE origin = "OFFLINE" -> "PENDING"
                       [] origin = "ONLINE"  -> "DONE"
                       [] OTHER              -> "SKIPPED",
     acTries     |-> 0,
     acNext      |-> 0,
     acMismatch  |-> FALSE,
     rebase      |-> IF kind = "SIDECAR" \/ origin # "OFFLINE" THEN "SKIPPED" ELSE "PENDING",
     rbTries     |-> 0,
     rbNext      |-> 0,
     upload      |-> IF origin = "UPLOAD" THEN "PENDING" ELSE "SKIPPED",
     upTries     |-> 0,
     upNext      |-> 0,
     createdAt   |-> t]

-----------------------------------------------------------------------------
(* Reading a row *)

\* Record.Done
Done(r) ==
    /\ ~(r.origin = "ONLINE" /\ r.nodeCreated = "PENDING")
    /\ r.upload # "PENDING"
    /\ \/ r.archiveCopy = "FAILED"
       \/ /\ r.archiveCopy \in {"DONE", "SKIPPED"}
          /\ r.rebase \in {"DONE", "SKIPPED", "FAILED"}

\* Record.Failed, failedSQL
Failed(r) == "FAILED" \in {r.archiveCopy, r.rebase, r.upload}

\* terminalSQL, the database's own statement of Done
TerminalSQL(r) ==
    /\ \/ /\ r.archiveCopy \in {"DONE", "SKIPPED"}
          /\ r.rebase \in {"DONE", "SKIPPED", "FAILED"}
       \/ r.archiveCopy = "FAILED"
    /\ ~(r.origin = "ONLINE" /\ r.nodeCreated = "PENDING")
    /\ r.upload # "PENDING"

\* Variant: the failed clause forgotten in the done count.
CountedDoneAnyEnd(r) == TerminalSQL(r)

\* The four buckets Store.Counts sums over.
AwaitingUpload(r) == r.archiveCopy = "PENDING" \/ r.upload = "PENDING"
AwaitingRebase(r) == r.archiveCopy = "DONE" /\ ~TerminalSQL(r)
CountedDone(r)    == TerminalSQL(r) /\ ~Failed(r)

\* Variant: the sweep takes every row that is over, a failed one too.
FinishedOldAnyEnd(r, cutoff) == TerminalSQL(r) /\ r.createdAt < cutoff

\* finishedOld, but for the clause about master rows of unfinished sidecars
FinishedOld(r, cutoff) == TerminalSQL(r) /\ ~Failed(r) /\ r.createdAt < cutoff

-----------------------------------------------------------------------------
(* Changing a row *)

\* One more attempt, saturating.
Bump(n) == IF n < MaxTries THEN n + 1 ELSE n

\* backoffFor: base * 2^(attempts-1), never more than the cap.
backoffFor(attempts, t) ==
    LET n == IF attempts < 1 THEN 1 ELSE attempts
        d == BackoffBase * 2^(n - 1)
    IN  t + (IF d \in 0..BackoffCap THEN d ELSE BackoffCap)

MarkNodeCreatedSubmitted(r, t) == [r EXCEPT !.nodeCreated = "SUBMITTED", !.submittedAt = t]

\* Variant: the status written along with the attempt.
MarkNodeCreatedPending(r, next) ==
    [r EXCEPT !.nodeCreated = "PENDING", !.ncTries = Bump(@), !.ncNext = next]

MarkNodeCreatedAttempt(r, next) == [r EXCEPT !.ncTries = Bump(@), !.ncNext = next]

MarkArchiveCopyDone(r) == [r EXCEPT !.archiveCopy = "DONE"]

MarkArchiveCopyAttempt(r, mismatch, next) ==
    [r EXCEPT !.acTries = Bump(@), !.acMismatch = mismatch, !.acNext = next]

MarkArchiveCopyFailed(r, mismatch) ==
    [r EXCEPT !.archiveCopy = "FAILED", !.acMismatch = mismatch]

MarkRebaseDone(r) == [r EXCEPT !.rebase = "DONE"]

MarkRebaseAttempt(r, next) == [r EXCEPT !.rbTries = Bump(@), !.rbNext = next]

MarkRebaseFailed(r) == [r EXCEPT !.rebase = "FAILED"]

MarkUploadAttempt(r, next) ==
    IF r.upload = "PENDING" THEN [r EXCEPT !.upTries = Bump(@), !.upNext = next] ELSE r

MarkUploadFailed(r) == IF r.upload = "PENDING" THEN [r EXCEPT !.upload = "FAILED"] ELSE r

MarkUploadDone(r) == IF r.upload \in {"PENDING", "FAILED"} THEN [r EXCEPT !.upload = "DONE"] ELSE r

\* resetFailed on one row, the three UPDATEs of its transaction: a FAILED
\* step starts over; its last error stays.
resetArchiveCopy(r) ==
    IF r.archiveCopy = "FAILED"
    THEN [r EXCEPT !.archiveCopy = "PENDING", !.acTries = 0, !.acNext = 0] ELSE r
resetRebase(r) ==
    IF r.rebase = "FAILED"
    THEN [r EXCEPT !.rebase = "PENDING", !.rbTries = 0, !.rbNext = 0] ELSE r
resetUpload(r) ==
    IF r.upload = "FAILED"
    THEN [r EXCEPT !.upload = "PENDING", !.upTries = 0, !.upNext = 0] ELSE r
resetFailed(r) == resetUpload(resetRebase(resetArchiveCopy(r)))

=============================================================================
