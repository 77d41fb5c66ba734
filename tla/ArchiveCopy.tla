---------------------------- MODULE ArchiveCopy ----------------------------
(***************************************************************************)
(* CopyToArchive (internal/ingest/offline_write.go), one system call at a  *)
(* time, on one queue row, with its temp file, and what Drain then writes  *)
(* to the row.  Drain abstracts from the temp name; here two processes may *)
(* work on the row (`queue-drain -watch` alongside a running tray) and     *)
(* share it: the name is the same for every attempt.                       *)
(*                                                                         *)
(* A directory entry holds what a reader finds there.  A file that is      *)
(* still being written is named by its writer; writing goes on under any   *)
(* name the file has been moved to, and after it was removed.              *)
(***************************************************************************)
EXTENDS Naturals

CONSTANTS
    Copiers,    \* the processes that drain
    MaxFaults,  \* bound: reads and writes that go wrong
    MaxMeddle   \* bound: what users do at the local and the archive name

File == {"none", "whole", "bad", "foreign"}

ASSUME ArchiveCopyAssumption ==
    /\ MaxFaults \in Nat /\ MaxMeddle \in Nat
    /\ Copiers \cap File = {}

VARIABLES
    local,     \* the local copy: good, edited, none
    tmp, final,\* the temp and the archive name
    status,    \* archive_copy_status
    mismatch,  \* the last attempt of the row read back wrong
    pc, res,   \* of every process its step and CopyToArchive's result
    seen,      \* the row's mismatch as the process listed it
    src,       \* what the process read from the local copy
    faults, meddle

rowVars == <<status, mismatch>>
vars == <<local, tmp, final, rowVars, pc, res, seen, src, faults, meddle>>

TypeOK ==
    /\ local \in {"good", "edited", "none"}
    /\ {tmp, final} \subseteq File \cup {p \in Copiers : pc[p] = "writing"}
    /\ status \in {"PENDING", "DONE", "FAILED"} /\ mismatch \in BOOLEAN
    /\ pc \in [Copiers -> {"idle", "listed", "clean", "create", "writing", "written", "rename",
                           "move", "verify", "undo", "mark"}]
    /\ res \in [Copiers -> {"ok", "err", "mismatch", "fatal"}]
    /\ seen \in [Copiers -> BOOLEAN] /\ src \in [Copiers -> {"good", "edited"}]
    /\ faults \in 0..MaxFaults /\ meddle \in 0..MaxMeddle

Init ==
    /\ local = "good" /\ tmp = "none" /\ final \in {"none", "foreign"}
    /\ status = "PENDING" /\ mismatch = FALSE
    /\ pc = [p \in Copiers |-> "idle"] /\ res = [p \in Copiers |-> "err"]
    /\ seen = [p \in Copiers |-> FALSE] /\ src = [p \in Copiers |-> "good"]
    /\ faults = MaxFaults /\ meddle = MaxMeddle

Fault   == faults > 0 /\ faults' = faults - 1
NoFault == UNCHANGED faults
Meddle  == meddle > 0 /\ meddle' = meddle - 1

Step(p, to)   == pc' = [pc EXCEPT ![p] = to] /\ UNCHANGED res
Result(p, r)  == pc' = [pc EXCEPT ![p] = "mark"] /\ res' = [res EXCEPT ![p] = r]

-----------------------------------------------------------------------------
(* CopyToArchive *)

\* Drain lists its rows at the start of a pass.
List(p) ==
    /\ pc[p] = "idle" /\ status = "PENDING"
    /\ seen' = [seen EXCEPT ![p] = mismatch] /\ Step(p, "listed")
    /\ UNCHANGED <<local, tmp, final, rowVars, src, faults, meddle>>

\* What is at the archive name does not read as the copy: it has the local
\* copy's size and may be the agent's own, or it is a conflict.
Differs(p) ==
    \/ local # "none" /\ Result(p, "mismatch")
    \/ ~(final = "whole" /\ local = "good") /\ Result(p, "fatal")

Examine(p) ==
    /\ pc[p] = "listed"
    /\ \/ final = "none" /\ Step(p, "clean") /\ NoFault
       \/ final = "whole" /\ Result(p, "ok") /\ NoFault
       \/ final \notin {"none", "whole"} /\ Differs(p) /\ NoFault
       \/ final # "none" /\ Differs(p) /\ Fault
       \/ Result(p, "err") /\ Fault
    /\ UNCHANGED <<local, tmp, final, rowVars, seen, src, meddle>>

\* Whatever is at the temp name is taken for a leftover; the local copy is
\* opened.
Clean(p) ==
    /\ pc[p] = "clean" /\ tmp' = "none"
    /\ \/ local = "none" /\ Result(p, "err") /\ UNCHANGED src
       \/ local # "none" /\ Step(p, "create") /\ src' = [src EXCEPT ![p] = local]
    /\ UNCHANGED <<local, final, rowVars, seen, faults, meddle>>

Create(p) ==
    /\ pc[p] = "create"
    /\ \/ tmp = "none" /\ tmp' = p /\ Step(p, "writing")
       \/ tmp # "none" /\ Result(p, "err") /\ UNCHANGED tmp
    /\ UNCHANGED <<local, final, rowVars, seen, src, faults, meddle>>

\* Wherever the file is by now, its bytes are complete.
Written(p, f) == IF f = p THEN (IF src[p] = "good" THEN "whole" ELSE "bad") ELSE f

\* What is left of a file whose writer stops.
Orphaned(p, f) == IF f = p THEN "bad" ELSE f

Write(p) ==
    /\ pc[p] = "writing"
    /\ \/ /\ tmp' = Written(p, tmp) /\ final' = Written(p, final) /\ Step(p, "written") /\ NoFault
       \/ /\ tmp' = "none" /\ final' = Orphaned(p, final) /\ Result(p, "err") /\ Fault
    /\ UNCHANGED <<local, rowVars, seen, src, meddle>>

\* The hash of the bytes that were streamed.
HashMatches(p) == src[p] = "good"

HashCheck(p) ==
    /\ pc[p] = "written"
    /\ \/ HashMatches(p) /\ Step(p, "rename") /\ UNCHANGED tmp
       \/ ~HashMatches(p) /\ tmp' = "none" /\ Result(p, "fatal")
    /\ UNCHANGED <<local, final, rowVars, seen, src, faults, meddle>>

\* Variant: os.Rename alone, which replaces what is there.
Replace(p) == tmp' = "none" /\ final' = tmp /\ Step(p, "verify")

Refuse(p) == tmp' = "none" /\ UNCHANGED final /\ Result(p, "err")

\* renameNoClobber looks, then renames.
Rename(p) ==
    /\ pc[p] = "rename"
    /\ \/ final = "none" /\ Step(p, "move") /\ UNCHANGED <<tmp, final>>
       \/ final # "none" /\ Refuse(p)
    /\ UNCHANGED <<local, rowVars, seen, src, faults, meddle>>

Move(p) ==
    /\ pc[p] = "move" /\ tmp' = "none"
    /\ \/ tmp # "none" /\ final' = tmp /\ Step(p, "verify") /\ NoFault
       \/ tmp = "whole" /\ final' = "bad" /\ Step(p, "verify") /\ Fault
       \/ tmp = "none" /\ UNCHANGED final /\ Result(p, "err") /\ NoFault
    /\ UNCHANGED <<local, rowVars, seen, src, meddle>>

\* Read back; a wrong copy is removed, an unreadable one left.
Verify(p) ==
    /\ pc[p] = "verify"
    /\ \/ final = "whole" /\ Result(p, "ok") /\ NoFault
       \/ final \notin {"none", "whole"} /\ Step(p, "undo") /\ NoFault
       \/ final = "none" /\ Result(p, "err") /\ NoFault
       \/ final = "whole" /\ Step(p, "undo") /\ Fault
       \/ Result(p, "err") /\ Fault
    /\ UNCHANGED <<local, tmp, final, rowVars, seen, src, meddle>>

Undo(p) ==
    /\ pc[p] = "undo" /\ final' = "none" /\ Result(p, "mismatch")
    /\ UNCHANGED <<local, tmp, rowVars, seen, src, faults, meddle>>

\* Drain: done, given up, or to be tried again.
Mark(p) ==
    /\ pc[p] = "mark" /\ Step(p, "idle")
    /\ \/ res[p] = "ok" /\ status' = "DONE" /\ UNCHANGED mismatch
       \/ /\ res[p] = "fatal" \/ (res[p] = "mismatch" /\ seen[p])
          /\ status' = "FAILED" /\ mismatch' = (res[p] = "mismatch")
       \/ /\ res[p] = "err" \/ (res[p] = "mismatch" /\ ~seen[p])
          /\ UNCHANGED status /\ mismatch' = (res[p] = "mismatch")
    /\ UNCHANGED <<local, tmp, final, seen, src, faults, meddle>>

Crash(p) ==
    /\ pc[p] # "idle" /\ Step(p, "idle") /\ Fault
    /\ tmp' = Orphaned(p, tmp) /\ final' = Orphaned(p, final)
    /\ UNCHANGED <<local, rowVars, seen, src, meddle>>

\* ResetFailed: the row has its grace retry again.
ResetFailed ==
    /\ status = "FAILED" /\ status' = "PENDING" /\ mismatch' = FALSE
    /\ UNCHANGED <<local, tmp, final, pc, res, seen, src, faults, meddle>>

\* The local copy is edited, removed or restored; an edit in place reaches
\* the process that reads the file.
EditLocal ==
    /\ Meddle /\ local' \in {"good", "edited", "none"} \ {local}
    /\ \/ UNCHANGED src
       \/ /\ local = "good" /\ local' = "edited"
          /\ src' = [p \in Copiers |-> IF pc[p] \in {"create", "writing"} THEN "edited" ELSE src[p]]
    /\ UNCHANGED <<tmp, final, rowVars, pc, res, seen, faults>>

\* Another tool puts a file at the archive name; the operator moves it away.
\* Nobody else acts between renameNoClobber's two calls.
ForeignFile ==
    /\ Meddle /\ \A p \in Copiers : pc[p] \notin {"move", "undo"}
    /\ \/ final = "none" /\ final' = "foreign"
       \/ final = "foreign" /\ final' = "none"
    /\ UNCHANGED <<local, tmp, rowVars, pc, res, seen, src, faults>>

Next ==
    \/ \E p \in Copiers : \/ List(p) \/ Examine(p) \/ Clean(p) \/ Create(p) \/ Write(p) \/ HashCheck(p)
                          \/ Rename(p) \/ Move(p) \/ Verify(p) \/ Undo(p) \/ Mark(p) \/ Crash(p)
    \/ ResetFailed \/ EditLocal \/ ForeignFile

Spec == Init /\ [][Next]_vars

-----------------------------------------------------------------------------
(* Properties *)

slotOf == IF final = "none" THEN "empty" ELSE IF final = "whole" THEN "whole" ELSE "other"

Slot == INSTANCE ArchiveSlot WITH slot <- slotOf

(* CopyToArchive and Drain keep the promise of ArchiveSlot: no crash, bad  *)
(* read, edit or foreign file makes a row DONE without its bytes, takes    *)
(* them away afterwards, or puts bytes over another file.                  *)
KeepsSlot == Slot!Spec

(* What one process at a time keeps: a row it works on is PENDING, its     *)
(* temp file is the one it wrote, no file is moved before it is complete,  *)
(* and the name it renames to is free.                                     *)
CopyInv ==
    /\ \A p \in Copiers : /\ pc[p] # "idle" => status = "PENDING"
                          /\ pc[p] = "writing" => tmp = p
                          /\ pc[p] = "written" /\ src[p] = "good" => tmp = "whole"
                          /\ pc[p] \in {"rename", "move"} => tmp = "whole"
                          /\ pc[p] = "move" => final = "none"
                          /\ pc[p] = "mark" /\ res[p] = "ok" => final = "whole"
    /\ final \in File
    /\ status = "DONE" => final = "whole"
=============================================================================
