------------------------------- MODULE Prune -------------------------------
(***************************************************************************)
(* One prune pass (internal/prune/prune.go, Pass) beside offline ingest,   *)
(* Drain and the users of both trees: list the finished rows whose local   *)
(* copy is there, ask the server about their nodes, and remove the copies  *)
(* of the masters it has verified.  The tray keeps prune and ingest apart; *)
(* `prune -watch` is a process of its own, so every step may come between  *)
(* two steps of an ingest.                                                 *)
(***************************************************************************)
EXTENDS OfflineIngest

VARIABLE pass   \* where the pass is, and the rows it still considers, as listed

pruneVars == <<vars, pass>>

NoPass == [pc |-> "off", cands |-> {}]

PruneTypeOK == TypeOK /\ pass \in [pc : {"off", "listed", "answered"}, cands : SUBSET (1..MaxRows)]

\* Done() and the archive copy DONE.
Finished(i) == rows[i].st \in {"rebased", "refused"}

\* Any of the finished rows may be old enough.
List ==
    /\ pass.pc = "off"
    /\ \E old \in SUBSET {i \in Live : Finished(i) /\ local[rows[i].name] # "none"} :
        old # {} /\ pass' = [pc |-> "listed", cands |-> old]
    /\ UNCHANGED vars

\* The server's node is at Tier 3, its master is there, and the hash it read
\* from it is the row's.
Eligible(i) == rows[i].st \in {"rebased", "gone"} /\ archive[rows[i].name] = rows[i].content

\* The server's answers, or none: the pass ends.
NodeStatus ==
    /\ pass.pc = "listed"
    /\ \/ pass' = [pc |-> "answered", cands |-> {i \in pass.cands : Eligible(i)}]
       \/ pass' = NoPass
    /\ UNCHANGED vars

\* Variant: whatever is there now.
UnchangedThere(i) == local[rows[i].name] # "none"

\* Size and modification time are the row's.
Unchanged(i) == local[rows[i].name] = rows[i].content

Remove(i) ==
    /\ pass.pc = "answered" /\ i \in pass.cands
    /\ pass' = [pass EXCEPT !.cands = @ \ {i}]
    /\ local' = IF Unchanged(i) THEN [local EXCEPT ![rows[i].name] = "none"] ELSE local
    /\ UNCHANGED <<card, tmp, archive, rows, known, ing, promised, touched, crashes, meddle>>

EndPass ==
    /\ pass.pc = "answered" /\ pass.cands = {} /\ pass' = NoPass
    /\ UNCHANGED vars

\* Someone moves a master out of the archive, but not in the moment between
\* the server's answer and the removal.
MasterLost ==
    /\ Meddle /\ pass.pc # "answered"
    /\ \E k \in Names :
        /\ archive[k] \in Contents /\ archive' = [archive EXCEPT ![k] = "none"]
        /\ touched' = touched \cup {archive[k]}
    /\ UNCHANGED <<card, local, tmp, rows, known, ing, promised, crashes, pass>>

PruneInit == Init /\ pass = NoPass

PruneNext ==
    \/ Next /\ UNCHANGED pass
    \/ List \/ NodeStatus \/ (\E i \in 1..MaxRows : Remove(i)) \/ EndPass
    \/ MasterLost

PruneSpec == PruneInit /\ [][PruneNext]_pruneVars

-----------------------------------------------------------------------------
(* Properties *)

(* Pass deletes a file only if the archive holds its bytes, whatever was   *)
(* edited, moved, collected or ingested to the name since it listed it.    *)
PruneLeavesMaster ==
    [][\A k \in Names : local[k] # "none" /\ local'[k] = "none" /\ meddle' = meddle
        => \E j \in Names : archive[j] = local[k]]_pruneVars

-----------------------------------------------------------------------------
(* The invariant from which SafeToWipe, ClaimsApart and PruneLeavesMaster   *)
(* follow, if users keep off the names that rows claim (~UserAnywhere).     *)

\* The archive has it, or a user changed the only copy.
Kept(c) == c \in touched \/ \E k \in Names : archive[k] = c

\* A fresh copy goes to a name that nobody claims and that no card file is at.
FreshName ==
    ing.pc \in {"write", "dedup", "insert"} =>
        /\ ing.name \in Names /\ ByLocalPath(ing.name) = {} /\ Len(rows) < MaxRows
        /\ local[ing.name] \in {"none", "other"}

\* Once there is a row, the ingest works on its name, alone.
OwnRow ==
    ing.pc \in {"resume", "recopy", "replace", "place", "post"} =>
        /\ ing.row \in DOMAIN rows /\ rows[ing.row].content = Content /\ rows[ing.row].name = ing.name
        /\ ByLocalPath(ing.name) \subseteq {ing.row}

\* The temp copy is whole before the row and the name are; a resume reads
\* the card again only if the row's own copy is gone.
TempWhole ==
    /\ ing.pc \in {"dedup", "insert", "place", "replace"} => tmp[ing.name] = Content
    /\ ing.pc = "recopy" => Kept(Content)

\* At the name of a row is its own copy, or something that is no card file.
LocalOwn == \A i \in Live : local[rows[i].name] \in {"none", "other", rows[i].content}

\* An unfinished row has its bytes at the name or the temp name.
RowSafe ==
    \A i \in DOMAIN rows :
        \/ Kept(rows[i].content)
        \/ rows[i].st \in {"pending", "failed"} /\ rows[i].content \in {local[rows[i].name], tmp[rows[i].name]}

\* What was promised, and what the server knows, has or had a row.
Accounted == \A c \in promised \cup known : Kept(c) \/ \E i \in DOMAIN rows : rows[i].content = c

\* The masters of what a pass is about to remove are there.
MastersThere ==
    /\ pass.cands \subseteq DOMAIN rows
    /\ pass.pc = "answered" => \A i \in pass.cands : archive[rows[i].name] = rows[i].content

PruneInv ==
    /\ PruneTypeOK /\ (ing.pc # "idle" => ing.src \in Files)
    /\ ClaimsApart /\ FreshName /\ OwnRow /\ TempWhole /\ LocalOwn /\ RowSafe /\ Accounted /\ MastersThere
=============================================================================
