--------------------------- MODULE OfflineIngest ---------------------------
(***************************************************************************)
(* Offline ingest (internal/ingest/offline.go): which name a file of a     *)
(* card gets, when its queue row is written, and when the operator is told *)
(* that the file is taken care of and the card may be wiped.               *)
(*                                                                         *)
(* Every file of the card renders to the same name, so the candidates are  *)
(* that name and its numbered variants 1, 2, ...  A content stands for     *)
(* bytes, size and modification time together.  Media files only; what     *)
(* Drain does with a row is one step here (Drain and ArchiveCopy have the  *)
(* steps).                                                                 *)
(***************************************************************************)
EXTENDS Integers, Sequences, FiniteSets

CONSTANTS
    Files,       \* source paths on the card
    Contents,    \* what a file can hold
    MaxName,     \* bound: candidate names
    MaxRows,     \* bound: queue rows ever inserted
    MaxCrash,    \* bound: crashes and failed writes
    MaxMeddle,   \* bound: what users do in the two trees
    UserAnywhere \* users also put files at names that a row claims, and
                 \* copies from the card at the name being ingested to

ASSUME OfflineAssumption ==
    /\ {MaxName, MaxRows, MaxCrash, MaxMeddle} \subseteq Nat /\ UserAnywhere \in BOOLEAN
    /\ Contents \cap {"none", "other", "partial"} = {}

Names == 1..MaxName
Data  == Contents \cup {"none", "other"}

VARIABLES
    card,       \* what is at every source path
    local, tmp, \* the local edit tree: the names and the agent's temp names
    archive,    \* the archive, by the same names
    rows,       \* queue.db, in insertion order
    known,      \* contents the server answers for: found, and live
    ing,        \* the ingest of one file
    promised,   \* contents reported as queued, resumed or skipped
    touched,    \* contents whose only copy a user changed
    crashes, meddle

agentVars == <<local, tmp, rows, known, ing, promised, crashes>>
vars == <<card, archive, touched, meddle, agentVars>>

State == {"pending", "copied", "rebased", "refused", "failed", "gone"}
Row   == [src : Files, name : Names, content : Contents, st : State, reg : BOOLEAN]
Idle  == [pc |-> "idle", src |-> "none", name |-> 0, row |-> 0, st |-> "pending"]

Ingest == [pc : {"idle", "resume", "recopy", "resolve", "write", "dedup", "insert", "place", "replace", "post"},
           src : Files \cup {"none"}, name : 0..MaxName, row : 0..MaxRows, st : State]

TypeOK ==
    /\ card \in [Files -> Contents]
    /\ local \in [Names -> Data] /\ archive \in [Names -> Data]
    /\ tmp \in [Names -> Contents \cup {"none", "partial"}]
    /\ rows \in Seq(Row) /\ Len(rows) <= MaxRows
    /\ known \subseteq Contents /\ promised \subseteq Contents /\ touched \subseteq Contents
    /\ ing \in Ingest
    /\ crashes \in 0..MaxCrash /\ meddle \in 0..MaxMeddle

Init ==
    /\ card \in [Files -> Contents]
    /\ local = [k \in Names |-> "none"] /\ tmp = [k \in Names |-> "none"]
    /\ archive \in [Names -> {"none", "other"}]
    /\ rows = <<>> /\ known = {} /\ ing = Idle /\ promised = {} /\ touched = {}
    /\ crashes = MaxCrash /\ meddle = MaxMeddle

Fault   == crashes > 0 /\ crashes' = crashes - 1
NoFault == UNCHANGED crashes
Meddle  == meddle > 0 /\ meddle' = meddle - 1

Live       == {i \in DOMAIN rows : rows[i].st # "gone"}
ByLocalPath(k)  == {i \in Live : rows[i].name = k}
BySourcePath(f) == {i \in Live : rows[i].src = f}
Newest(s)       == CHOOSE i \in s : \A j \in s : j <= i

Content == card[ing.src]
Go(to)  == ing' = [ing EXCEPT !.pc = to]

\* The file is reported as taken care of.
Report == ing' = Idle /\ promised' = promised \cup {Content}
GiveUp == ing' = Idle /\ UNCHANGED promised

-----------------------------------------------------------------------------
(* ingestFileOffline *)

\* A row for this path is a resume only if it describes the file that is
\* there now.
Lookup(f) ==
    /\ ing.pc = "idle"
    /\ LET old == BySourcePath(f) i == Newest(old)
       IN  ing' = IF old # {} /\ rows[i].content = card[f]
                  THEN [pc |-> "resume", src |-> f, name |-> rows[i].name, row |-> i, st |-> rows[i].st]
                  ELSE [Idle EXCEPT !.pc = "resolve", !.src = f]
    /\ UNCHANGED <<card, archive, local, tmp, rows, known, promised, touched, crashes, meddle>>

\* Size and hash of the temp copy are the row's.
TempVerifies == tmp[ing.name] = Content

\* completeResumedLocalCopy, by the row as it was looked up: the temp copy
\* is good, or the card is read again.
Resume ==
    /\ ing.pc = "resume"
    /\ \/ ing.st # "pending" /\ Report /\ UNCHANGED tmp
       \/ ing.st = "pending" /\ local[ing.name] # "none" /\ Report /\ UNCHANGED tmp
       \/ /\ ing.st = "pending" /\ local[ing.name] = "none" /\ UNCHANGED promised
          /\ \/ TempVerifies /\ Go("replace") /\ UNCHANGED tmp
             \/ ~TempVerifies /\ Go("recopy") /\ tmp' = [tmp EXCEPT ![ing.name] = "partial"]
    /\ UNCHANGED <<card, archive, local, rows, known, touched, crashes, meddle>>

(* ResolveDestination over the local edit root *)

Hit(k)  == local[k] = Content
Free(k) == local[k] = "none"

Least(s) == CHOOSE k \in s : \A j \in s : k <= j

\* The name of a sibling's suffix first (0: no sibling), then in order.  0
\* if all are taken: maxCollisionSuffix is 10000, so the bound ends the
\* ingest where the code would go on.
ResolveDestination(known1) ==
    IF known1 # 0 /\ (Hit(known1) \/ Free(known1)) THEN known1
    ELSE LET s == {k \in Names : Hit(k) \/ Free(k)} IN IF s = {} THEN 0 ELSE Least(s)

\* Variants: an identical local file is enough; a free name is, too.
offlineSlotUsableLocal(k, reachable) ==
    Hit(k) \/ (ByLocalPath(k) = {} /\ (reachable => archive[k] \in {"none", Content}))

offlineSlotUsableFree(k, reachable) ==
    \/ Hit(k) /\ (ByLocalPath(k) # {} \/ (reachable /\ archive[k] = Content))
    \/ ~Hit(k) /\ (reachable => archive[k] \in {"none", Content})

\* An identical file counts if a row claims it or the archive has it too; a
\* free name, if no row claims it and the archive has nothing else there.
offlineSlotUsable(k, reachable) ==
    \/ Hit(k) /\ (ByLocalPath(k) # {} \/ (reachable /\ archive[k] = Content))
    \/ ~Hit(k) /\ ByLocalPath(k) = {} /\ (reachable => archive[k] \in {"none", Content})

resolveOfflineDestination(known1, reachable) ==
    LET first == ResolveDestination(known1)
        s     == {k \in Names : Free(k) /\ offlineSlotUsable(k, reachable)}
    IN  IF first # 0 /\ offlineSlotUsable(first, reachable) THEN first
        ELSE IF s = {} THEN 0 ELSE Least(s)

\* A file that is there already is skipped; for another the temp name is
\* cleared and written.
Resolve ==
    /\ ing.pc = "resolve"
    /\ \E known1 \in 0..MaxName, reachable \in BOOLEAN :
        LET k == resolveOfflineDestination(known1, reachable) IN
        \/ k = 0 /\ GiveUp /\ UNCHANGED tmp
        \/ k # 0 /\ Hit(k) /\ Report /\ UNCHANGED tmp
        \/ /\ k # 0 /\ ~Hit(k) /\ Len(rows) < MaxRows /\ UNCHANGED promised
           /\ ing' = [ing EXCEPT !.pc = "write", !.name = k]
           /\ tmp' = [tmp EXCEPT ![k] = "partial"]
    /\ UNCHANGED <<card, archive, local, rows, known, touched, crashes, meddle>>

DropTemp == tmp' = [tmp EXCEPT ![ing.name] = "none"]

WriteLocal ==
    /\ ing.pc \in {"write", "recopy"}
    /\ \/ /\ tmp' = [tmp EXCEPT ![ing.name] = Content] /\ NoFault /\ UNCHANGED promised
          /\ Go(IF ing.pc = "write" THEN "dedup" ELSE "replace")
       \/ DropTemp /\ GiveUp /\ Fault
    /\ UNCHANGED <<card, archive, local, rows, known, touched, meddle>>

\* checkContentDedup, if the server can be asked; then the copy is verified.
checkContentDedup ==
    /\ ing.pc = "dedup"
    /\ \/ Content \in known /\ DropTemp /\ Report /\ NoFault
       \/ Go("insert") /\ UNCHANGED <<tmp, promised>> /\ NoFault
       \/ DropTemp /\ GiveUp /\ Fault
    /\ UNCHANGED <<card, archive, local, rows, known, touched, meddle>>

\* The row comes before the name.
InsertPending ==
    /\ ing.pc = "insert"
    /\ \/ /\ rows' = Append(rows, [src |-> ing.src, name |-> ing.name, content |-> Content,
                                   st |-> "pending", reg |-> FALSE])
          /\ ing' = [ing EXCEPT !.pc = "place", !.row = Len(rows) + 1]
          /\ NoFault /\ UNCHANGED <<tmp, promised>>
       \/ DropTemp /\ GiveUp /\ Fault /\ UNCHANGED rows
    /\ UNCHANGED <<card, archive, local, known, touched, meddle>>

\* renameNoClobber, of a fresh or a resumed copy.  If the name is taken the
\* temp copy stays: the row claims it.
Place ==
    /\ ing.pc \in {"place", "replace"}
    /\ \/ /\ local[ing.name] = "none" /\ DropTemp
          /\ local' = [local EXCEPT ![ing.name] = tmp[ing.name]]
          /\ IF ing.pc = "place" THEN Go("post") /\ UNCHANGED promised ELSE Report
       \/ local[ing.name] # "none" /\ GiveUp /\ UNCHANGED <<tmp, local>>
    /\ UNCHANGED <<card, archive, rows, known, touched, crashes, meddle>>

\* One attempt to register the node, whatever comes of it.
InlinePost ==
    /\ ing.pc = "post" /\ Report
    /\ \/ UNCHANGED <<rows, known>>
       \/ /\ known' = known \cup {Content}
          /\ rows' = rows \/ rows' = [rows EXCEPT ![ing.row].reg = TRUE]
    /\ UNCHANGED <<card, archive, local, tmp, touched, crashes, meddle>>

Crash ==
    /\ ing.pc # "idle" /\ GiveUp /\ Fault
    /\ UNCHANGED <<card, archive, local, tmp, rows, known, touched, meddle>>

-----------------------------------------------------------------------------
(* Drain, one step per row *)

SetRow(i, st) == rows' = [rows EXCEPT ![i].st = st]

Register(i) ==
    /\ ~rows[i].reg /\ rows' = [rows EXCEPT ![i].reg = TRUE]
    /\ known' = known \cup {rows[i].content}
    /\ UNCHANGED <<card, archive, local, tmp, ing, promised, touched, crashes, meddle>>

CopyToArchive(i) ==
    LET k == rows[i].name c == rows[i].content IN
    /\ rows[i].st = "pending"
    /\ \/ archive[k] = c /\ SetRow(i, "copied") /\ UNCHANGED archive
       \/ archive[k] \notin {"none", c} /\ SetRow(i, "failed") /\ UNCHANGED archive
       \/ archive[k] = "none" /\ local[k] = c /\ SetRow(i, "copied") /\ archive' = [archive EXCEPT ![k] = c]
       \/ archive[k] = "none" /\ local[k] \notin {"none", c} /\ SetRow(i, "failed") /\ UNCHANGED archive
    /\ UNCHANGED <<card, local, tmp, known, ing, promised, touched, crashes, meddle>>

RebaseRow(i) ==
    /\ rows[i].st = "copied" /\ rows[i].reg
    /\ SetRow(i, "rebased") \/ SetRow(i, "refused")
    /\ UNCHANGED <<card, archive, local, tmp, known, ing, promised, touched, crashes, meddle>>

ResetFailed(i) ==
    /\ \/ rows[i].st = "failed" /\ SetRow(i, "pending")
       \/ rows[i].st = "refused" /\ SetRow(i, "copied")
    /\ UNCHANGED <<card, archive, local, tmp, known, ing, promised, touched, crashes, meddle>>

\* Only a row whose local copy is gone.
CollectGarbage(i) ==
    /\ rows[i].st = "rebased" /\ local[rows[i].name] = "none" /\ SetRow(i, "gone")
    /\ UNCHANGED <<card, archive, local, tmp, known, ing, promised, touched, crashes, meddle>>

-----------------------------------------------------------------------------
(* Users *)

\* Someone puts a file, of their own or a copy from the card, into the tree.
UserPuts ==
    /\ Meddle /\ \E k \in Names, d \in {"other"} \cup {card[f] : f \in Files} :
        /\ \/ UserAnywhere
           \/ /\ local[k] = "none" /\ ByLocalPath(k) = {}
              /\ d # "other" => ing.pc = "idle" \/ ing.name # k
        /\ local[k] # d /\ local' = [local EXCEPT ![k] = d]
        /\ touched' = touched \cup ({local[k]} \cap Contents)
    /\ UNCHANGED <<card, archive, tmp, rows, known, ing, promised, crashes>>

UserEdits ==
    /\ Meddle /\ \E k \in Names, d \in {"other", "none"} :
        /\ local[k] \in Contents /\ local' = [local EXCEPT ![k] = d]
        /\ touched' = touched \cup {local[k]}
    /\ UNCHANGED <<card, archive, tmp, rows, known, ing, promised, crashes>>

\* A file arrives at an archive name, or is moved away.
ArchiveChanges ==
    /\ Meddle /\ \E k \in Names :
        \/ archive[k] = "none" /\ archive' = [archive EXCEPT ![k] = "other"]
        \/ archive[k] = "other" /\ archive' = [archive EXCEPT ![k] = "none"]
    /\ UNCHANGED <<card, local, tmp, rows, known, ing, promised, touched, crashes>>

\* The card is formatted and the camera counts from the start again.
Format ==
    /\ ing.pc = "idle" /\ Meddle
    /\ \E f \in Files, c \in Contents : card[f] # c /\ card' = [card EXCEPT ![f] = c]
    /\ UNCHANGED <<archive, local, tmp, rows, known, ing, promised, touched, crashes>>

-----------------------------------------------------------------------------
IngestStep ==
    \/ \E f \in Files : Lookup(f)
    \/ Resume \/ Resolve \/ WriteLocal \/ checkContentDedup \/ InsertPending \/ Place \/ InlinePost \/ Crash

DrainStep ==
    \E i \in Live : \/ Register(i) \/ CopyToArchive(i) \/ RebaseRow(i) \/ ResetFailed(i) \/ CollectGarbage(i)

Next == IngestStep \/ DrainStep \/ UserPuts \/ UserEdits \/ ArchiveChanges \/ Format

Spec == Init /\ [][Next]_vars

-----------------------------------------------------------------------------
(* Properties *)

Held(c) ==
    \/ \E k \in Names : archive[k] = c
    \/ \E i \in Live : /\ rows[i].content = c /\ rows[i].st \in {"pending", "failed"}
                       /\ c \in {local[rows[i].name], tmp[rows[i].name]}

(* ingestFileOffline's promise: what it reported as queued, resumed or     *)
(* skipped is in the archive, or in a local copy that an unfinished queue  *)
(* row names, whatever crashed, failed or was formatted since, unless a    *)
(* user changed that copy.                                                 *)
SafeToWipe == promised \ touched \subseteq {c \in Contents : Held(c)}

(* offlineSlotUsable: no two rows claim the same name, in whatever order   *)
(* files are resumed, placed, archived and collected, so none takes the    *)
(* other's local copy for its own.                                         *)
ClaimsApart == \A i, j \in Live : i # j => rows[i].name # rows[j].name
=============================================================================
