------------------------- MODULE UploadDrainProofs -------------------------
(* Theorems about queued uploads, the passes that carry them out and the    *)
(* card that comes back meanwhile, for any number of rows, insertions,      *)
(* faults, crashes, retries and changes of the user.                        *)
EXTENDS UploadDrain, FiniteSetTheorems, WellFoundedInduction, TLAPS

-----------------------------------------------------------------------------
(* Constants and choices *)

LEMMA Bounds ==
    /\ WithSidecar \in BOOLEAN /\ MaxRows \in Nat /\ MaxInserts \in Nat /\ MaxFaults \in Nat
    /\ MaxTouches \in Nat /\ MaxMetered \in Nat /\ MaxResets \in Nat
BY UploadAssumption

LEMMA Places ==
    /\ Names \subseteq Nat /\ Names \subseteq Paths /\ 1 \in Names /\ 0 \in Paths /\ 0 \notin Names
    /\ MaxTouches + 1 \in Names /\ Unsafe \notin Paths /\ \A p \in Names : 1 <= p
    /\ 1 \in Items /\ Items \subseteq {1, 2} /\ (2 \in Items <=> WithSidecar)
    /\ Ids \subseteq Nat /\ None \notin Ids /\ \A n \in 1..(MaxRows + 1) : n <= MaxRows => n \in Ids
BY Bounds DEF Names, Paths, Unsafe, Items, Ids, None

LEMMA Smallest ==
    ASSUME NEW S, S \subseteq Nat, S # {}
    PROVE  \E x \in S : \A y \in S : x <= y
<1>1. PICK x \in S : \A y \in S : ~(<<y, x>> \in OpToRel(<, Nat))
  BY NatLessThanWellFounded, WFMin
<1>2. \A y \in S : ~(y < x)
  BY <1>1 DEF OpToRel
<1> QED
  BY <1>2

\* First yields the least element.
LEMMA FirstIn ==
    ASSUME NEW S, S \subseteq Nat, S # {}
    PROVE  First(S) \in S /\ \A y \in S : First(S) <= y
<1>1. \E x \in S : \A y \in S : x <= y
  BY Smallest
<1> QED
  BY <1>1 DEF First

\* Newest yields an element, if there is one.
LEMMA NewestIn ==
    ASSUME NEW S, S \subseteq Ids
    PROVE  IF S = {} THEN Newest(S) = None ELSE Newest(S) \in S /\ Newest(S) # None
<1>1. CASE S = {}
  BY <1>1 DEF Newest
<1>2. CASE S # {}
  <2> DEFINE T == {MaxRows - j : j \in S}
  <2>1. T # {}
    BY <1>2
  <2>2. T \subseteq Nat
    BY Bounds DEF Ids
  <2>3. PICK x \in T : \A y \in T : x <= y
    BY <2>1, <2>2, Smallest
  <2>4. PICK i \in S : x = MaxRows - i
    OBVIOUS
  <2>5. \A j \in S : j <= i
    <3> TAKE j \in S
    <3>1. MaxRows - i <= MaxRows - j
      BY <2>3, <2>4
    <3> QED
      BY <3>1, Bounds DEF Ids
  <2>6. Newest(S) = CHOOSE r \in S : \A q \in S : q <= r
    BY <1>2 DEF Newest
  <2>7. Newest(S) \in S
    BY <2>5, <2>6
  <2> QED
    BY <1>2, <2>7, Places
<1> QED
  BY <1>1, <1>2

-----------------------------------------------------------------------------
(* Rows *)

\* What the Store methods of the upload step make of a row.
LEMMA RowOps ==
    ASSUME NEW r \in Row
    PROVE  /\ MarkUploadDone(r) \in Row /\ MarkUploadFailed(r) \in Row /\ MarkUploadAttempt(r, 0) \in Row
           /\ MarkUploadDone(r).upload = IF r.upload \in {"PENDING", "FAILED"} THEN "DONE" ELSE r.upload
           /\ MarkUploadFailed(r).upload = IF r.upload = "PENDING" THEN "FAILED" ELSE r.upload
           /\ MarkUploadAttempt(r, 0).upload = r.upload
<1>1. Bump(r.upTries) \in 0..MaxTries
  BY BackoffAssumption DEF Bump, Row
<1>2. MarkUploadDone(r) \in Row /\ MarkUploadDone(r).upload = IF r.upload \in {"PENDING", "FAILED"} THEN "DONE" ELSE r.upload
  BY DEF MarkUploadDone, Row
<1>3. MarkUploadFailed(r) \in Row /\ MarkUploadFailed(r).upload = IF r.upload = "PENDING" THEN "FAILED" ELSE r.upload
  BY DEF MarkUploadFailed, Row
<1>4. MarkUploadAttempt(r, 0) \in Row /\ MarkUploadAttempt(r, 0).upload = r.upload
  BY <1>1 DEF MarkUploadAttempt, Row
<1> QED
  BY <1>2, <1>3, <1>4

LEMMA ResetRow ==
    ASSUME NEW r \in Row
    PROVE  resetFailed(r) \in Row /\ resetFailed(r).upload = IF r.upload = "FAILED" THEN "PENDING" ELSE r.upload
<1>0. 0 \in 0..MaxTries
  BY BackoffAssumption
<1>1. ASSUME NEW q \in Row PROVE resetArchiveCopy(q) \in Row /\ resetArchiveCopy(q).upload = q.upload
  <2>1. CASE q.archiveCopy = "FAILED"
    BY <1>0, <2>1 DEF resetArchiveCopy, Row
  <2>2. CASE q.archiveCopy # "FAILED"
    BY <2>2 DEF resetArchiveCopy
  <2> QED
    BY <2>1, <2>2
<1>2. ASSUME NEW q \in Row PROVE resetRebase(q) \in Row /\ resetRebase(q).upload = q.upload
  <2>1. CASE q.rebase = "FAILED"
    BY <1>0, <2>1 DEF resetRebase, Row
  <2>2. CASE q.rebase # "FAILED"
    BY <2>2 DEF resetRebase
  <2> QED
    BY <2>1, <2>2
<1>3. ASSUME NEW q \in Row
      PROVE  resetUpload(q) \in Row /\ resetUpload(q).upload = IF q.upload = "FAILED" THEN "PENDING" ELSE q.upload
  <2>1. CASE q.upload = "FAILED"
    BY <1>0, <2>1 DEF resetUpload, Row
  <2>2. CASE q.upload # "FAILED"
    BY <2>2 DEF resetUpload
  <2> QED
    BY <2>1, <2>2
<1> QED
  BY <1>1, <1>2, <1>3 DEF resetFailed

LEMMA InsertedRow ==
    ASSUME NEW k \in Kind, NEW t \in Nat
    PROVE  InsertPending(k, "UPLOAD", t) \in Row /\ InsertPending(k, "UPLOAD", t).upload = "PENDING"
<1>0. 0 \in 0..MaxTries
  BY BackoffAssumption
<1> QED
  BY <1>0 DEF InsertPending, Row, Kind, Origin

\* The sweep takes finished rows.
LEMMA SweptRow == \A r \in Row, t \in Nat : FinishedOld(r, t) => r.upload \notin {"PENDING", "FAILED"}
BY DEF FinishedOld, TerminalSQL, Failed

-----------------------------------------------------------------------------
(* What the type invariant says *)

Open == {"PENDING", "FAILED"}

LEMMA RowFacts ==
    ASSUME TypeOK
    PROVE  /\ DOMAIN meta = Live /\ Live \subseteq Ids
           /\ \A r \in Live : /\ rows[r] \in Row /\ rows[r].upload \in {"PENDING", "DONE", "SKIPPED", "FAILED"}
                              /\ meta[r] \in Meta /\ meta[r].item \in Items /\ meta[r].path \in Paths
                              /\ meta[r].master \in {None} \cup Ids /\ meta[r].name \in {"planned", "final"}
                              /\ meta[r].base \in {"copy", "edited"} /\ meta[r].hash \in {"copy", "edited"}
           /\ \A r \in Live : Unfinished(r) <=> rows[r].upload \in Open
<1>1. rows \in [Live -> Row] /\ meta \in [Live -> Meta] /\ Live \subseteq Ids
  BY DEF TypeOK
<1>2. \A r \in Live : rows[r] \in Row /\ rows[r].upload \in {"PENDING", "DONE", "SKIPPED", "FAILED"}
  BY <1>1 DEF Row
<1>3. \A r \in Live : /\ meta[r] \in Meta /\ meta[r].item \in Items /\ meta[r].path \in Paths
                      /\ meta[r].master \in {None} \cup Ids /\ meta[r].name \in {"planned", "final"}
                      /\ meta[r].base \in {"copy", "edited"} /\ meta[r].hash \in {"copy", "edited"}
  BY <1>1 DEF Meta
<1> QED
  BY <1>1, <1>2, <1>3 DEF Unfinished, Open

LEMMA FileFacts ==
    ASSUME TypeOK
    PROVE  /\ files \in [Items -> [Paths -> {"none", "copy", "edited"}]]
           /\ \A i \in Items : /\ files[i] \in [Paths -> {"none", "copy", "edited"}]
                               /\ rel[i] # Unsafe => rel[i] \in Paths
                               /\ \A p \in Paths : files[i][p] \in {"none", "copy", "edited"}
<1>1. files \in [Items -> [Paths -> {"none", "copy", "edited"}]]
  BY DEF TypeOK
<1>2. \A i \in Items : rel[i] \in {0, 1, Unsafe}
  BY DEF TypeOK
<1>3. {0, 1} \subseteq Paths
  BY Places
<1>4. \A i \in Items : files[i] \in [Paths -> {"none", "copy", "edited"}]
  BY <1>1
<1>5. \A i \in Items, p \in Paths : files[i][p] \in {"none", "copy", "edited"}
  BY <1>4
<1> QED
  BY <1>1, <1>2, <1>3, <1>4, <1>5

LEMMA CardFacts ==
    ASSUME TypeOK
    PROVE  /\ card.pc \in {"out", "next", "uploaded", "placed", "copied"} /\ card.item \in Items
           /\ card.path \in Paths /\ card.fresh \in BOOLEAN /\ card.ok \in BOOLEAN
           /\ master.is \in {"failed", "uploaded", "deferred", "queued"} /\ master.id \in {None} \cup Ids
           /\ master.path \in Paths
BY DEF TypeOK

LEMMA DrainFacts ==
    ASSUME TypeOK
    PROVE  /\ drain.pc \in {"idle", "visiting", "streaming", "refused", "broken", "stored", "confirmed", "recorded"}
           /\ drain.pc = "idle" <=> drain = IdleDrain
           /\ drain.pc = "idle" => todo = <<>>
           /\ drain.pc = "visiting" => drain = Visiting
           /\ Busy <=> drain.pc \notin {"idle", "visiting"}
           /\ Busy => drain.id \in Ids /\ drain.row \in Meta
           /\ drain.pc \in {"streaming", "refused", "broken", "stored"} =>
                 drain = [pc |-> drain.pc, id |-> drain.id, row |-> drain.row]
           /\ drain.pc \in {"confirmed", "recorded"} =>
                 drain.target \in Paths /\ drain = [pc |-> drain.pc, id |-> drain.id, row |-> drain.row, target |-> drain.target]
           /\ DOMAIN todo \subseteq Ids /\ todo \in [DOMAIN todo -> Meta]
<1>0. DOMAIN <<>> = {} /\ <<>> \in [{} -> Meta]
  OBVIOUS
<1>1. CASE drain = IdleDrain /\ todo = <<>>
  <2>1. drain.pc = "idle" /\ ~Busy
    BY <1>1 DEF IdleDrain, Busy
  <2>2. DOMAIN todo \subseteq Ids /\ todo \in [DOMAIN todo -> Meta]
    BY <1>0, <1>1
  <2> QED
    BY <1>1, <2>1, <2>2
<1>2. CASE drain \in [pc : {"visiting"}, id : {None}] /\ DOMAIN todo \subseteq Ids /\ todo \in [DOMAIN todo -> Meta]
  BY <1>2 DEF IdleDrain, Busy, Visiting
<1>3. CASE drain \in [pc : {"streaming", "refused", "broken", "stored"}, id : Ids, row : Meta]
           /\ DOMAIN todo \subseteq Ids /\ todo \in [DOMAIN todo -> Meta]
  BY <1>3 DEF IdleDrain, Busy
<1>4. CASE drain \in [pc : {"confirmed", "recorded"}, id : Ids, row : Meta, target : Paths]
           /\ DOMAIN todo \subseteq Ids /\ todo \in [DOMAIN todo -> Meta]
  BY <1>4 DEF IdleDrain, Busy
<1> QED
  BY <1>1, <1>2, <1>3, <1>4 DEF TypeOK

LEMMA SnapFacts ==
    ASSUME NEW row \in Meta
    PROVE  /\ row.item \in Items /\ row.path \in Paths /\ row.master \in {None} \cup Ids
           /\ row.name \in {"planned", "final"} /\ row.base \in {"copy", "edited"} /\ row.hash \in {"copy", "edited"}
           /\ [row EXCEPT !.name = "final"] \in Meta
           /\ row = [item |-> row.item, path |-> row.path, master |-> row.master, name |-> row.name,
                     base |-> row.base, hash |-> row.hash]
BY DEF Meta

-----------------------------------------------------------------------------
(* Types *)

DbType == /\ Live \subseteq Ids /\ rows \in [Live -> Row] /\ meta \in [Live -> Meta]
          /\ nextId \in 1..(MaxRows + 1) /\ waiting \subseteq Ids
FileType  == files \in [Items -> [Paths -> {"none", "copy", "edited"}]]
StoreType == stored \in [Items -> {"no", "planned", "final"}]
CardType == /\ card \in [pc : {"out", "next", "uploaded", "placed", "copied"}, item : Items,
                         path : Paths, fresh : BOOLEAN, ok : BOOLEAN]
            /\ master \in [is : {"failed", "uploaded", "deferred", "queued"}, id : {None} \cup Ids, path : Paths]
DrainType == \/ drain = IdleDrain /\ todo = <<>>
             \/ /\ drain \in [pc : {"visiting"}, id : {None}]
                       \cup [pc : {"streaming", "refused", "broken", "stored"}, id : Ids, row : Meta]
                       \cup [pc : {"confirmed", "recorded"}, id : Ids, row : Meta, target : Paths]
                /\ DOMAIN todo \subseteq Ids /\ todo \in [DOMAIN todo -> Meta]
EnvType == /\ rel \in [Items -> {0, 1, Unsafe}] /\ metered \in BOOLEAN
           /\ {touches, flips, resets} \subseteq Nat /\ touched \subseteq Items
CountType == inserts \in 0..MaxInserts /\ faults \in Nat

LEMMA TypeParts == TypeOK <=> DbType /\ FileType /\ StoreType /\ CardType /\ DrainType /\ EnvType /\ CountType
BY DEF TypeOK, DbType, FileType, StoreType, CardType, DrainType, EnvType, CountType

LEMMA PartsAfter ==
    ASSUME DbType', FileType', StoreType', CardType', DrainType', EnvType', CountType'
    PROVE  TypeOK'
BY DEF TypeOK, DbType, FileType, StoreType, CardType, DrainType, EnvType, CountType

LEMMA TypeFrames ==
    ASSUME TypeOK
    PROVE  /\ UNCHANGED dbVars => DbType'
           /\ UNCHANGED files => FileType'
           /\ UNCHANGED stored => StoreType'
           /\ UNCHANGED <<card, master>> => CardType'
           /\ UNCHANGED drainVars => DrainType'
           /\ UNCHANGED env => EnvType'
           /\ UNCHANGED inserts /\ (Fault \/ NoFault) => CountType'
<1>1. UNCHANGED dbVars => DbType'
  BY TypeParts DEF DbType, dbVars, Live
<1>2. UNCHANGED files => FileType'
  BY TypeParts DEF FileType
<1>3. UNCHANGED stored => StoreType'
  BY TypeParts DEF StoreType
<1>4. UNCHANGED <<card, master>> => CardType'
  BY TypeParts DEF CardType
<1>5. UNCHANGED drainVars => DrainType'
  BY TypeParts DEF DrainType, drainVars
<1>6. UNCHANGED env => EnvType'
  BY TypeParts DEF EnvType, env
<1>7. UNCHANGED inserts /\ (Fault \/ NoFault) => CountType'
  BY TypeParts DEF CountType, Fault, NoFault
<1> QED
  BY <1>1, <1>2, <1>3, <1>4, <1>5, <1>6, <1>7

\* A file of the card is through, or the card is out.
LEMMA CardGoes ==
    ASSUME TypeOK
    PROVE  /\ \A is \in {"failed", "uploaded", "deferred", "queued"}, id \in {None} \cup Ids :
                 FileDone(is, id) =>
                    /\ CardType' /\ card'.pc \in {"out", "next"} /\ (card'.item = 2 => card.item = 1 /\ card'.pc = "next")
                    /\ master' = IF card.item = 1 THEN [is |-> is, id |-> id, path |-> card.path] ELSE master
           /\ card' = IdleCard /\ UNCHANGED master => CardType'
<1>1. IdleCard \in [pc : {"out", "next", "uploaded", "placed", "copied"}, item : Items,
                    path : Paths, fresh : BOOLEAN, ok : BOOLEAN]
  BY Places DEF IdleCard
<1>2. WithSidecar => [IdleCard EXCEPT !.pc = "next", !.item = 2]
                         \in [pc : {"out", "next", "uploaded", "placed", "copied"}, item : Items,
                              path : Paths, fresh : BOOLEAN, ok : BOOLEAN]
  BY Places DEF IdleCard
<1>3. ASSUME NEW is \in {"failed", "uploaded", "deferred", "queued"}, NEW id \in {None} \cup Ids, FileDone(is, id)
      PROVE  /\ CardType' /\ card'.pc \in {"out", "next"} /\ (card'.item = 2 => card.item = 1 /\ card'.pc = "next")
             /\ master' = IF card.item = 1 THEN [is |-> is, id |-> id, path |-> card.path] ELSE master
  <2>1. card' = IF card.item = 1 /\ WithSidecar THEN [IdleCard EXCEPT !.pc = "next", !.item = 2] ELSE IdleCard
    BY <1>3 DEF FileDone
  <2>2. master' = IF card.item = 1 THEN [is |-> is, id |-> id, path |-> card.path] ELSE master
    BY <1>3 DEF FileDone
  <2>3. master' \in [is : {"failed", "uploaded", "deferred", "queued"}, id : {None} \cup Ids, path : Paths]
    BY <2>2, TypeParts, CardFacts DEF CardType
  <2>4. card'.pc \in {"out", "next"} /\ (card'.item = 2 => card.item = 1 /\ card'.pc = "next")
    BY <2>1 DEF IdleCard
  <2> QED
    BY <1>1, <1>2, <2>1, <2>2, <2>3, <2>4 DEF CardType
<1> QED
  BY <1>1, <1>3, TypeParts DEF CardType

-----------------------------------------------------------------------------
(* Frames: what a step keeps if it only does so much *)

\* No row comes, goes or is closed.
SameRows ==
    /\ Live' = Live /\ meta' = meta /\ nextId' = nextId
    /\ \A r \in Live : /\ rows'[r].upload \in Open <=> rows[r].upload \in Open
                       /\ rows'[r].upload = "DONE" <=> rows[r].upload = "DONE"

Grows       == touched \subseteq touched' /\ \A i \in Items : stored[i] # "no" => stored'[i] = stored[i]
SameTodo    == DOMAIN todo' \subseteq DOMAIN todo /\ \A r \in DOMAIN todo' : todo'[r] = todo[r]
\* Drain works on the same row or on none.
DrainOn     == Busy' => Busy /\ drain'.id = drain.id /\ drain'.row = drain.row
UnfinishedAfter(r) == rows'[r].upload \in Open

LEMMA AfterFacts == \A r : Unfinished(r)' <=> UnfinishedAfter(r)
BY DEF Unfinished, UnfinishedAfter, Open

LEMMA SameRowsMeans ==
    ASSUME TypeOK, SameRows
    PROVE  Live' = Live /\ meta' = meta /\ \A r \in Live : (Unfinished(r)' <=> Unfinished(r)) /\ (rows'[r].upload = "DONE" <=> rows[r].upload = "DONE")
BY AfterFacts, RowFacts DEF SameRows, UnfinishedAfter

LEMMA UnchangedRows == UNCHANGED <<rows, meta, nextId>> => SameRows
BY DEF SameRows, Live

\* Fail, Attempt and the reset leave open rows open and closed rows closed.
LEMMA SameRowsOps ==
    ASSUME TypeOK, UNCHANGED <<meta, nextId>>,
           \/ \E r \in Ids : (rows' = Fail(r) /\ UNCHANGED waiting) \/ Attempt(r)
           \/ rows' = [r \in Live |-> resetFailed(rows[r])] /\ waiting' \subseteq waiting
    PROVE  SameRows /\ DbType'
<1>0. rows \in [Live -> Row] /\ Live \subseteq Ids /\ waiting \subseteq Ids
  BY DEF TypeOK
<1>1. ASSUME NEW r \in Ids, rows' = Fail(r) PROVE SameRows /\ rows' \in [Live -> Row] /\ DOMAIN rows' = Live
  <2>1. CASE r \notin Live
    BY <1>0, <1>1, <2>1 DEF Fail, SameRows, Live
  <2>2. CASE r \in Live
    <3>1. rows' = [rows EXCEPT ![r] = MarkUploadFailed(rows[r])]
      BY <1>1, <2>2 DEF Fail
    <3>2. /\ MarkUploadFailed(rows[r]) \in Row
          /\ MarkUploadFailed(rows[r]).upload = IF rows[r].upload = "PENDING" THEN "FAILED" ELSE rows[r].upload
      BY <1>0, <2>2, RowOps
    <3>3. rows' \in [Live -> Row] /\ DOMAIN rows' = Live
      BY <1>0, <2>2, <3>1, <3>2
    <3>4. \A q \in Live : rows'[q].upload = IF q = r /\ rows[q].upload = "PENDING" THEN "FAILED" ELSE rows[q].upload
      BY <1>0, <2>2, <3>1, <3>2
    <3> QED
      BY <3>3, <3>4 DEF SameRows, Live, Open
  <2> QED
    BY <2>1, <2>2
<1>2. ASSUME NEW r \in Ids, Attempt(r) PROVE SameRows /\ rows' \in [Live -> Row] /\ DOMAIN rows' = Live /\ waiting' \subseteq Ids
  <2>1. waiting' \subseteq Ids
    BY <1>0, <1>2 DEF Attempt
  <2>2. CASE r \notin Live
    BY <1>0, <1>2, <2>1, <2>2 DEF Attempt, SameRows, Live
  <2>3. CASE r \in Live
    <3>1. rows' = [rows EXCEPT ![r] = MarkUploadAttempt(rows[r], 0)]
      BY <1>2, <2>3 DEF Attempt
    <3>2. MarkUploadAttempt(rows[r], 0) \in Row /\ MarkUploadAttempt(rows[r], 0).upload = rows[r].upload
      BY <1>0, <2>3, RowOps
    <3>3. rows' \in [Live -> Row] /\ DOMAIN rows' = Live
      BY <1>0, <2>3, <3>1, <3>2
    <3>4. \A q \in Live : rows'[q].upload = rows[q].upload
      BY <1>0, <2>3, <3>1, <3>2
    <3> QED
      BY <2>1, <3>3, <3>4 DEF SameRows, Live
  <2> QED
    BY <2>2, <2>3
<1>3. ASSUME rows' = [r \in Live |-> resetFailed(rows[r])] PROVE SameRows /\ rows' \in [Live -> Row] /\ DOMAIN rows' = Live
  <2>1. \A r \in Live : rows'[r] \in Row /\ rows'[r].upload = IF rows[r].upload = "FAILED" THEN "PENDING" ELSE rows[r].upload
    BY <1>0, <1>3, ResetRow
  <2> QED
    BY <1>3, <2>1 DEF SameRows, Live, Open
<1>4. SameRows /\ rows' \in [Live -> Row] /\ DOMAIN rows' = Live /\ waiting' \subseteq Ids
  BY <1>0, <1>1, <1>2, <1>3
<1>5. Live' = Live
  BY <1>4 DEF Live
<1> QED
  BY <1>4, <1>5, TypeParts DEF DbType

\* No copy that is the card's is lost or spoiled but by the user.
FilesKept ==
    \A i \in Items \ touched' :
        /\ (\A p \in Paths : files[i][p] # "edited") => \A p \in Paths : files'[i][p] # "edited"
        /\ (\E p \in Paths : files[i][p] = "copy") => \E p \in Paths : files'[i][p] = "copy"

LEMMA UnchangedFiles == UNCHANGED files => FilesKept
BY DEF FilesKept

LEMMA BytesFrame ==
    ASSUME UploadInv, SameRows, FilesKept, Grows
    PROVE  Untouched' /\ CopyKept' /\ DoneIsStored'
<1>0. TypeOK /\ \A r \in Live : meta[r].item \in Items
  BY RowFacts DEF UploadInv
<1>1. Untouched'
  BY <1>0, SameRowsMeans DEF UploadInv, Untouched, Grows, FilesKept
<1>2. CopyKept'
  BY <1>0, SameRowsMeans DEF UploadInv, CopyKept, Grows, FilesKept
<1>3. DoneIsStored'
  BY <1>0, SameRowsMeans DEF UploadInv, DoneIsStored, Grows
<1> QED
  BY <1>1, <1>2, <1>3

LEMMA SidecarFrame ==
    ASSUME UploadInv, UNCHANGED stored, Grows
    PROVE  SidecarFollows'
BY DEF UploadInv, SidecarFollows, Grows

\* SnapshotOf after a step.
SnapAfter(row, r) ==
    /\ r \in Live' /\ row.item = meta'[r].item /\ row.master = meta'[r].master
    /\ row.base = meta'[r].base /\ row.hash = meta'[r].hash
    /\ UnfinishedAfter(r) => row.path = meta'[r].path

LEMMA SnapsAfter ==
    ASSUME \A r \in Live' : r < nextId',
           \A r \in DOMAIN todo' : SnapAfter(todo'[r], r) /\ todo'[r].name = meta'[r].name,
           Busy' => SnapAfter(drain'.row, drain'.id)
    PROVE  Snapshots'
BY DEF Snapshots, SnapshotOf, SnapAfter, UnfinishedAfter, Unfinished, Open

LEMMA SnapFrame ==
    ASSUME UploadInv, SameRows, SameTodo, DrainOn
    PROVE  Snapshots'
<1>0. TypeOK /\ Snapshots
  BY DEF UploadInv
<1>1. \A row, r : SnapshotOf(row, r) => SnapAfter(row, r)
  BY <1>0, SameRowsMeans, AfterFacts DEF SnapshotOf, SnapAfter, SameRows
<1>2. \A r \in Live' : r < nextId'
  BY <1>0, SameRowsMeans DEF Snapshots, SameRows
<1>3. \A r \in DOMAIN todo' : SnapAfter(todo'[r], r) /\ todo'[r].name = meta'[r].name
  BY <1>0, <1>1, SameRowsMeans DEF Snapshots, SameTodo
<1>4. Busy' => SnapAfter(drain'.row, drain'.id)
  BY <1>0, <1>1 DEF Snapshots, DrainOn
<1> QED
  BY <1>2, <1>3, <1>4, SnapsAfter

LEMMA RecordedFrame ==
    ASSUME UploadInv, SameRows, drain'.pc = "recorded" => UNCHANGED drain
    PROVE  Recorded'
<1>0. Recorded /\ Snapshots
  BY DEF UploadInv
<1>1. CASE drain.pc = "recorded"
  <2>1. drain.id \in Live
    BY <1>0, <1>1 DEF Snapshots, SnapshotOf, Busy
  <2> QED
    BY <1>0, <1>1, <2>1 DEF Recorded, SameRows, Unfinished, Open
<1>2. CASE drain.pc # "recorded"
  BY <1>2 DEF Recorded
<1> QED
  BY <1>1, <1>2

LEMMA LinkFrame ==
    ASSUME UploadInv, SameRows, SameTodo, DrainOn, Grows
    PROVE  Linked'
<1>0. Linked /\ 1 \in Items
  BY Places DEF UploadInv
<1>1. \A r \in Live : rows'[r].upload \in Open <=> Unfinished(r)
  BY DEF SameRows, Unfinished, Open
<1>2. \A r \in Live' : meta'[r].master # None => meta'[r].item = 2
  BY <1>0 DEF Linked, SameRows
<1>3. 1 \notin touched' => \A r \in Live' : meta'[r].item = 2 /\ meta'[r].master = None => meta'[r].name = "final" /\ stored'[1] # "no"
  BY <1>0 DEF Linked, SameRows, Grows
<1>4. 1 \notin touched' => \A r \in Live' : meta'[r].master # None /\ (rows'[r].upload \in Open \/ r \in DOMAIN todo') =>
                                      meta'[r].master \in Live' /\ meta'[meta'[r].master].item = 1
  BY <1>0, <1>1 DEF Linked, SameRows, SameTodo, Grows
<1>5. 1 \notin touched' => (Busy' /\ drain'.row.item = 2 => drain'.row.name = "final" /\ stored'[1] # "no")
  BY <1>0 DEF Linked, DrainOn, Grows
<1> QED
  BY <1>2, <1>3, <1>4, <1>5 DEF Linked, Unfinished, Open

LEMMA OneNameFrame ==
    ASSUME UploadInv, SameRows, Grows,
           card'.pc = "copied" /\ card'.item = 1 => UNCHANGED card /\ DrainOn /\ (Busy' /\ 1 \notin touched' => files'[1] = files[1])
    PROVE  OneName'
<1>0. OneName /\ TypeOK /\ Snapshots
  BY DEF UploadInv
<1>1. \A r \in Live : rows'[r].upload \in Open <=> Unfinished(r)
  BY DEF SameRows, Unfinished, Open
<1>2. CASE 1 \in touched'
  BY <1>2 DEF OneName
<1>3. CASE 1 \notin touched'
  <2>0. 1 \notin touched
    BY <1>3 DEF Grows
  <2>1. card'.pc = "copied" /\ card'.item = 1 => card'.path = 1
    BY <1>0, <2>0 DEF OneName
  <2>2. \A r \in Live' : meta'[r].item = 1 /\ rows'[r].upload \in Open => meta'[r].path = 1
    BY <1>0, <1>1, <2>0 DEF OneName, SameRows
  <2>3. \A r, q \in Live' : meta'[r].item = 1 /\ rows'[r].upload \in Open /\ meta'[q].item = 1 /\ rows'[q].upload \in Open => r = q
    BY <1>0, <1>1, <2>0 DEF OneName, SameRows
  <2>4. card'.pc = "copied" /\ card'.item = 1 /\ Busy' /\ rows'[drain'.id].upload \in Open /\ drain'.row.item = 1 => files'[1][1] = "copy"
    BY <1>0, <1>1, <1>3, <2>0 DEF OneName, DrainOn, Snapshots, SnapshotOf
  <2> QED
    BY <2>1, <2>2, <2>3, <2>4 DEF OneName, Unfinished, Open
<1> QED
  BY <1>2, <1>3

\* MasterStays after a step.
StaysAfter(m) ==
    /\ m \in Live' /\ meta'[m].item = 1
    /\ \A r \in Live' : meta'[r].item = 1 /\ UnfinishedAfter(r) => r = m
    /\ Busy' /\ drain'.id = m /\ (UnfinishedAfter(m) \/ drain'.pc = "recorded") => files'[1][drain'.row.path] = "copy"
    /\ UnfinishedAfter(m) \/ (drain'.pc = "recorded" /\ drain'.id = m) \/ files'[1][meta'[m].path] = "copy"
    /\ drain'.pc = "recorded" /\ drain'.row.item = 1 /\ drain'.id # m => UnfinishedAfter(m)

LEMMA MasterStaysAfter ==
    ASSUME 1 \notin touched' /\ card'.item = 2 /\ master'.is = "queued" => StaysAfter(master'.id)
    PROVE  MasterStays'
BY DEF MasterStays, StaysAfter, UnfinishedAfter, Unfinished, Open

SameDrain == DrainOn /\ (drain'.pc = "recorded" <=> drain.pc = "recorded")

LEMMA StaysFrame ==
    ASSUME UploadInv, SameRows, Grows,
           card'.item = 2 /\ master'.is = "queued" =>
              card.item = 2 /\ master' = master /\ SameDrain /\ (1 \notin touched' => files'[1] = files[1])
    PROVE  MasterStays'
<1>0. MasterStays /\ TypeOK
  BY DEF UploadInv
<1>1. \A r \in Live : UnfinishedAfter(r) <=> Unfinished(r)
  BY DEF SameRows, Unfinished, UnfinishedAfter, Open
<1>2. SUFFICES ASSUME 1 \notin touched', card'.item = 2, master'.is = "queued" PROVE StaysAfter(master'.id)
  BY MasterStaysAfter
<1>3. 1 \notin touched /\ card.item = 2 /\ master.is = "queued" /\ master' = master /\ SameDrain /\ files'[1] = files[1]
  BY <1>2 DEF Grows
<1>4. drain'.pc = "recorded" => Busy'
  BY DEF Busy
<1> QED
  BY <1>0, <1>1, <1>2, <1>3, <1>4 DEF MasterStays, StaysAfter, SameRows, SameDrain, DrainOn

LEMMA ToldFrame ==
    ASSUME UploadInv, Grows, DrainOn,
           card'.pc \in {"uploaded", "placed"} => card.pc \in {"uploaded", "placed"} /\ card'.item = card.item,
           master'.is = "uploaded" => master' = master,
           drain'.pc \in {"stored", "confirmed", "recorded"} => drain.pc \in {"stored", "confirmed", "recorded"}
    PROVE  ToldStored'
<1>0. ToldStored /\ TypeOK /\ 1 \in Items /\ card.item \in Items
  BY Places, CardFacts DEF UploadInv
<1>1. drain'.pc \in {"stored", "confirmed", "recorded"} => Busy' /\ Busy
  BY DEF Busy
<1>2. Busy => drain.row.item \in Items
  BY <1>0, DrainFacts, SnapFacts
<1>3. drain'.pc \in {"stored", "confirmed", "recorded"} /\ drain'.row.hash = "copy" => stored'[drain'.row.item] # "no"
  BY <1>0, <1>1, <1>2 DEF ToldStored, Grows, DrainOn
<1>4. card'.pc \in {"uploaded", "placed"} => stored'[card'.item] # "no"
  BY <1>0 DEF ToldStored, Grows
<1>5. master'.is = "uploaded" => stored'[1] # "no"
  BY <1>0 DEF ToldStored, Grows
<1> QED
  BY <1>3, <1>4, <1>5 DEF ToldStored

LEMMA WorkFrame ==
    ASSUME UploadInv, \/ UNCHANGED <<card, master, rel>>
                      \/ card' = IdleCard \/ (\E is, id : FileDone(is, id)) \/ card' = [IdleCard EXCEPT !.pc = "next"]
                      \/ card' = [card EXCEPT !.pc = "uploaded"] /\ card.pc = "next"
    PROVE  CardWork'
<1>0. TypeOK /\ CardWork
  BY DEF UploadInv
<1>1. CASE UNCHANGED <<card, master, rel>>
  BY <1>0, <1>1 DEF CardWork
<1>2. CASE card' = IdleCard \/ (\E is, id : FileDone(is, id)) \/ card' = [IdleCard EXCEPT !.pc = "next"]
  <2>1. \/ card' = IdleCard \/ card' = [IdleCard EXCEPT !.pc = "next"]
        \/ card' = [IdleCard EXCEPT !.pc = "next", !.item = 2]
    BY <1>2 DEF FileDone
  <2>2. card'.path = 0 /\ card'.pc \notin {"placed", "copied"}
    <3>1. CASE card' = IdleCard
      BY <3>1 DEF IdleCard
    <3>2. CASE card' = [IdleCard EXCEPT !.pc = "next"]
      BY <3>2 DEF IdleCard
    <3>3. CASE card' = [IdleCard EXCEPT !.pc = "next", !.item = 2]
      BY <3>3 DEF IdleCard
    <3> QED
      BY <2>1, <3>1, <3>2, <3>3
  <2> QED
    BY <2>2 DEF CardWork
<1>3. CASE card' = [card EXCEPT !.pc = "uploaded"] /\ card.pc = "next"
  BY <1>0, <1>3, CardFacts DEF CardWork, TypeOK
<1> QED
  BY <1>1, <1>2, <1>3

\* What is left of the invariant when the types are kept.
LEMMA InvAfter ==
    ASSUME TypeOK', Snapshots', Recorded', ToldStored', CardWork', Untouched', OneName', MasterStays', Linked',
           DoneIsStored', CopyKept', SidecarFollows'
    PROVE  UploadInv'
BY DEF UploadInv

\* A step that closes no row, moves no file and uploads nothing.
LEMMA CalmStep ==
    ASSUME UploadInv, TypeOK', CardWork', SameRows, UNCHANGED <<files, stored>>, touched' = touched, SameTodo, DrainOn,
           drain'.pc \in {"stored", "confirmed", "recorded"} => drain.pc \in {"stored", "confirmed", "recorded"},
           drain'.pc = "recorded" => UNCHANGED drain,
           card'.pc = "copied" /\ card'.item = 1 => UNCHANGED card,
           card'.pc \in {"uploaded", "placed"} => UNCHANGED card,
           card'.item = 2 /\ master'.is = "queued" => card.item = 2 /\ master' = master /\ SameDrain,
           master'.is = "uploaded" => master' = master
    PROVE  UploadInv'
<1>1. Grows
  BY DEF Grows
<1> QED
  BY <1>1, UnchangedFiles, BytesFrame, SidecarFrame, SnapFrame, RecordedFrame, LinkFrame, OneNameFrame, StaysFrame, ToldFrame, InvAfter

-----------------------------------------------------------------------------
(* Steps of the world *)

LEMMA DrainStays == UNCHANGED <<drain, todo>> => SameTodo /\ SameDrain /\ DrainOn
BY DEF SameTodo, SameDrain, DrainOn, Busy

\* A phase that ends, or goes on to its next row.
LEMMA DrainRests ==
    ASSUME TypeOK, \/ drain' = IdleDrain /\ todo' = <<>>
                   \/ NextRow
    PROVE  /\ DrainType' /\ SameTodo /\ DrainOn /\ ~Busy'
           /\ drain'.pc \notin {"stored", "confirmed", "recorded"}
<1>0. DOMAIN <<>> = {} /\ <<>> \in [{} -> Meta]
  OBVIOUS
<1>1. CASE drain' = IdleDrain /\ todo' = <<>>
  BY <1>0, <1>1 DEF DrainType, SameTodo, DrainOn, Busy, IdleDrain
<1>2. CASE NextRow
  <2>1. drain' = Visiting /\ todo' = todo
    BY <1>2 DEF NextRow
  <2>2. DOMAIN todo \subseteq Ids /\ todo \in [DOMAIN todo -> Meta]
    BY DrainFacts
  <2>3. DrainType'
    BY <2>1, <2>2 DEF DrainType, Visiting
  <2>4. SameTodo
    BY <2>1 DEF SameTodo
  <2>5. ~Busy' /\ DrainOn /\ drain'.pc \notin {"stored", "confirmed", "recorded"}
    BY <2>1 DEF DrainOn, Busy, Visiting
  <2> QED
    BY <2>3, <2>4, <2>5
<1> QED
  BY <1>1, <1>2

LEMMA WorldSteps ==
    ASSUME UploadInv, Meter \/ Unmeter \/ BackoffEnds \/ ResetFailed
    PROVE  UploadInv'
<1>0. TypeOK
  BY DEF UploadInv
<1>1. ASSUME Meter \/ Unmeter PROVE UploadInv'
  <2>0. UNCHANGED <<dbVars, files, stored, card, master, inserts, drain, todo, rel, touched, faults>>
    BY <1>1 DEF Meter, Unmeter, cardVars, drainVars
  <2>1. UNCHANGED dbVars /\ UNCHANGED drainVars /\ NoFault
    BY <2>0 DEF drainVars, NoFault
  <2>2. EnvType'
    <3>1. EnvType
      BY <1>0, TypeParts
    <3>2. flips \in Nat
      BY <3>1 DEF EnvType
    <3>3. metered' \in BOOLEAN /\ UNCHANGED <<rel, touches, resets, touched>>
      BY <1>1 DEF Meter, Unmeter
    <3>4. flips' \in Nat
      BY <1>1, <3>2 DEF Meter, Unmeter
    <3> QED
      BY <3>1, <3>3, <3>4 DEF EnvType
  <2>3. TypeOK'
    BY <1>0, <2>0, <2>1, <2>2, TypeFrames, PartsAfter
  <2>4. SameRows
    BY <2>0, UnchangedRows DEF dbVars
  <2> QED
    BY <2>0, <2>3, <2>4, DrainStays, WorkFrame, CalmStep
<1>2. ASSUME BackoffEnds PROVE UploadInv'
  <2>0. UNCHANGED <<rows, meta, nextId, files, stored, card, master, inserts, drain, todo, env, faults>> /\ touched' = touched
    BY <1>2 DEF BackoffEnds, cardVars, drainVars, env
  <2>1. DbType'
    BY <1>0, <1>2, <2>0, TypeParts DEF BackoffEnds, DbType, Live
  <2>2. TypeOK'
    BY <1>0, <2>0, <2>1, TypeFrames, PartsAfter DEF drainVars, NoFault
  <2> QED
    BY <2>0, <2>2, UnchangedRows, DrainStays, WorkFrame, CalmStep DEF env
<1>3. ASSUME ResetFailed PROVE UploadInv'
  <2>0. UNCHANGED <<meta, nextId, files, stored, card, master, inserts, drain, todo, rel, touched, faults>>
    BY <1>3 DEF ResetFailed, cardVars, drainVars
  <2>1. rows' = [r \in Live |-> resetFailed(rows[r])] /\ waiting' \subseteq waiting
    BY <1>3 DEF ResetFailed
  <2>2. SameRows /\ DbType'
    BY <1>0, <2>0, <2>1, SameRowsOps
  <2>3. EnvType'
    <3>1. EnvType
      BY <1>0, TypeParts
    <3>2. resets > 0 /\ resets' = resets - 1 /\ UNCHANGED <<rel, metered, touches, flips, touched>>
      BY <1>3 DEF ResetFailed
    <3>3. resets' \in Nat
      BY <3>1, <3>2 DEF EnvType
    <3> QED
      BY <3>1, <3>2, <3>3 DEF EnvType
  <2>4. TypeOK'
    BY <1>0, <2>0, <2>2, <2>3, TypeFrames, PartsAfter DEF drainVars, NoFault
  <2> QED
    BY <2>0, <2>2, <2>4, DrainStays, WorkFrame, CalmStep
<1> QED
  BY <1>1, <1>2, <1>3

LEMMA CrashStep ==
    ASSUME UploadInv, Crash
    PROVE  UploadInv'
<1>0. TypeOK
  BY DEF UploadInv
<1>1. UNCHANGED <<dbVars, files, stored, master, inserts, env>> /\ touched' = touched /\ Fault
      /\ card' = IdleCard /\ drain' = IdleDrain /\ todo' = <<>>
  BY DEF Crash, env
<1>2. DrainType' /\ SameTodo /\ DrainOn /\ drain'.pc \notin {"stored", "confirmed", "recorded"}
  BY <1>0, <1>1, DrainRests
<1>3. CardType'
  BY <1>0, <1>1, CardGoes
<1>4. TypeOK'
  BY <1>0, <1>1, <1>2, <1>3, TypeFrames, PartsAfter
<1>5. SameRows
  BY <1>1, UnchangedRows DEF dbVars
<1>6. card'.pc = "out" /\ card'.item = 1
  BY <1>1 DEF IdleCard
<1> QED
  BY <1>1, <1>2, <1>4, <1>5, <1>6, WorkFrame, CalmStep

LEMMA TouchStep ==
    ASSUME UploadInv, Touch
    PROVE  UploadInv'
<1>0. TypeOK
  BY DEF UploadInv
<1>1. PICK i \in Items, p \in Paths, c \in {"none", "copy", "edited"} :
          files' = [files EXCEPT ![i][p] = c] /\ touched' = touched \cup {i}
  BY DEF Touch
<1>2. UNCHANGED <<dbVars, stored, card, master, inserts, drain, todo, faults, rel, metered, flips, resets>>
      /\ touches > 0 /\ touches' = touches - 1
  BY DEF Touch, cardVars, drainVars
<1>3. files' = [files EXCEPT ![i] = [files[i] EXCEPT ![p] = c]]
  BY <1>1
<1>4. FileType' /\ \A j \in Items \ {i} : files'[j] = files[j]
  <2>1. [files[i] EXCEPT ![p] = c] \in [Paths -> {"none", "copy", "edited"}]
    BY <1>0, FileFacts
  <2> QED
    BY <1>0, <1>3, <2>1, FileFacts DEF FileType
<1>5. EnvType'
  <2>1. EnvType
    BY <1>0, TypeParts
  <2>2. touches \in Nat
    BY <2>1 DEF EnvType
  <2>3. touches' \in Nat
    BY <1>2, <2>2
  <2> QED
    BY <1>1, <1>2, <2>1, <2>3 DEF EnvType
<1>6. UNCHANGED dbVars /\ UNCHANGED drainVars /\ NoFault
  BY <1>2 DEF drainVars, NoFault
<1>7. TypeOK'
  BY <1>0, <1>2, <1>4, <1>5, <1>6, TypeFrames, PartsAfter
<1>8. SameRows
  BY <1>2, UnchangedRows DEF dbVars
<1>9. Grows
  BY <1>1, <1>2 DEF Grows
<1>10. FilesKept /\ (1 \notin touched' => files'[1] = files[1])
  BY <1>1, <1>4, Places DEF FilesKept
<1>11. UNCHANGED <<card, master, stored, drain, todo, rel>>
  BY <1>2
<1> QED
  BY <1>7, <1>8, <1>9, <1>10, <1>11, DrainStays, BytesFrame, SidecarFrame, SnapFrame, RecordedFrame, LinkFrame, OneNameFrame,
     StaysFrame, ToldFrame, WorkFrame, InvAfter

-----------------------------------------------------------------------------
(* Steps of the card: uploading *)

\* An upload is kept under the first name it got.
LEMMA StoreKeeps ==
    ASSUME TypeOK, NEW i \in Items, NEW name \in {"planned", "final"}, Store(i, name)
    PROVE  /\ StoreType' /\ \A j \in Items : stored[j] # "no" => stored'[j] = stored[j]
           /\ stored'[i] # "no" /\ \A j \in Items \ {i} : stored'[j] = stored[j]
           /\ stored[i] = "no" => stored'[i] = name
<1>1. stored \in [Items -> {"no", "planned", "final"}]
  BY DEF TypeOK
<1>2. stored' = [stored EXCEPT ![i] = IF stored[i] = "no" THEN name ELSE stored[i]]
  BY DEF Store
<1> QED
  BY <1>1, <1>2 DEF StoreType

LEMMA CardRests == UNCHANGED <<rows, meta, nextId, waiting, drain, todo>> => SameRows /\ SameTodo /\ SameDrain /\ DrainOn /\ UNCHANGED dbVars /\ UNCHANGED drainVars
BY UnchangedRows, DrainStays DEF dbVars, drainVars

LEMMA InsertCardStep ==
    ASSUME UploadInv, InsertCard
    PROVE  UploadInv'
<1>0. TypeOK
  BY DEF UploadInv
<1>1. /\ UNCHANGED <<rows, meta, nextId, waiting, files, stored, master, drain, todo, env, faults>> /\ touched' = touched
      /\ card' = [IdleCard EXCEPT !.pc = "next"] /\ inserts > 0 /\ inserts' = inserts - 1
  BY DEF InsertCard, dbVars, drainVars, env
<1>2. CountType'
  <2>1. inserts \in 0..MaxInserts /\ faults \in Nat
    BY <1>0, TypeParts DEF CountType
  <2> QED
    BY <1>1, <2>1, Bounds DEF CountType
<1>3. CardType' /\ card'.pc = "next" /\ card'.item = 1
  <2>1. card' \in [pc : {"out", "next", "uploaded", "placed", "copied"}, item : Items,
                   path : Paths, fresh : BOOLEAN, ok : BOOLEAN]
    BY <1>1, Places DEF IdleCard
  <2> QED
    BY <1>0, <1>1, <2>1, TypeParts DEF CardType, IdleCard
<1>4. TypeOK'
  BY <1>0, <1>1, <1>2, <1>3, CardRests, TypeFrames, PartsAfter
<1> QED
  BY <1>1, <1>3, <1>4, CardRests, WorkFrame, CalmStep

LEMMA HoldBackStep ==
    ASSUME UploadInv, HoldBack
    PROVE  UploadInv'
<1>0. TypeOK
  BY DEF UploadInv
<1>1. /\ UNCHANGED <<rows, meta, nextId, waiting, files, stored, drain, todo, env, faults, inserts>> /\ touched' = touched
      /\ FileDone("failed", None) /\ card.item = 2
  BY DEF HoldBack, dbVars, drainVars, env, IsSidecar
<1>2. CardType' /\ card'.pc \in {"out", "next"} /\ card'.item # 2 /\ master' = master
  BY <1>0, <1>1, CardGoes
<1>3. TypeOK'
  BY <1>0, <1>1, <1>2, CardRests, TypeFrames, PartsAfter DEF NoFault
<1> QED
  BY <1>1, <1>2, <1>3, CardRests, WorkFrame, CalmStep

LEMMA StreamFileStep ==
    ASSUME UploadInv, StreamFile
    PROVE  UploadInv'
<1>0. TypeOK /\ card.item \in Items /\ card.item \in {1, 2}
  BY CardFacts, Places DEF UploadInv
<1>1. /\ UNCHANGED <<rows, meta, nextId, waiting, files, drain, todo, env, inserts>> /\ touched' = touched
      /\ Fault \/ NoFault
      /\ Ready /\ ~hold
  BY DEF StreamFile, dbVars, drainVars, env
<1>2. uploadName \in {"planned", "final"}
  BY DEF uploadName
<1>3. card.item = 2 => uploadName = "final" /\ stored[1] # "no"
  <2>1. card.item = 2 => master.is = "uploaded"
    BY <1>0, <1>1, CardFacts DEF Ready, hold, forceDefer, IsSidecar
  <2> QED
    BY <2>1 DEF uploadName, UploadInv, ToldStored
<1>4. Store(card.item, uploadName) \/ UNCHANGED stored
  BY DEF StreamFile
<1>5. StoreType' /\ Grows
  <2>1. CASE Store(card.item, uploadName)
    BY <1>0, <1>1, <1>2, <2>1, StoreKeeps DEF Grows
  <2>2. CASE UNCHANGED stored
    BY <1>0, <1>1, <2>2, TypeFrames DEF Grows
  <2> QED
    BY <1>4, <2>1, <2>2
<1>6. SidecarFollows'
  <2>1. CASE UNCHANGED stored
    BY <1>5, <2>1, SidecarFrame
  <2>2. CASE Store(card.item, uploadName)
    BY <1>0, <1>1, <1>2, <1>3, <2>2, StoreKeeps, Places DEF UploadInv, SidecarFollows
  <2> QED
    BY <1>4, <2>1, <2>2
<1>7. CASE card' = [card EXCEPT !.pc = "uploaded"] /\ UNCHANGED master /\ Store(card.item, uploadName)
  <2>1. /\ card'.item = card.item /\ card'.pc = "uploaded" /\ CardType'
    BY <1>0, <1>7, TypeParts DEF CardType
  <2>2. stored'[card.item] # "no"
    BY <1>0, <1>2, <1>7, StoreKeeps
  <2>3. ToldStored'
    <3>1. Busy /\ drain.row.hash = "copy" => drain.row.item \in Items
      BY <1>0, DrainFacts, SnapFacts
    <3>2. drain.pc \in {"stored", "confirmed", "recorded"} => Busy
      BY DEF Busy
    <3> QED
      BY <1>1, <1>5, <1>7, <2>1, <2>2, <3>1, <3>2, Places DEF UploadInv, ToldStored, Grows
  <2>4. TypeOK'
    BY <1>0, <1>1, <1>5, <2>1, CardRests, TypeFrames, PartsAfter
  <2> QED
    BY <1>1, <1>5, <1>6, <1>7, <2>1, <2>3, <2>4, CardRests, UnchangedFiles, BytesFrame, SnapFrame, RecordedFrame, LinkFrame, OneNameFrame,
       StaysFrame, WorkFrame, InvAfter DEF Ready
<1>8. CASE FileDone("failed", None)
  <2>1. /\ CardType' /\ card'.pc \in {"out", "next"} /\ (card'.item = 2 => card.item = 1)
        /\ master' = IF card.item = 1 THEN [is |-> "failed", id |-> None, path |-> card.path] ELSE master
    BY <1>0, <1>8, CardGoes
  <2>2. TypeOK'
    BY <1>0, <1>1, <1>5, <2>1, CardRests, TypeFrames, PartsAfter
  <2>3. card'.item = 2 => master'.is # "queued"
    BY <2>1
  <2>4. master'.is = "uploaded" => master' = master
    BY <2>1
  <2> QED
    BY <1>1, <1>5, <1>6, <1>8, <2>1, <2>2, <2>3, <2>4, CardRests, UnchangedFiles, BytesFrame, SnapFrame, RecordedFrame, LinkFrame, OneNameFrame,
       StaysFrame, ToldFrame, WorkFrame, InvAfter
<1> QED
  BY <1>7, <1>8 DEF StreamFile

\* What a rename and the placing of a copy make of an item's files.
Moves(i, from, to) ==
    /\ i \in Items /\ from \in Paths /\ to \in Paths /\ files[i][from] # "none" /\ files[i][to] = "none"
    /\ files' = [files EXCEPT ![i] = Renamed(files[i], from, to)]

LEMMA RenameKeeps ==
    ASSUME TypeOK, NEW i, NEW from, NEW to, Moves(i, from, to)
    PROVE  /\ i \in Items /\ from \in Paths /\ to \in Paths /\ from # to
           /\ files[i][from] # "none" /\ files[i][to] = "none"
           /\ FileType' /\ \A j \in Items \ {i} : files'[j] = files[j]
           /\ files'[i][from] = "none" /\ files'[i][to] = files[i][from]
           /\ \A p \in Paths \ {from, to} : files'[i][p] = files[i][p]
           /\ FilesKept
<1>0. /\ i \in Items /\ from \in Paths /\ to \in Paths /\ files[i][from] # "none" /\ files[i][to] = "none" /\ from # to
      /\ files' = [files EXCEPT ![i] = Renamed(files[i], from, to)]
  BY DEF Moves
<1>1. files \in [Items -> [Paths -> {"none", "copy", "edited"}]] /\ files[i] \in [Paths -> {"none", "copy", "edited"}]
  BY <1>0, FileFacts
<1> DEFINE g == Renamed(files[i], from, to)
<1>2. /\ g \in [Paths -> {"none", "copy", "edited"}] /\ g[from] = "none" /\ g[to] = files[i][from]
      /\ \A p \in Paths \ {from, to} : g[p] = files[i][p]
  BY <1>0, <1>1 DEF Renamed
<1> HIDE DEF g
<1>3. files' = [files EXCEPT ![i] = g]
  BY <1>0 DEF g
<1>4. FileType' /\ files'[i] = g /\ \A j \in Items \ {i} : files'[j] = files[j]
  BY <1>0, <1>1, <1>2, <1>3 DEF FileType
<1>5. \A p \in Paths : files'[i][p] = "edited" => \E q \in Paths : files[i][q] = "edited"
  BY <1>0, <1>2, <1>4
<1>6. \A p \in Paths : files[i][p] = "copy" => \E q \in Paths : files'[i][q] = "copy"
  BY <1>0, <1>2, <1>4
<1> QED
  BY <1>0, <1>2, <1>4, <1>5, <1>6 DEF FilesKept

LEMMA PlacedKeeps ==
    ASSUME TypeOK, NEW i \in Items, NEW p \in Paths,
           files' = [files EXCEPT ![i][p] = IF files[i][p] = "none" THEN "copy" ELSE files[i][p]]
    PROVE  /\ FileType' /\ \A j \in Items \ {i} : files'[j] = files[j]
           /\ files'[i][p] = IF files[i][p] = "none" THEN "copy" ELSE files[i][p]
           /\ \A q \in Paths \ {p} : files'[i][q] = files[i][q]
           /\ FilesKept
<1>1. files \in [Items -> [Paths -> {"none", "copy", "edited"}]] /\ files[i] \in [Paths -> {"none", "copy", "edited"}]
  BY FileFacts
<1> DEFINE g == [files[i] EXCEPT ![p] = IF files[i][p] = "none" THEN "copy" ELSE files[i][p]]
<1>2. /\ g \in [Paths -> {"none", "copy", "edited"}] /\ g[p] = IF files[i][p] = "none" THEN "copy" ELSE files[i][p]
      /\ \A q \in Paths \ {p} : g[q] = files[i][q]
  BY <1>1
<1> HIDE DEF g
<1>3. files' = [files EXCEPT ![i] = g]
  BY DEF g
<1>4. FileType' /\ files'[i] = g /\ \A j \in Items \ {i} : files'[j] = files[j]
  BY <1>1, <1>2, <1>3 DEF FileType
<1>5. (\A q \in Paths : files[i][q] # "edited") => \A q \in Paths : files'[i][q] # "edited"
  BY <1>2, <1>4
<1>6. \A q \in Paths : files[i][q] = "copy" => files'[i][q] = "copy"
  BY <1>2, <1>4
<1> QED
  BY <1>2, <1>4, <1>5, <1>6 DEF FilesKept

\* The earlier copy that is moved.
LEMMA EarlierIn ==
    ASSUME TypeOK, NEW i \in Items, NEW to, Movable(i, to)
    PROVE  /\ First(Earlier(i, to)) \in Names /\ First(Earlier(i, to)) \in Paths /\ First(Earlier(i, to)) # to
           /\ files[i][First(Earlier(i, to))] = "copy" /\ files[i][to] = "none"
<1>1. Earlier(i, to) # {} /\ files[i][to] = "none"
  BY DEF Movable
<1>2. Earlier(i, to) \subseteq Nat
  BY Places DEF Earlier
<1>3. First(Earlier(i, to)) \in Earlier(i, to)
  BY <1>1, <1>2, FirstIn
<1> QED
  BY <1>1, <1>3, Places DEF Earlier

LEMMA PlaceUploadedStep ==
    ASSUME UploadInv, PlaceUploaded
    PROVE  UploadInv'
<1> DEFINE i == card.item
<1>0. TypeOK /\ i \in Items /\ (rel[i] # Unsafe => rel[i] \in Paths) /\ i \in {1, 2}
  BY CardFacts, FileFacts, Places DEF UploadInv
<1>1. /\ UNCHANGED <<rows, meta, nextId, waiting, stored, master, drain, todo, env, inserts>> /\ touched' = touched
      /\ Fault \/ NoFault
      /\ card.pc = "uploaded"
  BY DEF PlaceUploaded, dbVars, drainVars, env
<1>2. \/ UNCHANGED files /\ card' = [card EXCEPT !.pc = "placed"]
      \/ /\ rel[i] # Unsafe /\ Movable(i, rel[i])
         /\ files' = [files EXCEPT ![i] = Renamed(files[i], First(Earlier(i, rel[i])), rel[i])]
         /\ card' = [card EXCEPT !.pc = "placed", !.ok = TRUE, !.path = First(Earlier(i, rel[i]))]
      \/ /\ rel[i] # Unsafe
         /\ files' = [files EXCEPT ![i][rel[i]] = IF files[i][rel[i]] = "none" THEN "copy" ELSE files[i][rel[i]]]
         /\ card' = [card EXCEPT !.pc = "placed", !.ok = files'[i][rel[i]] = "copy"]
  BY DEF PlaceUploaded
<1>3. FileType' /\ FilesKept /\ \A j \in Items \ {i} : files'[j] = files[j]
  <2>1. CASE UNCHANGED files
    BY <1>0, <2>1, TypeFrames, UnchangedFiles
  <2>2. CASE /\ rel[i] # Unsafe /\ Movable(i, rel[i])
             /\ files' = [files EXCEPT ![i] = Renamed(files[i], First(Earlier(i, rel[i])), rel[i])]
    <3>1. /\ First(Earlier(i, rel[i])) \in Paths /\ rel[i] \in Paths
          /\ files[i][First(Earlier(i, rel[i]))] = "copy" /\ files[i][rel[i]] = "none"
      BY <1>0, <2>2, EarlierIn
    <3>2. Moves(i, First(Earlier(i, rel[i])), rel[i])
      BY <1>0, <2>2, <3>1 DEF Moves
    <3> QED
      BY <1>0, <3>2, RenameKeeps
  <2>3. CASE /\ rel[i] # Unsafe
             /\ files' = [files EXCEPT ![i][rel[i]] = IF files[i][rel[i]] = "none" THEN "copy" ELSE files[i][rel[i]]]
    BY <1>0, <2>3, PlacedKeeps
  <2> QED
    BY <1>2, <2>1, <2>2, <2>3
<1>4. CardType' /\ card'.pc = "placed" /\ card'.item = card.item
  <2>1. CASE card' = [card EXCEPT !.pc = "placed"]
    BY <1>0, <1>1, <2>1, TypeParts DEF CardType
  <2>2. CASE rel[i] # Unsafe /\ Movable(i, rel[i]) /\ card' = [card EXCEPT !.pc = "placed", !.ok = TRUE, !.path = First(Earlier(i, rel[i]))]
    <3>1. First(Earlier(i, rel[i])) \in Paths
      BY <1>0, <2>2, EarlierIn
    <3> QED
      BY <1>0, <1>1, <2>2, <3>1, TypeParts DEF CardType
  <2>3. CASE card' = [card EXCEPT !.pc = "placed", !.ok = files'[i][rel[i]] = "copy"]
    <3> DEFINE ok == files'[i][rel[i]] = "copy"
    <3>1. ok \in BOOLEAN
      OBVIOUS
    <3>2. card' = [card EXCEPT !.pc = "placed", !.ok = ok]
      BY <2>3
    <3> HIDE DEF ok
    <3> QED
      BY <1>0, <1>1, <3>1, <3>2, TypeParts DEF CardType
  <2> QED
    BY <1>2, <2>1, <2>2, <2>3
<1>5. TypeOK'
  BY <1>0, <1>1, <1>3, <1>4, CardRests, TypeFrames, PartsAfter
<1>6. Grows
  BY <1>1 DEF Grows
<1>7. card'.item = 2 => files'[1] = files[1]
  BY <1>3, <1>4, Places
<1>8. CardWork'
  <2>1. card.path = 0 /\ rel' = rel
    BY <1>1 DEF UploadInv, CardWork, env
  <2>2. card'.path # 0 => rel[i] # Unsafe
    BY <1>0, <1>1, <1>2, <2>1, CardFacts DEF TypeOK
  <2> QED
    BY <1>4, <2>1, <2>2 DEF CardWork
<1> QED
  BY <1>1, <1>3, <1>4, <1>5, <1>6, <1>7, <1>8, CardRests, BytesFrame, SidecarFrame, SnapFrame, RecordedFrame, LinkFrame, OneNameFrame,
     StaysFrame, ToldFrame, InvAfter

-----------------------------------------------------------------------------
(* Closing a row *)

\* MarkUploadDone together with the path its copy is at, or goes to.
Closes(r, p) ==
    /\ r \in Live /\ Unfinished(r) /\ p \in Paths
    /\ rows' = [rows EXCEPT ![r] = MarkUploadDone(rows[r])] /\ meta' = [meta EXCEPT ![r].path = p]
    /\ UNCHANGED <<nextId, waiting>>

LEMMA CloseFacts ==
    ASSUME TypeOK, NEW r, NEW p, Closes(r, p)
    PROVE  /\ DbType' /\ Live' = Live /\ DOMAIN meta' = Live /\ rows'[r].upload = "DONE"
           /\ \A q \in Live : /\ meta'[q].item = meta[q].item /\ meta'[q].master = meta[q].master
                              /\ meta'[q].name = meta[q].name /\ meta'[q].base = meta[q].base /\ meta'[q].hash = meta[q].hash
           /\ meta'[r].path = p
           /\ \A q \in Live \ {r} : rows'[q] = rows[q] /\ meta'[q] = meta[q]
           /\ \A q \in Live : UnfinishedAfter(q) <=> Unfinished(q) /\ q # r
<1>0. rows \in [Live -> Row] /\ meta \in [Live -> Meta] /\ r \in Live /\ rows[r] \in Row /\ meta[r] \in Meta
  BY RowFacts DEF TypeOK, Closes
<1>1. MarkUploadDone(rows[r]) \in Row /\ MarkUploadDone(rows[r]).upload = "DONE"
  BY <1>0, RowOps DEF Closes, Unfinished
<1> DEFINE m == [meta[r] EXCEPT !.path = p]
<1>2. /\ m \in Meta /\ m.path = p /\ m.item = meta[r].item /\ m.master = meta[r].master
      /\ m.name = meta[r].name /\ m.base = meta[r].base /\ m.hash = meta[r].hash
  BY <1>0 DEF Closes, Meta
<1>3. meta' = [meta EXCEPT ![r] = m]
  BY <1>0 DEF Closes
<1> HIDE DEF m
<1>4. rows' \in [Live -> Row] /\ rows'[r].upload = "DONE" /\ \A q \in Live \ {r} : rows'[q] = rows[q]
  BY <1>0, <1>1 DEF Closes
<1>5. meta' \in [Live -> Meta] /\ meta'[r] = m /\ \A q \in Live \ {r} : meta'[q] = meta[q]
  BY <1>0, <1>2, <1>3
<1>6. Live' = Live
  BY <1>4 DEF Live
<1>7. DbType'
  BY <1>4, <1>5, <1>6, TypeParts DEF DbType, Closes
<1>8. \A q \in Live : UnfinishedAfter(q) <=> Unfinished(q) /\ q # r
  BY <1>4 DEF UnfinishedAfter, Unfinished, Open
<1> QED
  BY <1>2, <1>4, <1>5, <1>6, <1>7, <1>8

\* Row r is closed, and nothing is changed but its status and its path.
Shut(r) ==
    /\ r \in Live /\ Live' = Live /\ nextId' = nextId
    /\ \A q \in Live : /\ meta'[q].item = meta[q].item /\ meta'[q].master = meta[q].master
                       /\ meta'[q].name = meta[q].name /\ meta'[q].base = meta[q].base /\ meta'[q].hash = meta[q].hash
    /\ \A q \in Live \ {r} : rows'[q] = rows[q] /\ meta'[q] = meta[q]
    /\ \A q \in Live : UnfinishedAfter(q) <=> Unfinished(q) /\ q # r

LEMMA ClosesShuts ==
    ASSUME TypeOK, NEW r, NEW p, Closes(r, p)
    PROVE  DbType' /\ Shut(r) /\ meta'[r].path = p
BY CloseFacts DEF Shut, Closes

\* What closing a row keeps.
LEMMA CloseKeeps ==
    ASSUME UploadInv, NEW r, Shut(r), FilesKept, UNCHANGED stored, touched' = touched, SameTodo, DrainOn,
           meta[r].hash = "copy" => stored[meta[r].item] # "no",
           card'.pc = "copied" /\ card'.item = 1 => UNCHANGED card /\ (Busy' => files'[1] = files[1])
    PROVE  Snapshots' /\ Untouched' /\ OneName' /\ Linked' /\ DoneIsStored' /\ CopyKept' /\ SidecarFollows'
<1>0. TypeOK
  BY DEF UploadInv
<1>1. /\ Live' = Live /\ r \in Live /\ nextId' = nextId
      /\ \A q \in Live : /\ meta'[q].item = meta[q].item /\ meta'[q].master = meta[q].master
                         /\ meta'[q].name = meta[q].name /\ meta'[q].base = meta[q].base /\ meta'[q].hash = meta[q].hash
      /\ \A q \in Live \ {r} : rows'[q] = rows[q] /\ meta'[q] = meta[q]
      /\ \A q \in Live : UnfinishedAfter(q) <=> Unfinished(q) /\ q # r
  BY DEF Shut
<1>2. Snapshots'
  <2>0. Snapshots
    BY DEF UploadInv
  <2>1. \A row, q : SnapshotOf(row, q) => SnapAfter(row, q)
    BY <1>1 DEF SnapshotOf, SnapAfter
  <2>2. \A q \in Live' : q < nextId'
    BY <1>1, <2>0 DEF Snapshots
  <2>3. \A q \in DOMAIN todo' : SnapAfter(todo'[q], q) /\ todo'[q].name = meta'[q].name
    BY <1>1, <2>0, <2>1 DEF Snapshots, SameTodo, SnapshotOf
  <2>4. Busy' => SnapAfter(drain'.row, drain'.id)
    BY <2>0, <2>1 DEF Snapshots, DrainOn
  <2> QED
    BY <2>2, <2>3, <2>4, SnapsAfter
<1>3. Untouched'
  BY <1>0, <1>1, RowFacts DEF UploadInv, Untouched, FilesKept
<1>4. CopyKept'
  BY <1>0, <1>1, RowFacts DEF UploadInv, CopyKept, FilesKept
<1>5. DoneIsStored'
  BY <1>1 DEF UploadInv, DoneIsStored
<1>6. SidecarFollows'
  BY SidecarFrame DEF Grows
<1>7. OneName'
  <2>0. OneName /\ Snapshots
    BY DEF UploadInv
  <2> SUFFICES ASSUME 1 \notin touched PROVE OneName'
    BY DEF OneName
  <2>1. card'.pc = "copied" /\ card'.item = 1 => card'.path = 1
    BY <2>0 DEF OneName
  <2>2. \A q \in Live' : meta'[q].item = 1 /\ UnfinishedAfter(q) => meta'[q].path = 1
    BY <1>1, <2>0 DEF OneName
  <2>3. \A q, s \in Live' : meta'[q].item = 1 /\ UnfinishedAfter(q) /\ meta'[s].item = 1 /\ UnfinishedAfter(s) => q = s
    BY <1>1, <2>0 DEF OneName
  <2>4. card'.pc = "copied" /\ card'.item = 1 /\ Busy' /\ UnfinishedAfter(drain'.id) /\ drain'.row.item = 1 => files'[1][1] = "copy"
    BY <1>1, <2>0 DEF OneName, DrainOn, Snapshots, SnapshotOf
  <2> QED
    BY <2>1, <2>2, <2>3, <2>4 DEF OneName, Unfinished, UnfinishedAfter, Open
<1>8. Linked'
  <2>0. Linked
    BY DEF UploadInv
  <2>1. \A q \in Live' : meta'[q].master # None => meta'[q].item = 2
    BY <1>1, <2>0 DEF Linked
  <2>2. 1 \notin touched' => \A q \in Live' : meta'[q].item = 2 /\ meta'[q].master = None => meta'[q].name = "final" /\ stored'[1] # "no"
    BY <1>1, <2>0 DEF Linked
  <2>3. 1 \notin touched' => \A q \in Live' : meta'[q].master # None /\ (UnfinishedAfter(q) \/ q \in DOMAIN todo') =>
                                        meta'[q].master \in Live' /\ meta'[meta'[q].master].item = 1
    BY <1>1, <2>0 DEF Linked, SameTodo
  <2>4. 1 \notin touched' => (Busy' /\ drain'.row.item = 2 => drain'.row.name = "final" /\ stored'[1] # "no")
    BY <2>0 DEF Linked, DrainOn
  <2> QED
    BY <2>1, <2>2, <2>3, <2>4 DEF Linked, Unfinished, UnfinishedAfter, Open
<1> QED
  BY <1>2, <1>3, <1>4, <1>5, <1>6, <1>7, <1>8

LEMMA ShutRecorded ==
    ASSUME UploadInv, NEW r, Shut(r), UNCHANGED drain, Unfinished(r)
    PROVE  Recorded'
<1>1. drain.pc = "recorded" => drain.id \in Live /\ drain.id # r
  BY DEF UploadInv, Snapshots, SnapshotOf, Busy, Recorded
<1> QED
  BY <1>1 DEF UploadInv, Recorded, Shut, Unfinished, UnfinishedAfter, Open

\* The row of a copy, if there is one.
LEMMA OwnerIn ==
    ASSUME TypeOK, NEW i, NEW p
    PROVE  LET o == Owner(i, p) IN
           IF o = None THEN \A r \in Live : Unfinished(r) /\ meta[r].item = i => meta[r].path # p
           ELSE o \in Live /\ Unfinished(o) /\ meta[o].item = i /\ meta[o].path = p
<1> DEFINE S == {r \in Live : Unfinished(r) /\ meta[r].item = i /\ meta[r].path = p}
<1>1. S \subseteq Ids
  BY RowFacts
<1>2. IF S = {} THEN Newest(S) = None ELSE Newest(S) \in S /\ Newest(S) # None
  BY <1>1, NewestIn
<1>3. Owner(i, p) = Newest(S)
  BY DEF Owner
<1> QED
  BY <1>2, <1>3

LEMMA ReconcileStep ==
    ASSUME UploadInv, Reconcile
    PROVE  UploadInv'
<1> DEFINE i == card.item
           S == {r \in Live : Unfinished(r) /\ meta[r].item = i /\ meta[r].hash = "copy"}
           moved == card.path # 0
           r == IF moved /\ Owner(i, card.path) # None THEN Owner(i, card.path) ELSE Newest(S)
           is == IF card.ok THEN "uploaded" ELSE "failed"
<1>0. TypeOK /\ i \in Items /\ (rel[i] # Unsafe => rel[i] \in Paths)
  BY CardFacts, FileFacts DEF UploadInv
<1>1. /\ UNCHANGED <<nextId, waiting, files, stored, drain, todo, env, inserts>> /\ touched' = touched
      /\ Fault \/ NoFault
      /\ card.pc = "placed" /\ FileDone(is, None)
  BY DEF Reconcile, drainVars, env
<1>2. \/ /\ r # None /\ rows' = [rows EXCEPT ![r] = MarkUploadDone(rows[r])]
         /\ meta' = [meta EXCEPT ![r].path = IF moved /\ meta[r].path = card.path THEN rel[i] ELSE meta[r].path]
      \/ UNCHANGED <<rows, meta>>
  BY DEF Reconcile
<1>3. r # None => r \in Live /\ Unfinished(r) /\ meta[r].item = i
  <2>1. S \subseteq Ids
    BY <1>0, RowFacts
  <2>2. Newest(S) # None => Newest(S) \in S
    BY <2>1, NewestIn
  <2>3. Owner(i, card.path) # None => Owner(i, card.path) \in Live /\ Unfinished(Owner(i, card.path)) /\ meta[Owner(i, card.path)].item = i
    BY <1>0, OwnerIn
  <2> QED
    BY <2>2, <2>3
<1> HIDE DEF r
<1>4. stored[i] # "no"
  BY <1>1 DEF UploadInv, ToldStored
<1>5. /\ CardType' /\ card'.pc \in {"out", "next"} /\ (card'.item = 2 => card.item = 1)
      /\ master' = IF card.item = 1 THEN [is |-> is, id |-> None, path |-> card.path] ELSE master
  BY <1>0, <1>1, CardGoes
<1>6. card'.item = 2 => master'.is # "queued"
  BY <1>5
<1>7. CardWork'
  BY <1>1, WorkFrame
<1>8. MasterStays'
  BY <1>6, MasterStaysAfter
<1>9. SameTodo /\ SameDrain /\ DrainOn /\ UNCHANGED drainVars
  BY <1>1, DrainStays DEF drainVars
<1>10. ToldStored'
  <2>1. master'.is = "uploaded" => stored'[1] # "no"
    BY <1>0, <1>1, <1>4, <1>5 DEF UploadInv, ToldStored
  <2>2. card'.pc \notin {"uploaded", "placed"}
    BY <1>5
  <2>3. UNCHANGED <<drain, stored>>
    BY <1>1
  <2> QED
    BY <2>1, <2>2, <2>3 DEF UploadInv, ToldStored
<1>11. CASE UNCHANGED <<rows, meta>>
  <2>1. SameRows /\ UNCHANGED dbVars
    BY <1>1, <1>11, UnchangedRows DEF dbVars
  <2>2. TypeOK'
    BY <1>0, <1>1, <1>5, <1>9, <2>1, TypeFrames, PartsAfter
  <2>3. Grows
    BY <1>1 DEF Grows
  <2>4. UNCHANGED files /\ UNCHANGED stored /\ UNCHANGED drain
    BY <1>1
  <2> QED
    BY <1>5, <1>7, <1>8, <1>9, <1>10, <2>1, <2>2, <2>3, <2>4, UnchangedFiles, BytesFrame, SidecarFrame, SnapFrame, RecordedFrame, LinkFrame,
       OneNameFrame, InvAfter
<1>12. CASE /\ r # None /\ rows' = [rows EXCEPT ![r] = MarkUploadDone(rows[r])]
            /\ meta' = [meta EXCEPT ![r].path = IF moved /\ meta[r].path = card.path THEN rel[i] ELSE meta[r].path]
  <2> DEFINE p == IF moved /\ meta[r].path = card.path THEN rel[i] ELSE meta[r].path
  <2>1. p \in Paths
    <3>1. moved => rel[i] # Unsafe
      BY <1>1 DEF UploadInv, CardWork
    <3>2. meta[r].path \in Paths
      BY <1>0, <1>3, <1>12, RowFacts
    <3> QED
      BY <1>0, <3>1, <3>2
  <2>2. meta' = [meta EXCEPT ![r].path = p]
    BY <1>12
  <2> HIDE DEF p
  <2>3. Closes(r, p)
    BY <1>1, <1>3, <1>12, <2>1, <2>2 DEF Closes
  <2>4. meta[r].hash = "copy" => stored[meta[r].item] # "no"
    BY <1>3, <1>4, <1>12
  <2>5. UNCHANGED files /\ UNCHANGED stored /\ UNCHANGED env /\ UNCHANGED inserts
    BY <1>1
  <2>6. DbType' /\ Shut(r)
    BY <1>0, <2>3, ClosesShuts
  <2>7. Snapshots' /\ Untouched' /\ OneName' /\ Linked' /\ DoneIsStored' /\ CopyKept' /\ SidecarFollows'
    BY <1>1, <1>5, <1>9, <2>4, <2>5, <2>6, UnchangedFiles, CloseKeeps
  <2>8. Recorded'
    BY <1>1, <1>3, <1>12, <2>6, ShutRecorded
  <2>9. TypeOK'
    BY <1>0, <1>1, <1>5, <1>9, <2>5, <2>6, TypeFrames, PartsAfter
  <2> QED
    BY <1>7, <1>8, <1>10, <2>7, <2>9, <2>8, InvAfter
<1> QED
  BY <1>2, <1>11, <1>12

-----------------------------------------------------------------------------
(* Steps of the card: queueing *)

\* A file of the card fails: nothing else changes.
LEMMA FailsStep ==
    ASSUME UploadInv, NEW is \in {"failed", "deferred"}, FileDone(is, None), UNCHANGED <<rows, meta, nextId, waiting, files, stored, drain, todo, env, inserts>>,
           touched' = touched, Fault \/ NoFault
    PROVE  UploadInv'
<1>0. TypeOK
  BY DEF UploadInv
<1>1. /\ CardType' /\ card'.pc \in {"out", "next"} /\ (card'.item = 2 => card.item = 1)
      /\ master' = IF card.item = 1 THEN [is |-> is, id |-> None, path |-> card.path] ELSE master
  BY <1>0, CardGoes
<1>2. TypeOK'
  BY <1>0, <1>1, CardRests, TypeFrames, PartsAfter
<1>3. (card'.item = 2 => master'.is # "queued") /\ (master'.is = "uploaded" => master' = master)
  BY <1>1
<1> QED
  BY <1>1, <1>2, <1>3, CardRests, WorkFrame, CalmStep

\* Where the copy is kept: the media file that the user left alone, at 1.
LEMMA SlotIn ==
    ASSUME UploadInv
    PROVE  Slot \in Paths /\ (card.item = 1 /\ 1 \notin touched => Slot = 1)
<1>0. TypeOK
  BY DEF UploadInv
<1>1. CASE forceDefer
  BY <1>0, <1>1, CardFacts DEF Slot, forceDefer, IsSidecar
<1>2. CASE ~forceDefer
  <2> DEFINE S == {p \in Names : files[card.item][p] \in {"none", "copy"} \/ p = MaxTouches + 1}
  <2>1. Slot = First(S)
    BY <1>2 DEF Slot
  <2>2. S # {} /\ S \subseteq Nat
    BY Places
  <2>3. First(S) \in S /\ \A y \in S : First(S) <= y
    BY <2>2, FirstIn
  <2>4. Slot \in Paths
    BY <2>1, <2>3, Places
  <2>5. ASSUME card.item = 1, 1 \notin touched PROVE Slot = 1
    <3>1. files[1][1] \in {"none", "copy"}
      <4>1. files[1][1] # "edited"
        BY <2>5, Places DEF UploadInv, Untouched
      <4>2. files[1][1] \in {"none", "copy", "edited"}
        BY <1>0, Places, FileFacts
      <4> QED
        BY <4>1, <4>2
    <3>2. 1 \in S
      BY <2>5, <3>1, Places
    <3>3. Slot <= 1 /\ Slot \in Names
      BY <2>1, <2>3, <3>2
    <3>4. \A p \in Names : p \in Nat /\ 1 <= p
      BY Places
    <3> QED
      BY <3>3, <3>4
  <2> QED
    BY <2>4, <2>5
<1> QED
  BY <1>1, <1>2

LEMMA DeferFileStep ==
    ASSUME UploadInv, DeferFile
    PROVE  UploadInv'
<1> DEFINE i == card.item
           at == files[i][Slot]
<1>0. TypeOK /\ i \in Items /\ i \in {1, 2} /\ Slot \in Paths
  BY CardFacts, SlotIn, Places DEF UploadInv
<1>1. /\ UNCHANGED <<rows, meta, nextId, waiting, stored, drain, todo, env, inserts>> /\ touched' = touched
      /\ Fault \/ NoFault
  BY DEF DeferFile, dbVars, drainVars, env
<1>2. CASE FileDone("failed", None) /\ UNCHANGED files
  BY <1>1, <1>2, FailsStep
<1>3. CASE /\ at \in {"none", "copy"}
           /\ files' = [files EXCEPT ![i][Slot] = "copy"]
           /\ card' = [card EXCEPT !.pc = "copied", !.path = Slot, !.fresh = at = "none"]
           /\ UNCHANGED master
  <2>1. files' = [files EXCEPT ![i][Slot] = IF files[i][Slot] = "none" THEN "copy" ELSE files[i][Slot]]
    BY <1>3
  <2>2. FileType' /\ FilesKept /\ (\A j \in Items \ {i} : files'[j] = files[j]) /\ files'[i][Slot] = "copy"
    BY <1>0, <1>3, <2>1, PlacedKeeps
  <2>3. CardType' /\ card'.pc = "copied" /\ card'.item = i /\ card'.path = Slot
    <3> DEFINE fresh == at = "none"
    <3>1. fresh \in BOOLEAN
      OBVIOUS
    <3>2. card' = [card EXCEPT !.pc = "copied", !.path = Slot, !.fresh = fresh]
      BY <1>3
    <3> HIDE DEF fresh
    <3> QED
      BY <1>0, <1>3, <3>1, <3>2, TypeParts DEF CardType
  <2>4. TypeOK'
    BY <1>0, <1>1, <2>2, <2>3, CardRests, TypeFrames, PartsAfter
  <2>5. Grows /\ SameRows
    BY <1>1, UnchangedRows DEF Grows
  <2>6. CardWork'
    <3>1. i = 2 => master.is # "failed"
      BY DEF DeferFile, Ready, IsSidecar
    <3> QED
      BY <1>3, <2>3, <3>1 DEF CardWork
  <2>7. OneName'
    <3>0. OneName
      BY DEF UploadInv
    <3> SUFFICES ASSUME 1 \notin touched PROVE OneName'
      BY <1>1 DEF OneName
    <3>1. i = 1 => Slot = 1
      BY SlotIn
    <3>2. i = 1 => files'[1][1] = "copy"
      BY <2>2, <3>1
    <3>3. UNCHANGED <<rows, meta>>
      BY <1>1
    <3> QED
      BY <2>3, <3>0, <3>1, <3>2, <3>3 DEF OneName, Live, Unfinished
  <2>8. card'.item = 2 => files'[1] = files[1]
    BY <2>2, <2>3, Places
  <2> QED
    BY <1>1, <1>3, <2>2, <2>3, <2>4, <2>5, <2>6, <2>7, <2>8, CardRests, BytesFrame, SidecarFrame, SnapFrame, RecordedFrame, LinkFrame,
       StaysFrame, ToldFrame, InvAfter
<1> QED
  BY <1>2, <1>3 DEF DeferFile

\* A row that starts over.
LEMMA ResetOne ==
    ASSUME TypeOK, NEW r \in Live, rows' = [rows EXCEPT ![r] = resetFailed(rows[r])], UNCHANGED <<meta, nextId>>, waiting' \subseteq waiting
    PROVE  SameRows /\ DbType'
<1>1. rows \in [Live -> Row] /\ waiting \subseteq Ids
  BY DEF TypeOK
<1>2. resetFailed(rows[r]) \in Row /\ resetFailed(rows[r]).upload = IF rows[r].upload = "FAILED" THEN "PENDING" ELSE rows[r].upload
  BY <1>1, ResetRow
<1>3. /\ rows' \in [Live -> Row] /\ DOMAIN rows' = Live
      /\ \A q \in Live : rows'[q].upload = IF q = r /\ rows[q].upload = "FAILED" THEN "PENDING" ELSE rows[q].upload
  BY <1>1, <1>2
<1>4. Live' = Live
  BY <1>3 DEF Live
<1> QED
  BY <1>1, <1>3, <1>4, TypeParts DEF SameRows, DbType, Open

\* The row of the media file at work stands until its sidecar is queued.
LEMMA QueuedAgain ==
    ASSUME UploadInv, SameRows, UNCHANGED <<files, drain>>, touched' = touched,
           card.pc = "copied", card.item = 1, 1 \notin touched, Owner(1, card.path) # None
    PROVE  StaysAfter(Owner(1, card.path))
<1> DEFINE own == Owner(1, card.path)
<1>0. TypeOK /\ OneName /\ Snapshots
  BY DEF UploadInv
<1>1. own \in Live /\ Unfinished(own) /\ meta[own].item = 1
  BY <1>0, OwnerIn
<1> HIDE DEF own
<1>2. \A r \in Live : UnfinishedAfter(r) <=> Unfinished(r)
  BY DEF SameRows, Unfinished, UnfinishedAfter, Open
<1>3. \A r \in Live : meta[r].item = 1 /\ Unfinished(r) => r = own
  BY <1>0, <1>1 DEF OneName
<1>4. Busy /\ drain.id = own => files[1][drain.row.path] = "copy"
  <2> SUFFICES ASSUME Busy, drain.id = own PROVE files[1][drain.row.path] = "copy"
    OBVIOUS
  <2>1. SnapshotOf(drain.row, drain.id)
    BY <1>0 DEF Snapshots
  <2>2. drain.row.item = 1 /\ drain.row.path = meta[own].path
    BY <1>1, <2>1 DEF SnapshotOf
  <2>3. meta[own].path = 1 /\ files[1][1] = "copy"
    BY <1>0, <1>1, <2>2 DEF OneName
  <2> QED
    BY <2>2, <2>3
<1>5. Busy' <=> Busy
  BY DEF Busy
<1> QED
  BY <1>1, <1>2, <1>3, <1>4, <1>5 DEF StaysAfter, SameRows, own

LEMMA QueueAgainStep ==
    ASSUME UploadInv, card.pc = "copied",
           UNCHANGED <<meta, nextId, files, stored, inserts, drain, todo, env>>, touched' = touched, Fault \/ NoFault,
           Owner(card.item, card.path) # None, waiting' \subseteq waiting,
           rows' = [rows EXCEPT ![Owner(card.item, card.path)] = resetFailed(rows[Owner(card.item, card.path)])],
           FileDone("queued", Owner(card.item, card.path))
    PROVE  UploadInv'
<1> DEFINE own == Owner(card.item, card.path)
<1>0. TypeOK /\ own \in Live /\ own \in Ids /\ card.item \in {1, 2}
  BY OwnerIn, RowFacts, CardFacts, Places DEF UploadInv
<1>1. SameRows /\ DbType'
  BY <1>0, ResetOne
<1>2. /\ CardType' /\ card'.pc \in {"out", "next"} /\ (card'.item = 2 => card.item = 1)
      /\ master' = IF card.item = 1 THEN [is |-> "queued", id |-> own, path |-> card.path] ELSE master
  BY <1>0, CardGoes
<1>3. CardWork'
  BY WorkFrame
<1>4. UNCHANGED drainVars /\ SameTodo /\ DrainOn
  BY DrainStays DEF drainVars
<1>5. TypeOK'
  BY <1>0, <1>1, <1>2, <1>4, TypeFrames, PartsAfter
<1>6. MasterStays'
  <2>1. ASSUME 1 \notin touched', card'.item = 2, master'.is = "queued" PROVE StaysAfter(master'.id)
    <3>1. card.item = 1 /\ master'.id = own
      BY <1>2, <2>1
    <3> QED
      BY <1>0, <1>1, <2>1, <3>1, QueuedAgain, Places
  <2> QED
    BY <2>1, MasterStaysAfter
<1>7. master'.is = "uploaded" => master' = master
  BY <1>2
<1>8. Grows
  BY DEF Grows
<1>9. drain' = drain
  OBVIOUS
<1> QED
  BY <1>1, <1>2, <1>3, <1>4, <1>5, <1>6, <1>7, <1>8, <1>9, UnchangedFiles, BytesFrame, SidecarFrame, SnapFrame, RecordedFrame, LinkFrame,
     OneNameFrame, ToldFrame, InvAfter

\* The row that is inserted.
Inserts(m) ==
    /\ nextId <= MaxRows /\ nextId' = nextId + 1 /\ UNCHANGED waiting
    /\ rows' = [r \in Live \cup {nextId} |-> IF r \in Live THEN rows[r]
                  ELSE InsertPending(IF card.item = 1 THEN "MEDIA" ELSE "SIDECAR", "UPLOAD", Insertion)]
    /\ meta' = [r \in Live \cup {nextId} |-> IF r \in Live THEN meta[r] ELSE m]

LEMMA InsertFacts ==
    ASSUME UploadInv, NEW m \in Meta, Inserts(m)
    PROVE  /\ DbType' /\ nextId \notin Live /\ Live' = Live \cup {nextId}
           /\ rows'[nextId].upload = "PENDING" /\ meta'[nextId] = m
           /\ \A r \in Live : rows'[r] = rows[r] /\ meta'[r] = meta[r] /\ (UnfinishedAfter(r) <=> Unfinished(r))
           /\ UnfinishedAfter(nextId) /\ \A r \in Live' : r < nextId'
<1> DEFINE k == IF card.item = 1 THEN "MEDIA" ELSE "SIDECAR"
           new == InsertPending(k, "UPLOAD", Insertion)
<1>0. /\ rows \in [Live -> Row] /\ meta \in [Live -> Meta] /\ Live \subseteq Ids /\ waiting \subseteq Ids
      /\ nextId \in 1..(MaxRows + 1) /\ inserts \in 0..MaxInserts
      /\ \A r \in Live : r < nextId
  BY DEF UploadInv, TypeOK, Snapshots
<1>1. Insertion \in Nat
  BY <1>0, Bounds DEF Insertion
<1>2. new \in Row /\ new.upload = "PENDING"
  BY <1>1, InsertedRow DEF Kind
<1>3. nextId \notin Live /\ nextId \in Ids /\ nextId' \in 1..(MaxRows + 1)
  BY <1>0, Bounds, Places DEF Inserts, Ids
<1>4. rows' = [r \in Live \cup {nextId} |-> IF r \in Live THEN rows[r] ELSE new]
  BY DEF Inserts
<1> HIDE DEF new
<1>5. /\ rows' \in [Live \cup {nextId} -> Row] /\ DOMAIN rows' = Live \cup {nextId}
      /\ rows'[nextId] = new /\ \A r \in Live : rows'[r] = rows[r]
  BY <1>0, <1>2, <1>3, <1>4
<1>6. /\ meta' \in [Live \cup {nextId} -> Meta]
      /\ meta'[nextId] = m /\ \A r \in Live : meta'[r] = meta[r]
  BY <1>0, <1>3 DEF Inserts
<1>7. Live' = Live \cup {nextId}
  BY <1>5 DEF Live
<1>8. DbType'
  BY <1>0, <1>3, <1>5, <1>6, <1>7 DEF DbType, Inserts
<1>9. \A r \in Live' : r < nextId'
  BY <1>0, <1>7, Bounds, Places DEF Inserts
<1> QED
  BY <1>2, <1>3, <1>5, <1>6, <1>7, <1>8, <1>9 DEF UnfinishedAfter, Unfinished, Open

\* What a row inserted for the file at work says.
Queues(m) ==
    /\ m.item = card.item /\ m.path = card.path /\ m.name = uploadName
    /\ m.master = IF forceDefer THEN master.id ELSE None
    /\ m.base = files[card.item][card.path]
    /\ m.hash \in {"copy", m.base}

LEMMA InsertKeeps ==
    ASSUME UploadInv, NEW m \in Meta, Inserts(m), Queues(m), UNCHANGED <<files, stored, drain, todo>>, touched' = touched,
           card.pc = "copied", Owner(card.item, card.path) = None, ~(forceDefer /\ master.is = "deferred"),
           card'.pc \in {"out", "next"}
    PROVE  Snapshots' /\ Recorded' /\ Untouched' /\ OneName' /\ Linked' /\ DoneIsStored' /\ CopyKept'
<1>0. /\ TypeOK /\ Snapshots /\ OneName /\ Linked /\ card.item \in Items /\ card.item \in {1, 2} /\ card.path \in Paths
      /\ m.base \in {"copy", "edited"}
  BY CardFacts, SnapFacts, Places DEF UploadInv
<1>1. /\ nextId \notin Live /\ Live' = Live \cup {nextId}
      /\ rows'[nextId].upload = "PENDING" /\ meta'[nextId] = m
      /\ \A r \in Live : rows'[r] = rows[r] /\ meta'[r] = meta[r] /\ (UnfinishedAfter(r) <=> Unfinished(r))
      /\ UnfinishedAfter(nextId) /\ \A r \in Live' : r < nextId'
  BY InsertFacts
<1>2. card.item \notin touched => m.base = "copy" /\ m.hash = "copy"
  <2>1. card.item \notin touched => files[card.item][card.path] # "edited"
    BY <1>0 DEF UploadInv, Untouched
  <2> QED
    BY <1>0, <2>1 DEF Queues
<1>3. Snapshots'
  <2>1. \A row, r : SnapshotOf(row, r) => SnapAfter(row, r)
    BY <1>1 DEF SnapshotOf, SnapAfter
  <2>2. \A r \in DOMAIN todo' : SnapAfter(todo'[r], r) /\ todo'[r].name = meta'[r].name
    BY <1>0, <1>1, <2>1 DEF Snapshots, SnapshotOf
  <2>3. Busy' => SnapAfter(drain'.row, drain'.id)
    BY <1>0, <2>1 DEF Snapshots, Busy
  <2> QED
    BY <1>1, <2>2, <2>3, SnapsAfter
<1>4. Untouched'
  BY <1>1, <1>2 DEF UploadInv, Untouched, Queues
<1>5. CopyKept'
  <2>1. card.item \notin touched => files[card.item][card.path] = "copy"
    BY <1>2 DEF Queues
  <2> QED
    BY <1>0, <1>1, <2>1 DEF UploadInv, CopyKept, Queues
<1>6. DoneIsStored'
  BY <1>1 DEF UploadInv, DoneIsStored
<1>7. OneName'
  <2> SUFFICES ASSUME 1 \notin touched PROVE OneName'
    BY DEF OneName
  <2>1. card.item = 1 => card.path = 1 /\ \A r \in Live : ~(meta[r].item = 1 /\ Unfinished(r))
    BY <1>0, OwnerIn DEF OneName
  <2>2. \A r \in Live' : meta'[r].item = 1 /\ UnfinishedAfter(r) => meta'[r].path = 1
    BY <1>0, <1>1, <2>1 DEF OneName, Queues
  <2>3. \A r, q \in Live' : meta'[r].item = 1 /\ UnfinishedAfter(r) /\ meta'[q].item = 1 /\ UnfinishedAfter(q) => r = q
    BY <1>0, <1>1, <2>1 DEF OneName, Queues
  <2> QED
    BY <2>2, <2>3 DEF OneName, Unfinished, UnfinishedAfter, Open
<1>8. Linked'
  <2>1. m.master # None => m.item = 2
    BY DEF Queues, forceDefer, IsSidecar
  <2>2. m.item = 2 /\ 1 \notin touched => IF m.master = None THEN m.name = "final" /\ stored[1] # "no"
                                          ELSE m.master \in Live /\ meta[m.master].item = 1
    <3> SUFFICES ASSUME m.item = 2, 1 \notin touched
                 PROVE  IF m.master = None THEN m.name = "final" /\ stored[1] # "no" ELSE m.master \in Live /\ meta[m.master].item = 1
      OBVIOUS
    <3>1. card.item = 2
      BY DEF Queues
    <3>2. CASE forceDefer
      <4>1. master.is = "queued" /\ m.master = master.id
        BY <1>0, <3>2, CardFacts DEF forceDefer, Queues
      <4>2. master.id \in Live /\ meta[master.id].item = 1
        BY <3>1, <4>1 DEF UploadInv, MasterStays
      <4>3. master.id # None
        BY <1>0, <4>2, RowFacts, Places
      <4> QED
        BY <4>1, <4>2, <4>3
    <3>3. CASE ~forceDefer
      <4>1. master.is = "uploaded"
        BY <1>0, <3>1, <3>3, CardFacts DEF forceDefer, IsSidecar, UploadInv, CardWork
      <4> QED
        BY <3>3, <4>1 DEF Queues, uploadName, UploadInv, ToldStored
    <3> QED
      BY <3>2, <3>3
  <2>3. \A r \in Live' : meta'[r].master # None => meta'[r].item = 2
    BY <1>0, <1>1, <2>1 DEF Linked
  <2>4. 1 \notin touched' => \A r \in Live' : meta'[r].item = 2 /\ meta'[r].master = None => meta'[r].name = "final" /\ stored'[1] # "no"
    BY <1>0, <1>1, <2>2 DEF Linked
  <2>5. DOMAIN todo \subseteq Live
    BY <1>0 DEF Snapshots, SnapshotOf
  <2>6. 1 \notin touched' => \A r \in Live' : meta'[r].master # None /\ (UnfinishedAfter(r) \/ r \in DOMAIN todo') =>
                                        meta'[r].master \in Live' /\ meta'[meta'[r].master].item = 1
    BY <1>0, <1>1, <2>1, <2>2, <2>5 DEF Linked
  <2>7. 1 \notin touched' => (Busy' /\ drain'.row.item = 2 => drain'.row.name = "final" /\ stored'[1] # "no")
    BY <1>0 DEF Linked, Busy
  <2> QED
    BY <2>3, <2>4, <2>6, <2>7 DEF Linked, Unfinished, UnfinishedAfter, Open
<1>9. Recorded'
  <2>1. drain.pc = "recorded" => drain.id \in Live
    BY <1>0 DEF Snapshots, SnapshotOf, Busy
  <2> QED
    BY <1>1, <2>1 DEF UploadInv, Recorded, Unfinished, UnfinishedAfter, Open
<1> QED
  BY <1>3, <1>4, <1>5, <1>6, <1>7, <1>8, <1>9

LEMMA InsertStays ==
    ASSUME UploadInv, NEW m \in Meta, Inserts(m), Queues(m), UNCHANGED drain,
           card.pc = "copied", card.item = 1, 1 \notin touched, Owner(1, card.path) = None
    PROVE  StaysAfter(nextId)
<1>0. TypeOK /\ Snapshots /\ OneName
  BY DEF UploadInv
<1>1. /\ nextId \notin Live /\ Live' = Live \cup {nextId} /\ meta'[nextId] = m
      /\ \A r \in Live : meta'[r] = meta[r] /\ (UnfinishedAfter(r) <=> Unfinished(r))
      /\ UnfinishedAfter(nextId)
  BY InsertFacts
<1>2. card.path = 1 /\ \A r \in Live : ~(meta[r].item = 1 /\ Unfinished(r))
  BY <1>0, OwnerIn DEF OneName
<1>3. Busy => drain.id \in Live
  BY <1>0 DEF Snapshots, SnapshotOf
<1>4. Busy' <=> Busy
  BY DEF Busy
<1> QED
  BY <1>1, <1>2, <1>3, <1>4 DEF StaysAfter, Queues

LEMMA QueueNewStep ==
    ASSUME UploadInv, NEW m \in Meta, Inserts(m), Queues(m), FileDone("queued", nextId),
           UNCHANGED <<files, stored, inserts, drain, todo, env>>, touched' = touched, Fault \/ NoFault,
           card.pc = "copied", Owner(card.item, card.path) = None, ~(forceDefer /\ master.is = "deferred")
    PROVE  UploadInv'
<1>0. TypeOK /\ nextId \in Ids /\ card.item \in {1, 2}
  BY CardFacts, Places, Bounds DEF UploadInv, TypeOK, Inserts, Ids
<1>1. /\ CardType' /\ card'.pc \in {"out", "next"} /\ (card'.item = 2 => card.item = 1)
      /\ master' = IF card.item = 1 THEN [is |-> "queued", id |-> nextId, path |-> card.path] ELSE master
  BY <1>0, CardGoes
<1>2. DbType'
  BY InsertFacts
<1>3. CardWork'
  BY WorkFrame
<1>4. UNCHANGED drainVars /\ SameTodo /\ DrainOn
  BY DrainStays DEF drainVars
<1>5. TypeOK'
  BY <1>0, <1>1, <1>2, <1>4, TypeFrames, PartsAfter
<1>6. Snapshots' /\ Recorded' /\ Untouched' /\ OneName' /\ Linked' /\ DoneIsStored' /\ CopyKept'
  BY <1>1, InsertKeeps
<1>7. MasterStays'
  <2>1. ASSUME 1 \notin touched', card'.item = 2, master'.is = "queued" PROVE StaysAfter(master'.id)
    BY <1>0, <1>1, <2>1, InsertStays
  <2> QED
    BY <2>1, MasterStaysAfter
<1>8. Grows
  BY DEF Grows
<1>9. ToldStored' /\ SidecarFollows'
  <2>1. master'.is = "uploaded" => master' = master
    BY <1>1
  <2> QED
    BY <1>1, <1>4, <1>8, <2>1, ToldFrame, SidecarFrame
<1> QED
  BY <1>3, <1>5, <1>6, <1>7, <1>9, InvAfter

LEMMA QueueFileStep ==
    ASSUME UploadInv, QueueFile
    PROVE  UploadInv'
<1> DEFINE i == card.item
           at == files[i][card.path]
           own == Owner(i, card.path)
           noQueue == forceDefer /\ master.is = "deferred"
           pending == own # None /\ rows[own].upload = "PENDING"
           retry == own # None /\ rows[own].upload = "FAILED" /\ at = meta[own].base
           insert == own = None /\ Insertable(at)
<1>0. TypeOK /\ card.item \in Items /\ card.path \in Paths
  BY CardFacts DEF UploadInv
<1>1. UNCHANGED <<files, stored, inserts, drain, todo, env>> /\ touched' = touched /\ (Fault \/ NoFault) /\ card.pc = "copied"
  BY DEF QueueFile, drainVars, env
<1>2. \/ /\ own # None /\ waiting' \subseteq waiting
         /\ rows' = [rows EXCEPT ![own] = resetFailed(rows[own])] /\ FileDone("queued", own) /\ UNCHANGED <<meta, nextId>>
      \/ ~noQueue /\ own = None /\ at # "none" /\ Inserts(newMeta) /\ FileDone("queued", nextId)
      \/ FileDone("deferred", None) /\ UNCHANGED dbVars
  BY DEF QueueFile, Inserts, Insertable
<1>3. CASE /\ own # None /\ waiting' \subseteq waiting
           /\ rows' = [rows EXCEPT ![own] = resetFailed(rows[own])] /\ FileDone("queued", own) /\ UNCHANGED <<meta, nextId>>
  BY <1>1, <1>3, QueueAgainStep
<1>4. CASE ~noQueue /\ own = None /\ at # "none" /\ Inserts(newMeta) /\ FileDone("queued", nextId)
  <2>1. at \in {"copy", "edited"}
    BY <1>0, <1>4, FileFacts
  <2>2. uploadName \in {"planned", "final"} /\ (IF forceDefer THEN master.id ELSE None) \in {None} \cup Ids
    BY <1>0, CardFacts DEF uploadName
  <2>3. newMeta \in Meta
    BY <1>0, <2>1, <2>2 DEF newMeta, Meta
  <2>4. Queues(newMeta)
    BY DEF Queues, newMeta
  <2> QED
    BY <1>1, <1>4, <2>3, <2>4, QueueNewStep
<1>5. CASE FileDone("deferred", None) /\ UNCHANGED dbVars
  BY <1>1, <1>5, FailsStep DEF dbVars
<1> QED
  BY <1>2, <1>3, <1>4, <1>5

-----------------------------------------------------------------------------
(* Steps of Drain's upload phase that close no row and move no file *)

\* What a step of the phase leaves alone.
LEMMA DrainFrame ==
    ASSUME TypeOK, UNCHANGED <<cardVars, env>>, Fault \/ NoFault
    PROVE  /\ CardType' /\ EnvType' /\ CountType' /\ touched' = touched
           /\ UNCHANGED <<card, master, rel>>
<1>1. UNCHANGED <<card, master>> /\ UNCHANGED env /\ UNCHANGED inserts
  BY DEF cardVars
<1>2. touched' = touched /\ rel' = rel
  BY <1>1 DEF env
<1> QED
  BY <1>1, <1>2, TypeFrames

LEMMA StartUploadsStep ==
    ASSUME UploadInv, StartUploads
    PROVE  UploadInv'
<1> DEFINE due == {r \in Live : rows[r].upload = "PENDING" /\ r \notin waiting}
<1>0. TypeOK
  BY DEF UploadInv
<1>1. /\ UNCHANGED <<dbVars, files, stored, cardVars, env>> /\ NoFault
      /\ drain = IdleDrain /\ drain' = Visiting /\ todo' = [r \in due |-> meta[r]]
  BY DEF StartUploads, NoFault
<1>2. CardType' /\ EnvType' /\ CountType' /\ touched' = touched /\ UNCHANGED <<card, master, rel>>
  BY <1>0, <1>1, DrainFrame
<1>3. due \subseteq Live /\ due \subseteq Ids /\ \A r \in due : meta[r] \in Meta /\ Unfinished(r)
  BY <1>0, RowFacts DEF Unfinished
<1>4. DOMAIN todo' = due /\ \A r \in due : todo'[r] = meta[r]
  BY <1>1
<1> HIDE DEF due
<1>5. DrainType'
  <2>1. drain' \in [pc : {"visiting"}, id : {None}]
    BY <1>1 DEF Visiting
  <2>2. todo' \in [DOMAIN todo' -> Meta]
    BY <1>1, <1>3, <1>4 DEF due
  <2> QED
    BY <1>3, <1>4, <2>1, <2>2 DEF DrainType
<1>6. TypeOK'
  BY <1>0, <1>1, <1>2, <1>5, TypeFrames, PartsAfter
<1>7. drain.pc = "idle" /\ drain'.pc = "visiting" /\ ~Busy'
  BY <1>1 DEF IdleDrain, Visiting, Busy
<1>8. UNCHANGED <<rows, meta, nextId>> /\ SameRows /\ Grows /\ SameDrain /\ DrainOn
  BY <1>1, <1>2, <1>7, UnchangedRows DEF dbVars, Grows, SameDrain, DrainOn
<1>9. Snapshots'
  <2>1. \A r \in Live' : r < nextId'
    BY <1>8 DEF UploadInv, Snapshots, Live
  <2>2. \A r \in DOMAIN todo' : SnapAfter(todo'[r], r) /\ todo'[r].name = meta'[r].name
    BY <1>3, <1>4, <1>8 DEF SnapAfter, SameRows
  <2> QED
    BY <1>7, <2>1, <2>2, SnapsAfter
<1>10. Linked'
  BY <1>1, <1>2, <1>3, <1>4, <1>7, <1>8 DEF UploadInv, Linked, Live, Unfinished
<1> QED
  BY <1>1, <1>2, <1>6, <1>7, <1>8, <1>9, <1>10, UnchangedFiles, BytesFrame, SidecarFrame, RecordedFrame, OneNameFrame, StaysFrame,
     ToldFrame, WorkFrame, InvAfter

\* A phase that stops, or gives up on its row.
LEMMA GiveUpStep ==
    ASSUME UploadInv, SameRows, DbType', UNCHANGED <<files, stored, cardVars, env>>, Fault \/ NoFault,
           \/ drain' = IdleDrain /\ todo' = <<>>
           \/ NextRow
           \/ drain' = Visiting /\ DrainType' /\ SameTodo,
           drain.pc # "recorded"
    PROVE  UploadInv'
<1>0. TypeOK
  BY DEF UploadInv
<1>1. CardType' /\ EnvType' /\ CountType' /\ touched' = touched /\ UNCHANGED <<card, master, rel>>
  BY <1>0, DrainFrame
<1>2. DrainType' /\ SameTodo /\ DrainOn /\ drain'.pc \notin {"stored", "confirmed", "recorded"}
  <2>1. CASE drain' = Visiting /\ DrainType' /\ SameTodo
    BY <2>1 DEF Visiting, DrainOn, Busy
  <2> QED
    BY <1>0, <2>1, DrainRests
<1>3. TypeOK'
  BY <1>0, <1>1, <1>2, TypeFrames, PartsAfter
<1>4. SameDrain
  BY <1>2 DEF SameDrain
<1> QED
  BY <1>1, <1>2, <1>3, <1>4, WorkFrame, CalmStep

LEMMA EndUploadsStep ==
    ASSUME UploadInv, EndUploads
    PROVE  UploadInv'
<1>0. TypeOK
  BY DEF UploadInv
<1>1. /\ UNCHANGED <<dbVars, files, stored, cardVars, env>> /\ (Fault \/ NoFault)
      /\ drain' = IdleDrain /\ todo' = <<>> /\ drain.pc # "recorded"
  BY DEF EndUploads
<1>2. SameRows /\ DbType'
  BY <1>0, <1>1, UnchangedRows, TypeFrames DEF dbVars
<1> QED
  BY <1>1, <1>2, GiveUpStep

LEMMA UploadFailedStep ==
    ASSUME UploadInv, UploadFailed
    PROVE  UploadInv'
<1>0. TypeOK
  BY DEF UploadInv
<1>1. /\ UNCHANGED <<meta, nextId, files, stored, cardVars, env>> /\ (Fault \/ NoFault)
      /\ drain.pc \in {"refused", "broken"} /\ NextRow
      /\ \/ rows' = Fail(drain.id) /\ UNCHANGED waiting
         \/ Attempt(drain.id)
         \/ UNCHANGED <<rows, waiting>>
  BY DEF UploadFailed, Write, NoFault
<1>2. drain.id \in Ids
  BY <1>0, <1>1, DrainFacts DEF Busy
<1>3. SameRows /\ DbType'
  <2>1. CASE UNCHANGED <<rows, waiting>>
    BY <1>0, <1>1, <2>1, UnchangedRows, TypeFrames DEF dbVars
  <2> QED
    BY <1>0, <1>1, <1>2, <2>1, SameRowsOps
<1> QED
  BY <1>1, <1>3, GiveUpStep

\* Where the copy is to go.
LEMMA MoveIn ==
    ASSUME TypeOK, NEW row \in Meta
    PROVE  /\ plannedUploadMove(row) \in Paths
           /\ plannedUploadMove(row) # row.path => files[row.item][plannedUploadMove(row)] = "none"
BY FileFacts, SnapFacts DEF plannedUploadMove

LEMMA ConfirmRowStep ==
    ASSUME UploadInv, ConfirmRow
    PROVE  UploadInv'
<1>0. TypeOK
  BY DEF UploadInv
<1>1. /\ UNCHANGED <<dbVars, files, stored, cardVars, env>> /\ (Fault \/ NoFault) /\ drain.pc = "stored"
      /\ \/ NextRow
         \/ /\ drain' = [pc |-> "confirmed", id |-> drain.id, row |-> drain.row, target |-> plannedUploadMove(drain.row)]
            /\ UNCHANGED todo
  BY DEF ConfirmRow
<1>2. SameRows /\ DbType'
  BY <1>0, <1>1, UnchangedRows, TypeFrames DEF dbVars
<1>3. CASE NextRow
  BY <1>1, <1>2, <1>3, GiveUpStep
<1>4. CASE /\ drain' = [pc |-> "confirmed", id |-> drain.id, row |-> drain.row, target |-> plannedUploadMove(drain.row)]
           /\ UNCHANGED todo
  <2>1. CardType' /\ EnvType' /\ CountType' /\ touched' = touched /\ UNCHANGED <<card, master, rel>>
    BY <1>0, <1>1, DrainFrame
  <2>2. Busy /\ drain.id \in Ids /\ drain.row \in Meta
    BY <1>0, <1>1, DrainFacts DEF Busy
  <2>3. plannedUploadMove(drain.row) \in Paths
    BY <1>0, <2>2, MoveIn
  <2>4. DrainType' /\ DOMAIN todo' = DOMAIN todo
    BY <1>0, <1>4, <2>2, <2>3, DrainFacts DEF DrainType
  <2>5. SameTodo /\ DrainOn /\ drain'.pc = "confirmed" /\ SameDrain
    BY <1>1, <1>4, <2>2 DEF SameTodo, DrainOn, SameDrain
  <2>6. TypeOK'
    BY <1>0, <1>1, <1>2, <2>1, <2>4, TypeFrames, PartsAfter
  <2> QED
    BY <1>1, <1>2, <2>1, <2>5, <2>6, WorkFrame, CalmStep
<1> QED
  BY <1>1, <1>3, <1>4

LEMMA StreamRowStep ==
    ASSUME UploadInv, StreamRow
    PROVE  UploadInv'
<1> DEFINE row == drain.row
<1>0. TypeOK
  BY DEF UploadInv
<1>1. /\ UNCHANGED <<dbVars, files, cardVars, todo, env>> /\ (Fault \/ NoFault) /\ drain.pc = "streaming"
      /\ Store(row.item, row.name) \/ UNCHANGED stored
      /\ \E pc \in {"stored", "refused", "broken"} :
            drain' = [drain EXCEPT !.pc = pc] /\ (pc = "stored" /\ row.hash = "copy" => Store(row.item, row.name))
  BY DEF StreamRow
<1>2. PICK pc \in {"stored", "refused", "broken"} :
          drain' = [drain EXCEPT !.pc = pc] /\ (pc = "stored" /\ row.hash = "copy" => Store(row.item, row.name))
  BY <1>1
<1>3. /\ Busy /\ drain = [pc |-> drain.pc, id |-> drain.id, row |-> row] /\ drain.id \in Ids /\ row \in Meta
      /\ row.item \in Items /\ row.item \in {1, 2} /\ row.name \in {"planned", "final"}
  BY <1>0, <1>1, DrainFacts, SnapFacts, Places DEF Busy
<1>4. drain' = [pc |-> pc, id |-> drain.id, row |-> row]
  BY <1>2, <1>3
<1>5. DrainType' /\ SameTodo /\ DrainOn /\ SameDrain /\ drain'.pc = pc /\ drain'.row = row /\ Busy'
  <2>1. DOMAIN todo' \subseteq Ids /\ todo' \in [DOMAIN todo' -> Meta]
    BY <1>0, <1>1, DrainFacts
  <2>2. drain' \in [pc : {"streaming", "refused", "broken", "stored"}, id : Ids, row : Meta]
    BY <1>3, <1>4
  <2>3. DrainType'
    BY <2>1, <2>2 DEF DrainType
  <2> QED
    BY <1>1, <1>3, <1>4, <2>3 DEF SameTodo, DrainOn, SameDrain, Busy
<1>6. CardType' /\ EnvType' /\ CountType' /\ touched' = touched /\ UNCHANGED <<card, master, rel>>
  BY <1>0, <1>1, DrainFrame
<1>7. StoreType' /\ Grows
  <2>1. CASE Store(row.item, row.name)
    BY <1>0, <1>3, <1>6, <2>1, StoreKeeps DEF Grows
  <2>2. CASE UNCHANGED stored
    BY <1>0, <1>6, <2>2, TypeFrames DEF Grows
  <2> QED
    BY <1>1, <2>1, <2>2
<1>8. SidecarFollows'
  <2>1. CASE UNCHANGED stored
    BY <1>7, <2>1, SidecarFrame
  <2>2. CASE Store(row.item, row.name)
    <3>1. row.item = 2 /\ 1 \notin touched => row.name = "final" /\ stored[1] # "no"
      BY <1>3 DEF UploadInv, Linked
    <3> QED
      BY <1>0, <1>3, <1>6, <2>2, <3>1, StoreKeeps, Places DEF UploadInv, SidecarFollows
  <2> QED
    BY <1>1, <2>1, <2>2
<1>9. ToldStored'
  <2>1. card'.pc \in {"uploaded", "placed"} => stored'[card'.item] # "no"
    BY <1>0, <1>6, <1>7, CardFacts DEF UploadInv, ToldStored, Grows
  <2>2. master'.is = "uploaded" => stored'[1] # "no"
    BY <1>6, <1>7, Places DEF UploadInv, ToldStored, Grows
  <2>3. pc = "stored" /\ row.hash = "copy" => stored'[row.item] # "no"
    BY <1>0, <1>2, <1>3, StoreKeeps
  <2> QED
    BY <1>5, <2>1, <2>2, <2>3 DEF ToldStored
<1>10. SameRows
  BY <1>1, UnchangedRows DEF dbVars
<1>11. TypeOK'
  BY <1>0, <1>1, <1>5, <1>6, <1>7, TypeFrames, PartsAfter
<1> QED
  BY <1>1, <1>5, <1>6, <1>7, <1>8, <1>9, <1>10, <1>11, UnchangedFiles, BytesFrame, SnapFrame, RecordedFrame, LinkFrame, OneNameFrame,
     StaysFrame, WorkFrame, InvAfter

\* The row the phase goes on to, with its snapshot.
LEMMA TodoIn ==
    ASSUME UploadInv, todo # <<>>
    PROVE  LET id == First(DOMAIN todo) IN
           id \in DOMAIN todo /\ id \in Ids /\ todo[id] \in Meta /\ SnapshotOf(todo[id], id) /\ todo[id].name = meta[id].name
<1>0. DOMAIN todo \subseteq Ids /\ todo \in [DOMAIN todo -> Meta] /\ <<>> \in [{} -> Meta]
  BY DrainFacts DEF UploadInv
<1>1. DOMAIN todo # {}
  <2>1. \A f, g \in [{} -> Meta] : f = g
    OBVIOUS
  <2> QED
    BY <1>0, <2>1
<1>2. DOMAIN todo \subseteq Nat
  BY <1>0, Places
<1>3. First(DOMAIN todo) \in DOMAIN todo
  BY <1>1, <1>2, FirstIn
<1> QED
  BY <1>0, <1>3 DEF UploadInv, Snapshots

\* A row whose copy is as it was recorded is streamed.
LEMMA OpenRowStep ==
    ASSUME UploadInv, NEW id \in DOMAIN todo, NEW row, row = todo[id],
           MasterIs(row) = "DONE", files[row.item][row.path] = row.base,
           drain.pc = "visiting", todo' = [r \in DOMAIN todo \ {id} |-> todo[r]],
           drain' = [pc |-> "streaming", id |-> id, row |-> IF row.master \in Live THEN [row EXCEPT !.name = "final"] ELSE row],
           UNCHANGED <<dbVars, files, stored, cardVars, env>>, NoFault
    PROVE  UploadInv'
<1> DEFINE named == IF row.master \in Live THEN [row EXCEPT !.name = "final"] ELSE row
<1>0. TypeOK /\ id \in Ids /\ row \in Meta /\ SnapshotOf(row, id) /\ row.name = meta[id].name /\ DOMAIN todo \subseteq Ids
      /\ todo \in [DOMAIN todo -> Meta]
  BY DrainFacts DEF UploadInv, Snapshots
<1>1. /\ named \in Meta /\ named.item = row.item /\ named.path = row.path /\ named.master = row.master
      /\ named.base = row.base /\ named.hash = row.hash
      /\ named.name = IF row.master \in Live THEN "final" ELSE row.name
  BY <1>0, SnapFacts DEF Meta
<1>2. drain' = [pc |-> "streaming", id |-> id, row |-> named]
  OBVIOUS
<1> HIDE DEF named
<1>3. DOMAIN todo' = DOMAIN todo \ {id} /\ SameTodo
  BY DEF SameTodo
<1>4. DrainType' /\ Busy' /\ ~Busy /\ drain'.pc = "streaming" /\ drain'.id = id /\ drain'.row = named
  <2>1. drain' \in [pc : {"streaming", "refused", "broken", "stored"}, id : Ids, row : Meta]
    BY <1>0, <1>1, <1>2
  <2>2. todo' \in [DOMAIN todo' -> Meta] /\ DOMAIN todo' \subseteq Ids
    BY <1>0, <1>3
  <2> QED
    BY <1>2, <2>1, <2>2 DEF DrainType, Busy
<1>5. CardType' /\ EnvType' /\ CountType' /\ touched' = touched /\ UNCHANGED <<card, master, rel>>
  BY <1>0, DrainFrame
<1>6. UNCHANGED <<rows, meta, nextId>> /\ SameRows /\ Grows
  BY <1>5, UnchangedRows DEF dbVars, Grows
<1>7. TypeOK'
  BY <1>0, <1>4, <1>5, TypeFrames, PartsAfter
<1>8. \A r \in Live : UnfinishedAfter(r) <=> Unfinished(r)
  BY <1>6 DEF Unfinished, UnfinishedAfter, Open
<1>9. Live' = Live
  BY <1>6 DEF SameRows
<1>10. Snapshots'
  <2>1. \A s, r : SnapshotOf(s, r) => SnapAfter(s, r)
    BY <1>6, <1>8, <1>9 DEF SnapshotOf, SnapAfter
  <2>2. \A r \in Live' : r < nextId'
    BY <1>6, <1>9 DEF UploadInv, Snapshots
  <2>3. \A r \in DOMAIN todo' : SnapAfter(todo'[r], r) /\ todo'[r].name = meta'[r].name
    BY <1>3, <1>6, <2>1 DEF UploadInv, Snapshots, SameTodo
  <2>4. SnapAfter(named, id)
    BY <1>0, <1>1, <2>1 DEF SnapAfter
  <2> QED
    BY <1>4, <2>2, <2>3, <2>4, SnapsAfter
<1>11. row.item = 1 /\ 1 \notin touched => files[1][row.path] = "copy"
  BY <1>0, Places DEF UploadInv, Untouched, SnapshotOf
<1>12. OneName'
  <2>0. OneName
    BY DEF UploadInv
  <2>1. 1 \notin touched /\ row.item = 1 /\ Unfinished(id) => row.path = 1
    BY <1>0, <2>0 DEF OneName, SnapshotOf
  <2>2. 1 \notin touched /\ UnfinishedAfter(id) /\ named.item = 1 => files[1][1] = "copy"
    BY <1>0, <1>1, <1>8, <1>11, <2>1 DEF SnapshotOf
  <2>3. UNCHANGED <<card, rows, meta, files>> /\ touched' = touched
    BY <1>5, <1>6
  <2> QED
    BY <1>4, <2>0, <2>2, <2>3 DEF OneName, UnfinishedAfter, Unfinished, Open, Live
<1>13. MasterStays'
  <2>1. ASSUME 1 \notin touched', card'.item = 2, master'.is = "queued" PROVE StaysAfter(master'.id)
    <3> DEFINE m == master.id
    <3>1. /\ m \in Live /\ meta[m].item = 1 /\ \A r \in Live : meta[r].item = 1 /\ Unfinished(r) => r = m
          /\ Unfinished(m) \/ files[1][meta[m].path] = "copy"
      BY <1>5, <2>1 DEF UploadInv, MasterStays
    <3>2. id = m => files[1][row.path] = "copy"
      BY <1>0, <1>5, <1>11, <2>1, <3>1 DEF SnapshotOf
    <3> QED
      BY <1>1, <1>4, <1>5, <1>6, <1>8, <1>9, <3>1, <3>2 DEF StaysAfter
  <2> QED
    BY <2>1, MasterStaysAfter
<1>14. Linked'
  <2>0. Linked /\ DoneIsStored
    BY DEF UploadInv
  <2>1. 1 \notin touched /\ named.item = 2 => named.name = "final" /\ stored[1] # "no"
    <3> SUFFICES ASSUME 1 \notin touched, row.item = 2 PROVE named.name = "final" /\ stored[1] # "no"
      BY <1>1
    <3>1. CASE row.master = None
      <4>1. row.master \notin Live
        BY <1>0, <3>1, RowFacts, Places
      <4>2. id \in Live /\ meta[id].item = 2 /\ meta[id].master = None /\ named.name = meta[id].name
        BY <1>0, <1>1, <3>1, <4>1 DEF SnapshotOf
      <4> QED
        BY <2>0, <4>2 DEF Linked
    <3>2. CASE row.master # None
      <4>1. row.master \in Live /\ meta[row.master].item = 1
        BY <1>0, <2>0, <3>2 DEF Linked, SnapshotOf
      <4>2. rows[row.master].upload = "DONE" /\ meta[row.master].hash = "copy"
        BY <4>1, Places DEF MasterIs, UploadInv, Untouched
      <4> QED
        BY <1>1, <2>0, <4>1, <4>2 DEF DoneIsStored
    <3> QED
      BY <3>1, <3>2
  <2>2. UNCHANGED <<rows, meta, stored>> /\ touched' = touched /\ DOMAIN todo' \subseteq DOMAIN todo
    BY <1>3, <1>5, <1>6
  <2> QED
    BY <1>4, <2>0, <2>1, <2>2 DEF Linked, Live, Unfinished
<1>15. ToldStored'
  BY <1>4, <1>5 DEF UploadInv, ToldStored
<1>16. Recorded'
  BY <1>4 DEF Recorded
<1> QED
  BY <1>5, <1>6, <1>7, <1>10, <1>12, <1>13, <1>14, <1>15, <1>16, UnchangedFiles, BytesFrame, SidecarFrame, WorkFrame, InvAfter

LEMMA VisitRowStep ==
    ASSUME UploadInv, VisitRow
    PROVE  UploadInv'
<1> DEFINE id == First(DOMAIN todo)
           row == todo[id]
<1>0. TypeOK
  BY DEF UploadInv
<1>1. /\ UNCHANGED <<meta, nextId, files, stored, cardVars, env>> /\ (Fault \/ NoFault)
      /\ drain.pc = "visiting" /\ todo # <<>> /\ todo' = [r \in DOMAIN todo \ {id} |-> todo[r]]
      /\ \/ drain' = Visiting /\ UNCHANGED <<rows, waiting>>
         \/ drain' = Visiting /\ rows' = Fail(id) /\ UNCHANGED waiting
         \/ drain' = Visiting /\ Attempt(id)
         \/ /\ MasterIs(row) = "DONE" /\ files[row.item][row.path] = row.base /\ NoFault /\ UNCHANGED <<rows, waiting>>
            /\ drain' = [pc |-> "streaming", id |-> id, row |-> IF row.master \in Live THEN [row EXCEPT !.name = "final"] ELSE row]
  BY DEF VisitRow, Write, NoFault
<1>2. id \in DOMAIN todo /\ id \in Ids
  BY <1>1, TodoIn
<1> HIDE DEF id
<1>3. CASE /\ MasterIs(row) = "DONE" /\ files[row.item][row.path] = row.base /\ NoFault /\ UNCHANGED <<rows, waiting>>
           /\ drain' = [pc |-> "streaming", id |-> id, row |-> IF row.master \in Live THEN [row EXCEPT !.name = "final"] ELSE row]
  BY <1>1, <1>2, <1>3, OpenRowStep DEF dbVars
<1>4. CASE drain' = Visiting /\ ((UNCHANGED <<rows, waiting>>) \/ (rows' = Fail(id) /\ UNCHANGED waiting) \/ Attempt(id))
  <2>1. SameRows /\ DbType'
    <3>1. CASE UNCHANGED <<rows, waiting>>
      BY <1>0, <1>1, <3>1, UnchangedRows, TypeFrames DEF dbVars
    <3> QED
      BY <1>0, <1>1, <1>2, <1>4, <3>1, SameRowsOps
  <2>2. SameTodo /\ DrainType'
    <3>1. DOMAIN todo \subseteq Ids /\ todo \in [DOMAIN todo -> Meta]
      BY <1>0, DrainFacts
    <3>2. todo' \in [DOMAIN todo' -> Meta] /\ DOMAIN todo' \subseteq Ids
      BY <1>1, <3>1
    <3> QED
      BY <1>1, <1>4, <3>2 DEF SameTodo, DrainType, Visiting
  <2> QED
    BY <1>1, <1>4, <2>1, <2>2, GiveUpStep
<1> QED
  BY <1>1, <1>3, <1>4

-----------------------------------------------------------------------------
(* Steps of Drain's upload phase that close a row or move its copy *)

\* The row is closed, with the path its copy is to have.
LEMMA CloseRowStep ==
    ASSUME UploadInv, drain.pc = "confirmed", Closes(drain.id, drain.target), todo' = todo,
           drain' = IF drain.target = drain.row.path THEN Visiting ELSE [drain EXCEPT !.pc = "recorded"],
           UNCHANGED <<files, stored, cardVars, env>>, NoFault
    PROVE  UploadInv'
<1> DEFINE id == drain.id
           row == drain.row
<1>0. TypeOK
  BY DEF UploadInv
<1>1. /\ Busy /\ id \in Ids /\ row \in Meta /\ drain.target \in Paths /\ SnapshotOf(row, id)
      /\ drain = [pc |-> drain.pc, id |-> id, row |-> row, target |-> drain.target]
      /\ DOMAIN todo \subseteq Ids /\ todo \in [DOMAIN todo -> Meta]
  BY <1>0, DrainFacts DEF Busy, UploadInv, Snapshots
<1>2. \/ drain' = Visiting /\ drain.target = row.path
      \/ drain' = [pc |-> "recorded", id |-> id, row |-> row, target |-> drain.target]
  BY <1>1
<1>3. DrainType' /\ DOMAIN todo' = DOMAIN todo
  <2>1. \/ drain' \in [pc : {"visiting"}, id : {None}]
        \/ drain' \in [pc : {"confirmed", "recorded"}, id : Ids, row : Meta, target : Paths]
    BY <1>1, <1>2 DEF Visiting
  <2> QED
    BY <1>1, <2>1 DEF DrainType
<1>4. SameTodo /\ DrainOn /\ (Busy' => drain'.pc = "recorded" /\ drain'.id = id /\ drain'.row = row /\ drain'.target = drain.target)
      /\ drain'.pc \in {"visiting", "recorded"} /\ (drain'.pc = "visiting" => drain.target = row.path)
      /\ (drain'.pc = "recorded" => Busy')
  BY <1>1, <1>2 DEF SameTodo, DrainOn, Busy, Visiting
<1>5. CardType' /\ EnvType' /\ CountType' /\ touched' = touched /\ UNCHANGED <<card, master, rel>>
  BY <1>0, DrainFrame
<1>6. DbType' /\ Shut(id) /\ meta'[id].path = drain.target
  BY <1>0, ClosesShuts
<1>7. TypeOK'
  BY <1>0, <1>3, <1>5, <1>6, TypeFrames, PartsAfter
<1>8. meta[id].hash = "copy" => stored[meta[id].item] # "no"
  BY <1>1 DEF SnapshotOf, UploadInv, ToldStored
<1>9. Snapshots' /\ Untouched' /\ OneName' /\ Linked' /\ DoneIsStored' /\ CopyKept' /\ SidecarFollows'
  BY <1>4, <1>5, <1>6, <1>8, UnchangedFiles, CloseKeeps
<1>10. id \in Live /\ Unfinished(id) /\ ~UnfinishedAfter(id)
  BY <1>6 DEF Shut, Closes
<1>11. Recorded'
  BY <1>4, <1>6, <1>10 DEF Recorded, UnfinishedAfter, Unfinished, Open
<1>12. Grows
  BY <1>5 DEF Grows
<1>13. MasterStays'
  <2>1. ASSUME 1 \notin touched', card'.item = 2, master'.is = "queued" PROVE StaysAfter(master'.id)
    <3> DEFINE m == master.id
    <3>1. /\ m \in Live /\ meta[m].item = 1
          /\ \A r \in Live : meta[r].item = 1 /\ Unfinished(r) => r = m
          /\ id = m => files[1][row.path] = "copy"
          /\ Unfinished(m) \/ files[1][meta[m].path] = "copy"
      BY <1>1, <1>5, <1>10, <2>1 DEF UploadInv, MasterStays
    <3>2. Live' = Live /\ meta'[m].item = 1
      BY <1>6, <3>1 DEF Shut
    <3>3. \A r \in Live' : meta'[r].item = 1 /\ UnfinishedAfter(r) => r = m
      BY <1>6, <3>1, <3>2 DEF Shut
    <3>4. UnfinishedAfter(m) \/ (drain'.pc = "recorded" /\ drain'.id = m) \/ files[1][meta'[m].path] = "copy"
      <4>1. CASE id = m
        BY <1>4, <1>6, <3>1, <4>1
      <4>2. CASE id # m
        BY <1>6, <3>1, <4>2 DEF Shut
      <4> QED
        BY <4>1, <4>2
    <3>5. Busy' /\ drain'.row.item = 1 => id = m
      BY <1>1, <1>4, <1>10, <3>1 DEF SnapshotOf
    <3> QED
      BY <1>4, <1>5, <3>1, <3>2, <3>3, <3>4, <3>5 DEF StaysAfter
  <2> QED
    BY <2>1, MasterStaysAfter
<1> QED
  BY <1>4, <1>5, <1>7, <1>9, <1>11, <1>12, <1>13, ToldFrame, WorkFrame, InvAfter

LEMMA RecordRowStep ==
    ASSUME UploadInv, RecordRow
    PROVE  UploadInv'
<1>0. TypeOK
  BY DEF UploadInv
<1>1. /\ UNCHANGED <<nextId, waiting, files, stored, cardVars, todo, env>> /\ (Fault \/ NoFault) /\ drain.pc = "confirmed"
      /\ \/ /\ drain.id \in Live /\ Unfinished(drain.id) /\ NoFault
            /\ rows' = [rows EXCEPT ![drain.id] = MarkUploadDone(rows[drain.id])]
            /\ meta' = [meta EXCEPT ![drain.id].path = drain.target]
            /\ drain' = IF drain.target = drain.row.path THEN Visiting ELSE [drain EXCEPT !.pc = "recorded"]
         \/ drain' = Visiting /\ UNCHANGED <<rows, meta>>
  BY DEF RecordRow
<1>2. drain.target \in Paths
  BY <1>0, <1>1, DrainFacts
<1>3. CASE /\ drain.id \in Live /\ Unfinished(drain.id) /\ NoFault
           /\ rows' = [rows EXCEPT ![drain.id] = MarkUploadDone(rows[drain.id])]
           /\ meta' = [meta EXCEPT ![drain.id].path = drain.target]
           /\ drain' = IF drain.target = drain.row.path THEN Visiting ELSE [drain EXCEPT !.pc = "recorded"]
  <2>1. Closes(drain.id, drain.target)
    BY <1>1, <1>2, <1>3 DEF Closes
  <2> QED
    BY <1>1, <1>3, <2>1, CloseRowStep
<1>4. CASE drain' = Visiting /\ UNCHANGED <<rows, meta>>
  <2>1. SameRows /\ DbType'
    BY <1>0, <1>1, <1>4, UnchangedRows, TypeFrames DEF dbVars
  <2> QED
    BY <1>1, <1>4, <2>1, GiveUpStep DEF NextRow
<1> QED
  BY <1>1, <1>3, <1>4

\* What the invariant says of a row whose copy is about to be moved.
LEMMA MoveFacts ==
    ASSUME UploadInv, drain.pc = "recorded"
    PROVE  /\ TypeOK /\ Busy /\ drain.id \in Live /\ drain.row.item \in Items /\ drain.row.item \in {1, 2}
           /\ drain.row.path \in Paths /\ drain.target \in Paths
           /\ meta[drain.id].item = drain.row.item /\ meta[drain.id].path = drain.target /\ ~Unfinished(drain.id)
           /\ drain.row.hash = meta[drain.id].hash
           /\ drain.row.hash = "copy" => stored[drain.row.item] # "no"
           /\ 1 \notin touched /\ card.item = 2 /\ master.is = "queued" =>
                 /\ master.id \in Live /\ meta[master.id].item = 1
                 /\ \A r \in Live : meta[r].item = 1 /\ Unfinished(r) => r = master.id
                 /\ drain.id = master.id => files[1][drain.row.path] = "copy" /\ drain.row.item = 1
                 /\ Unfinished(master.id) \/ drain.id = master.id \/ files[1][meta[master.id].path] = "copy"
                 /\ drain.row.item = 1 /\ drain.id # master.id => Unfinished(master.id)
<1>1. TypeOK /\ Busy
  BY DEF UploadInv, Busy
<1>2. SnapshotOf(drain.row, drain.id) /\ ~Unfinished(drain.id) /\ meta[drain.id].path = drain.target
  BY <1>1 DEF UploadInv, Snapshots, Recorded
<1>3. drain.row \in Meta /\ drain.target \in Paths
  BY <1>1, DrainFacts
<1>4. drain.row.item \in Items /\ drain.row.path \in Paths
  BY <1>3, SnapFacts
<1>5. drain.row.hash = "copy" => stored[drain.row.item] # "no"
  BY DEF UploadInv, ToldStored
<1>6. 1 \notin touched /\ card.item = 2 /\ master.is = "queued" =>
         /\ master.id \in Live /\ meta[master.id].item = 1
         /\ \A r \in Live : meta[r].item = 1 /\ Unfinished(r) => r = master.id
         /\ drain.id = master.id => files[1][drain.row.path] = "copy" /\ drain.row.item = 1
         /\ Unfinished(master.id) \/ drain.id = master.id \/ files[1][meta[master.id].path] = "copy"
         /\ drain.row.item = 1 /\ drain.id # master.id => Unfinished(master.id)
  BY <1>1, <1>2 DEF UploadInv, MasterStays, SnapshotOf
<1> QED
  BY <1>1, <1>2, <1>3, <1>4, <1>5, <1>6, Places DEF SnapshotOf

\* The copy goes where its row says it does.
LEMMA CopyMovedStep ==
    ASSUME UploadInv, drain.pc = "recorded", NextRow,
           CanRename(files[drain.row.item], drain.row.path, drain.target),
           files' = [files EXCEPT ![drain.row.item] = Renamed(files[drain.row.item], drain.row.path, drain.target)],
           UNCHANGED <<dbVars, stored, cardVars, env>>, NoFault
    PROVE  UploadInv'
<1> DEFINE i == drain.row.item
           from == drain.row.path
<1>0. /\ TypeOK /\ i \in Items /\ i \in {1, 2} /\ from \in Paths /\ drain.target \in Paths
      /\ meta[drain.id].path = drain.target
      /\ files[i][from] # "none" /\ files[i][drain.target] = "none"
  BY MoveFacts DEF CanRename
<1>1. /\ FileType' /\ FilesKept /\ \A j \in Items \ {i} : files'[j] = files[j]
      /\ files'[i][drain.target] = files[i][from]
  <2>1. Moves(i, from, drain.target)
    BY <1>0 DEF Moves
  <2> QED
    BY <1>0, <2>1, RenameKeeps
<1>2. CardType' /\ EnvType' /\ CountType' /\ touched' = touched /\ UNCHANGED <<card, master, rel>>
  BY <1>0, DrainFrame
<1>3. DrainType' /\ SameTodo /\ DrainOn /\ ~Busy' /\ drain'.pc \notin {"stored", "confirmed", "recorded"}
  BY <1>0, DrainRests
<1>4. TypeOK'
  BY <1>0, <1>1, <1>2, <1>3, TypeFrames, PartsAfter
<1>5. SameRows /\ Grows
  BY <1>2, UnchangedRows DEF dbVars, Grows
<1>6. MasterStays'
  <2>1. ASSUME 1 \notin touched', card'.item = 2, master'.is = "queued" PROVE StaysAfter(master'.id)
    <3> DEFINE m == master.id
    <3>1. /\ m \in Live /\ meta[m].item = 1 /\ \A r \in Live : meta[r].item = 1 /\ Unfinished(r) => r = m
          /\ drain.id = m => files[1][from] = "copy" /\ i = 1
          /\ Unfinished(m) \/ drain.id = m \/ files[1][meta[m].path] = "copy"
          /\ i = 1 /\ drain.id # m => Unfinished(m)
      BY <1>2, <2>1, MoveFacts
    <3>2. Unfinished(m) \/ files'[1][meta[m].path] = "copy"
      BY <1>0, <1>1, <3>1, Places
    <3>3. \A r \in Live : UnfinishedAfter(r) <=> Unfinished(r)
      BY <1>5 DEF SameRows, Unfinished, UnfinishedAfter, Open
    <3> QED
      BY <1>2, <1>3, <1>5, <3>1, <3>2, <3>3 DEF StaysAfter, SameRows
  <2> QED
    BY <2>1, MasterStaysAfter
<1> QED
  BY <1>1, <1>2, <1>3, <1>4, <1>5, <1>6, BytesFrame, SidecarFrame, SnapFrame, RecordedFrame, LinkFrame, OneNameFrame,
     ToldFrame, WorkFrame, InvAfter

\* The copy stays, and the row says so again.
LEMMA CopyStayedStep ==
    ASSUME UploadInv, drain.pc = "recorded", NextRow,
           meta' = IF files[drain.row.item][drain.row.path] # "none" /\ drain.id \in Live
                   THEN [meta EXCEPT ![drain.id].path = drain.row.path] ELSE meta,
           UNCHANGED <<rows, nextId, waiting, files, stored, cardVars, env>>, Fault \/ NoFault
    PROVE  UploadInv'
<1> DEFINE id == drain.id
           from == drain.row.path
<1>0. /\ TypeOK /\ id \in Live /\ drain.row.item \in {1, 2} /\ from \in Paths /\ ~Unfinished(id)
      /\ meta[id].item = drain.row.item /\ meta[id].hash = drain.row.hash
      /\ drain.row.hash = "copy" => stored[drain.row.item] # "no"
  BY MoveFacts
<1>1. /\ rows \in [Live -> Row] /\ meta \in [Live -> Meta] /\ meta[id] \in Meta
  BY <1>0, RowFacts DEF TypeOK
<1> DEFINE p == IF files[drain.row.item][from] # "none" THEN from ELSE meta[id].path
           n == [meta[id] EXCEPT !.path = p]
<1>2. /\ n \in Meta /\ n.path = p /\ n.item = meta[id].item /\ n.master = meta[id].master
      /\ n.name = meta[id].name /\ n.base = meta[id].base /\ n.hash = meta[id].hash
  BY <1>0, <1>1 DEF Meta
<1>3. meta' = [meta EXCEPT ![id] = n]
  <2>1. CASE files[drain.row.item][from] # "none"
    BY <1>0, <1>1, <2>1
  <2>2. CASE files[drain.row.item][from] = "none"
    <3>1. n = meta[id]
      BY <1>1, <2>2 DEF Meta
    <3> QED
      BY <1>1, <2>2, <3>1
  <2> QED
    BY <2>1, <2>2
<1>4. p = IF files[drain.row.item][from] # "none" THEN from ELSE meta[id].path
  OBVIOUS
<1> HIDE DEF n, p
<1>5. meta' \in [Live -> Meta] /\ meta'[id] = n /\ \A q \in Live \ {id} : meta'[q] = meta[q]
  BY <1>0, <1>1, <1>2, <1>3
<1>6. Live' = Live /\ \A q \in Live : UnfinishedAfter(q) <=> Unfinished(q)
  BY DEF Live, UnfinishedAfter, Unfinished, Open
<1>7. DbType' /\ Shut(id)
  <2>1. DbType'
    BY <1>0, <1>1, <1>5, <1>6, TypeParts DEF DbType
  <2> QED
    BY <1>0, <1>2, <1>5, <1>6, <2>1 DEF Shut
<1>8. CardType' /\ EnvType' /\ CountType' /\ touched' = touched /\ UNCHANGED <<card, master, rel>>
  BY <1>0, DrainFrame
<1>9. DrainType' /\ SameTodo /\ DrainOn /\ ~Busy' /\ drain'.pc \notin {"stored", "confirmed", "recorded"}
  BY <1>0, DrainRests
<1>10. TypeOK'
  BY <1>0, <1>7, <1>8, <1>9, TypeFrames, PartsAfter
<1>11. Grows
  BY <1>8 DEF Grows
<1>12. Snapshots' /\ Untouched' /\ OneName' /\ Linked' /\ DoneIsStored' /\ CopyKept' /\ SidecarFollows'
  BY <1>0, <1>7, <1>8, <1>9, UnchangedFiles, CloseKeeps
<1>13. Recorded'
  BY <1>9 DEF Recorded
<1>14. MasterStays'
  <2>1. ASSUME 1 \notin touched', card'.item = 2, master'.is = "queued" PROVE StaysAfter(master'.id)
    <3> DEFINE m == master.id
    <3>1. /\ m \in Live /\ meta[m].item = 1 /\ \A r \in Live : meta[r].item = 1 /\ Unfinished(r) => r = m
          /\ id = m => files[1][from] = "copy" /\ drain.row.item = 1
          /\ Unfinished(m) \/ id = m \/ files[1][meta[m].path] = "copy"
      BY <1>8, <2>1, MoveFacts
    <3>2. \A q \in Live : meta'[q].item = meta[q].item
      BY <1>2, <1>5
    <3>3. Unfinished(m) \/ files[1][meta'[m].path] = "copy"
      <4>1. CASE id = m
        BY <1>2, <1>4, <1>5, <3>1, <4>1
      <4>2. CASE id # m
        BY <1>5, <3>1, <4>2
      <4> QED
        BY <4>1, <4>2
    <3> QED
      BY <1>6, <1>8, <1>9, <3>1, <3>2, <3>3 DEF StaysAfter
  <2> QED
    BY <2>1, MasterStaysAfter
<1> QED
  BY <1>8, <1>9, <1>10, <1>11, <1>12, <1>13, <1>14, ToldFrame, WorkFrame, InvAfter

LEMMA MoveRowStep ==
    ASSUME UploadInv, MoveRow
    PROVE  UploadInv'
<1> DEFINE i == drain.row.item
           from == drain.row.path
<1>1. /\ UNCHANGED <<rows, nextId, waiting, stored, cardVars, env>> /\ (Fault \/ NoFault) /\ drain.pc = "recorded" /\ NextRow
      /\ \/ /\ CanRename(files[i], from, drain.target) /\ NoFault
            /\ files' = [files EXCEPT ![i] = Renamed(files[i], from, drain.target)] /\ UNCHANGED meta
         \/ /\ meta' = IF files[i][from] # "none" /\ drain.id \in Live THEN [meta EXCEPT ![drain.id].path = from] ELSE meta
            /\ UNCHANGED files
  BY DEF MoveRow
<1>2. CASE /\ CanRename(files[i], from, drain.target) /\ NoFault
           /\ files' = [files EXCEPT ![i] = Renamed(files[i], from, drain.target)] /\ UNCHANGED meta
  BY <1>1, <1>2, CopyMovedStep DEF dbVars
<1>3. CASE /\ meta' = IF files[i][from] # "none" /\ drain.id \in Live THEN [meta EXCEPT ![drain.id].path = from] ELSE meta
           /\ UNCHANGED files
  BY <1>1, <1>3, CopyStayedStep
<1> QED
  BY <1>1, <1>2, <1>3

-----------------------------------------------------------------------------
(* The sweep, and the invariant *)

LEMMA CollectRowStep ==
    ASSUME UploadInv, CollectRow
    PROVE  UploadInv'
<1>0. TypeOK
  BY DEF UploadInv
<1>1. PICK r \in Live :
          /\ FinishedOld(rows[r], IF card = IdleCard THEN Insertion + 1 ELSE Insertion)
          /\ files[meta[r].item][meta[r].path] = "none" /\ NoSidecarWaits(r)
          /\ rows' = [q \in Live \ {r} |-> rows[q]] /\ meta' = [q \in Live \ {r} |-> meta[q]]
          /\ waiting' = waiting \ {r}
  BY DEF CollectRow
<1>2. /\ UNCHANGED <<nextId, files, stored, cardVars, drainVars, env>> /\ UNCHANGED <<drain, todo>> /\ NoFault
      /\ drain = IdleDrain
  BY DEF CollectRow, drainVars, NoFault
<1>3. CardType' /\ EnvType' /\ CountType' /\ touched' = touched /\ UNCHANGED <<card, master, rel>>
  BY <1>0, <1>2, DrainFrame
<1>4. ~Unfinished(r)
  <2>1. inserts \in 0..MaxInserts
    BY <1>0 DEF TypeOK
  <2>2. (IF card = IdleCard THEN Insertion + 1 ELSE Insertion) \in Nat
    BY <2>1, Bounds DEF Insertion
  <2> QED
    BY <1>0, <1>1, <2>2, SweptRow, RowFacts DEF Unfinished
<1>5. /\ Live' = Live \ {r} /\ rows' \in [Live \ {r} -> Row] /\ meta' \in [Live \ {r} -> Meta]
      /\ \A q \in Live \ {r} : rows'[q] = rows[q] /\ meta'[q] = meta[q] /\ (UnfinishedAfter(q) <=> Unfinished(q))
  BY <1>0, <1>1 DEF Live, TypeOK, UnfinishedAfter, Unfinished, Open
<1>6. DbType'
  BY <1>0, <1>1, <1>2, <1>5, TypeParts DEF DbType
<1>7. drain.pc = "idle" /\ ~Busy /\ ~Busy' /\ todo' = <<>> /\ DOMAIN todo' = {} /\ drain'.pc = "idle"
  BY <1>0, <1>2, DrainFacts DEF Busy
<1>8. TypeOK'
  BY <1>0, <1>2, <1>3, <1>6, TypeFrames, PartsAfter
<1>9. Grows /\ DrainOn
  BY <1>2, <1>3, <1>7 DEF Grows, DrainOn
<1>10. Snapshots'
  <2>1. \A q \in Live' : q < nextId'
    BY <1>2, <1>5 DEF UploadInv, Snapshots
  <2> QED
    BY <1>7, <2>1, SnapsAfter
<1>11. Untouched' /\ CopyKept' /\ DoneIsStored'
  BY <1>2, <1>3, <1>5 DEF UploadInv, Untouched, CopyKept, DoneIsStored
<1>12. OneName'
  <2>0. OneName
    BY DEF UploadInv
  <2>1. 1 \notin touched => \A q \in Live' : meta'[q].item = 1 /\ UnfinishedAfter(q) => meta'[q].path = 1
    BY <1>5, <2>0 DEF OneName
  <2>2. 1 \notin touched => \A q, s \in Live' : meta'[q].item = 1 /\ UnfinishedAfter(q) /\ meta'[s].item = 1 /\ UnfinishedAfter(s) => q = s
    BY <1>5, <2>0 DEF OneName
  <2> QED
    BY <1>3, <1>7, <2>0, <2>1, <2>2 DEF OneName, UnfinishedAfter, Unfinished, Open
<1>13. MasterStays'
  <2>1. ASSUME 1 \notin touched', card'.item = 2, master'.is = "queued" PROVE StaysAfter(master'.id)
    <3> DEFINE m == master.id
    <3>1. /\ m \in Live /\ meta[m].item = 1 /\ \A q \in Live : meta[q].item = 1 /\ Unfinished(q) => q = m
          /\ Unfinished(m) \/ files[1][meta[m].path] = "copy"
      BY <1>3, <1>7, <2>1 DEF UploadInv, MasterStays
    <3>2. m # r
      BY <1>1, <1>4, <3>1
    <3> QED
      BY <1>2, <1>3, <1>5, <1>7, <3>1, <3>2 DEF StaysAfter
  <2> QED
    BY <2>1, MasterStaysAfter
<1>14. Linked'
  <2>0. Linked
    BY DEF UploadInv
  <2>1. \A q \in Live' : meta'[q].master # None => meta'[q].item = 2
    BY <1>5, <2>0 DEF Linked
  <2>2. 1 \notin touched => \A q \in Live' : meta'[q].item = 2 /\ meta'[q].master = None => meta'[q].name = "final" /\ stored[1] # "no"
    BY <1>5, <2>0 DEF Linked
  <2>3. 1 \notin touched => \A q \in Live' : meta'[q].master # None /\ UnfinishedAfter(q) =>
                                     meta'[q].master \in Live' /\ meta'[meta'[q].master].item = 1
    BY <1>1, <1>5, <2>0 DEF Linked, NoSidecarWaits
  <2> QED
    BY <1>2, <1>3, <1>7, <2>1, <2>2, <2>3 DEF Linked, UnfinishedAfter, Unfinished, Open
<1>15. Recorded'
  BY <1>7 DEF Recorded
<1> QED
  BY <1>2, <1>3, <1>7, <1>8, <1>9, <1>10, <1>11, <1>12, <1>13, <1>14, <1>15, SidecarFrame, ToldFrame, WorkFrame, InvAfter

LEMMA UploadStarts == Init => UploadInv
<1> SUFFICES ASSUME Init PROVE UploadInv
  OBVIOUS
<1>1. Live = {} /\ DOMAIN <<>> = {} /\ <<>> \in [{} -> Row] /\ <<>> \in [{} -> Meta]
  BY DEF Init, Live
<1>2. DbType
  BY <1>1, Bounds DEF Init, DbType
<1>3. FileType /\ StoreType
  BY DEF Init, FileType, StoreType
<1>4. CardType
  BY Places DEF Init, CardType, IdleCard
<1>5. DrainType
  BY DEF Init, DrainType
<1>6. EnvType /\ CountType
  BY Bounds DEF Init, EnvType, CountType
<1>7. TypeOK
  BY <1>2, <1>3, <1>4, <1>5, <1>6, TypeParts
<1>8. ~Busy /\ DOMAIN todo = {} /\ drain.pc = "idle" /\ card.pc = "out" /\ card.item = 1 /\ card.path = 0 /\ master.is = "failed"
  BY <1>1 DEF Init, IdleDrain, IdleCard, Busy
<1>9. \A i \in Items : stored[i] = "no" /\ \A p \in Paths : files[i][p] = "none"
  BY DEF Init
<1>10. Snapshots /\ Recorded /\ ToldStored /\ CardWork
  BY <1>1, <1>8 DEF Snapshots, Recorded, ToldStored, CardWork
<1>11. Untouched /\ OneName /\ MasterStays /\ Linked
  BY <1>1, <1>8, <1>9 DEF Untouched, OneName, MasterStays, Linked
<1>12. DoneIsStored /\ CopyKept /\ SidecarFollows
  BY <1>1, <1>9, Places DEF DoneIsStored, CopyKept, SidecarFollows
<1> QED
  BY <1>7, <1>10, <1>11, <1>12 DEF UploadInv

LEMMA UploadStutters ==
    ASSUME UploadInv, UNCHANGED vars
    PROVE  UploadInv'
<1>0. TypeOK
  BY DEF UploadInv
<1>1. /\ UNCHANGED <<rows, meta, nextId, waiting, files, stored, card, master, inserts, drain, todo, rel, touched, faults>>
      /\ UNCHANGED <<dbVars, drainVars, env>>
  BY DEF vars, dbVars, cardVars, drainVars, env
<1>2. UNCHANGED dbVars /\ UNCHANGED drainVars /\ UNCHANGED env /\ NoFault
  BY <1>1 DEF NoFault
<1>3. TypeOK'
  BY <1>0, <1>1, <1>2, TypeFrames, PartsAfter
<1> QED
  BY <1>1, <1>3, UnchangedRows, DrainStays, WorkFrame, CalmStep

LEMMA UploadKeeps == UploadInv /\ [Next]_vars => UploadInv'
<1> SUFFICES ASSUME UploadInv, [Next]_vars PROVE UploadInv'
  OBVIOUS
<1>1. CASE CardStep
  BY <1>1, InsertCardStep, HoldBackStep, StreamFileStep, PlaceUploadedStep, ReconcileStep, DeferFileStep, QueueFileStep DEF CardStep
<1>2. CASE DrainStep
  BY <1>2, StartUploadsStep, EndUploadsStep, VisitRowStep, StreamRowStep, UploadFailedStep, ConfirmRowStep, RecordRowStep,
     MoveRowStep DEF DrainStep
<1>3. CASE CollectRow
  BY <1>3, CollectRowStep
<1>4. CASE ResetFailed \/ BackoffEnds \/ Meter \/ Unmeter
  BY <1>4, WorldSteps
<1>5. CASE Crash
  BY <1>5, CrashStep
<1>6. CASE Touch
  BY <1>6, TouchStep
<1>7. CASE UNCHANGED vars
  BY <1>7, UploadStutters
<1> QED
  BY <1>1, <1>2, <1>3, <1>4, <1>5, <1>6, <1>7 DEF Next

\* The invariant of uploads: TypeOK, the three properties below and what they
\* rest on hold in every reachable state.
THEOREM UploadInvariant == Spec => []UploadInv
<1> QED
  BY UploadStarts, UploadKeeps, PTL DEF Spec

\* A row queued for the card's bytes is DONE only when the server stored them
\* (streamUpload, reconcileQueuedUpload, MarkUploadDone).
THEOREM StoredSafety == Spec => []DoneIsStored
<1>1. UploadInv => DoneIsStored
  BY DEF UploadInv
<1> QED
  BY <1>1, UploadInvariant, PTL

\* An item that has a row keeps a copy of the card's bytes in the edit tree
\* for as long as the user leaves it alone (deferUploadCopy, moveDeferredCopy,
\* moveNoClobber).
THEOREM CopySafety == Spec => []CopyKept
<1>1. UploadInv => CopyKept
  BY DEF UploadInv
<1> QED
  BY <1>1, UploadInvariant, PTL

\* A sidecar reaches the server after its master and under the master's name
\* (uploadSidecar, drainUploadOne, CollectGarbage).
THEOREM SidecarSafety == Spec => []SidecarFollows
<1>1. UploadInv => SidecarFollows
  BY DEF UploadInv
<1> QED
  BY <1>1, UploadInvariant, PTL

-----------------------------------------------------------------------------
(* The user's own files *)

EditsOf(f) == {ip \in Items \X Paths : f[ip[1]][ip[2]] = "edited"}

LEMMA EditsFinite ==
    /\ IsFiniteSet(Items \X Paths)
    /\ \A f : EditsOf(f) \subseteq Items \X Paths /\ Edits(f) = Cardinality(EditsOf(f))
<1>1. IsFiniteSet(Names)
  <2>1. MaxTouches + 1 \in Int
    BY Bounds
  <2> QED
    BY <2>1, FS_Interval DEF Names
<1>2. Paths = Names \cup {0}
  BY DEF Paths
<1>3. IsFiniteSet(Paths)
  BY <1>1, <1>2, FS_AddElement
<1>4. IsFiniteSet({1, 2})
  <2>1. IsFiniteSet({1})
    BY FS_Singleton
  <2>2. IsFiniteSet({1} \cup {2}) /\ {1} \cup {2} = {1, 2}
    BY <2>1, FS_AddElement
  <2> QED
    BY <2>2
<1>5. IsFiniteSet(Items)
  BY <1>4, Places, FS_Subset
<1>6. IsFiniteSet(Items \X Paths)
  BY <1>3, <1>5, FS_Product
<1> QED
  BY <1>6 DEF EditsOf, Edits

\* No edited file goes.
LEMMA EditsGrow ==
    ASSUME TypeOK, \A i \in Items, p \in Paths : files[i][p] = "edited" => files'[i][p] = "edited"
    PROVE  Edits(files') >= Edits(files)
<1> DEFINE E == EditsOf(files)
           F == EditsOf(files')
<1>1. E \subseteq F
  BY DEF EditsOf
<1>2. IsFiniteSet(F)
  BY EditsFinite, FS_Subset
<1>3. IsFiniteSet(E) /\ Cardinality(E) <= Cardinality(F)
  BY <1>1, <1>2, FS_Subset
<1>4. Cardinality(E) \in Nat /\ Cardinality(F) \in Nat
  BY <1>2, <1>3, FS_CardinalityType
<1>5. Edits(files) = Cardinality(E) /\ Edits(files') = Cardinality(F)
  BY EditsFinite
<1> HIDE DEF E, F
<1> QED
  BY <1>3, <1>4, <1>5

\* An edited file that is renamed is still there.
LEMMA EditsMove ==
    ASSUME TypeOK, NEW i, NEW from, NEW to, Moves(i, from, to)
    PROVE  Edits(files') >= Edits(files)
<1>1. /\ i \in Items /\ from \in Paths /\ to \in Paths /\ from # to
      /\ files[i][from] # "none" /\ files[i][to] = "none"
      /\ \A j \in Items \ {i} : files'[j] = files[j]
      /\ files'[i][from] = "none" /\ files'[i][to] = files[i][from]
      /\ \A p \in Paths \ {from, to} : files'[i][p] = files[i][p]
  BY RenameKeeps
<1>2. CASE files[i][from] # "edited"
  <2>1. \A j \in Items, p \in Paths : files[j][p] = "edited" => files'[j][p] = "edited"
    BY <1>1, <1>2
  <2> QED
    BY <2>1, EditsGrow
<1>3. CASE files[i][from] = "edited"
  <2> DEFINE E == EditsOf(files)
             F == EditsOf(files')
             x == <<i, from>>
             y == <<i, to>>
  <2>1. x \in E /\ y \notin E
    BY <1>1, <1>3 DEF EditsOf
  <2>2. F = (E \ {x}) \cup {y}
    <3>1. ASSUME NEW j \in Items, NEW p \in Paths
          PROVE  files'[j][p] = "edited" <=> ((files[j][p] = "edited" /\ <<j, p>> # x) \/ <<j, p>> = y)
      BY <1>1, <1>3, <3>1
    <3>2. \A ip \in Items \X Paths : ip \in F <=> (ip \in E /\ ip # x) \/ ip = y
      BY <3>1 DEF EditsOf
    <3>3. y \in Items \X Paths
      BY <1>1
    <3> QED
      BY <3>2, <3>3, EditsFinite
  <2>3. IsFiniteSet(E) /\ Edits(files) = Cardinality(E) /\ Edits(files') = Cardinality(F)
    BY EditsFinite, FS_Subset
  <2> HIDE DEF E, F, x, y
  <2>4. IsFiniteSet(E \ {x}) /\ Cardinality(E \ {x}) = Cardinality(E) - 1 /\ y \notin E \ {x}
    BY <2>1, <2>3, FS_RemoveElement
  <2>5. Cardinality(F) = Cardinality(E \ {x}) + 1
    BY <2>2, <2>4, FS_AddElement
  <2>6. Cardinality(E) \in Nat
    BY <2>3, FS_CardinalityType
  <2> QED
    BY <2>3, <2>4, <2>5, <2>6
<1> QED
  BY <1>2, <1>3

\* The steps that leave every file where it is.
LEMMA FilesRest ==
    ASSUME \/ InsertCard \/ HoldBack \/ StreamFile \/ Reconcile \/ QueueFile
           \/ StartUploads \/ EndUploads \/ VisitRow \/ StreamRow \/ UploadFailed \/ ConfirmRow \/ RecordRow
           \/ CollectRow \/ ResetFailed \/ BackoffEnds \/ Crash \/ Meter \/ Unmeter
    PROVE  files' = files
BY DEF InsertCard, HoldBack, StreamFile, Reconcile, QueueFile, StartUploads, EndUploads, VisitRow, StreamRow, UploadFailed,
       ConfirmRow, RecordRow, CollectRow, ResetFailed, BackoffEnds, Crash, Meter, Unmeter

LEMMA EditsStep ==
    ASSUME UploadInv, [Next]_vars, touches' = touches
    PROVE  Edits(files') >= Edits(files)
<1>0. TypeOK
  BY DEF UploadInv
<1>1. CASE files' = files
  BY <1>0, <1>1, EditsGrow
<1>2. CASE PlaceUploaded
  <2> DEFINE i == card.item
             at == First(Earlier(i, rel[i]))
  <2>0. i \in Items /\ (rel[i] # Unsafe => rel[i] \in Paths)
    BY <1>0, CardFacts, FileFacts
  <2>1. \/ UNCHANGED files
        \/ rel[i] # Unsafe /\ Movable(i, rel[i]) /\ files' = [files EXCEPT ![i] = Renamed(files[i], at, rel[i])]
        \/ rel[i] # Unsafe /\ files' = [files EXCEPT ![i][rel[i]] = IF files[i][rel[i]] = "none" THEN "copy" ELSE files[i][rel[i]]]
    BY <1>2 DEF PlaceUploaded
  <2>2. CASE rel[i] # Unsafe /\ Movable(i, rel[i]) /\ files' = [files EXCEPT ![i] = Renamed(files[i], at, rel[i])]
    <3>1. at \in Paths /\ files[i][at] = "copy" /\ files[i][rel[i]] = "none"
      BY <1>0, <2>0, <2>2, EarlierIn
    <3>2. Moves(i, at, rel[i])
      BY <2>0, <2>2, <3>1 DEF Moves
    <3> QED
      BY <1>0, <3>2, EditsMove
  <2>3. CASE rel[i] # Unsafe /\ files' = [files EXCEPT ![i][rel[i]] = IF files[i][rel[i]] = "none" THEN "copy" ELSE files[i][rel[i]]]
    <3>1. /\ \A j \in Items \ {i} : files'[j] = files[j]
          /\ files'[i][rel[i]] = IF files[i][rel[i]] = "none" THEN "copy" ELSE files[i][rel[i]]
          /\ \A q \in Paths \ {rel[i]} : files'[i][q] = files[i][q]
      BY <1>0, <2>0, <2>3, PlacedKeeps
    <3>2. \A j \in Items, p \in Paths : files[j][p] = "edited" => files'[j][p] = "edited"
      BY <2>0, <2>3, <3>1
    <3> QED
      BY <1>0, <3>2, EditsGrow
  <2> QED
    BY <1>1, <2>1, <2>2, <2>3
<1>3. CASE DeferFile
  <2> DEFINE i == card.item
  <2>0. i \in Items /\ Slot \in Paths
    BY <1>0, CardFacts, SlotIn
  <2>1. \/ UNCHANGED files
        \/ files[i][Slot] \in {"none", "copy"} /\ files' = [files EXCEPT ![i][Slot] = "copy"]
    BY <1>3 DEF DeferFile
  <2>2. CASE files[i][Slot] \in {"none", "copy"} /\ files' = [files EXCEPT ![i][Slot] = "copy"]
    <3>1. files' = [files EXCEPT ![i][Slot] = IF files[i][Slot] = "none" THEN "copy" ELSE files[i][Slot]]
      BY <2>2
    <3>2. /\ \A j \in Items \ {i} : files'[j] = files[j]
          /\ \A q \in Paths \ {Slot} : files'[i][q] = files[i][q]
      BY <1>0, <2>0, <3>1, PlacedKeeps
    <3>3. \A j \in Items, p \in Paths : files[j][p] = "edited" => files'[j][p] = "edited"
      BY <2>0, <2>2, <3>2
    <3> QED
      BY <1>0, <3>3, EditsGrow
  <2> QED
    BY <1>1, <2>1, <2>2
<1>4. CASE MoveRow
  <2> DEFINE i == drain.row.item
             from == drain.row.path
  <2>0. i \in Items /\ from \in Paths /\ drain.target \in Paths
    BY <1>4, MoveFacts DEF MoveRow
  <2>1. \/ UNCHANGED files
        \/ CanRename(files[i], from, drain.target) /\ files' = [files EXCEPT ![i] = Renamed(files[i], from, drain.target)]
    BY <1>4 DEF MoveRow
  <2>2. CASE CanRename(files[i], from, drain.target) /\ files' = [files EXCEPT ![i] = Renamed(files[i], from, drain.target)]
    <3>1. Moves(i, from, drain.target)
      BY <2>0, <2>2 DEF Moves, CanRename
    <3> QED
      BY <1>0, <3>1, EditsMove
  <2> QED
    BY <1>1, <2>1, <2>2
<1>5. CASE Touch
  <2>1. touches \in Nat
    BY <1>0 DEF TypeOK
  <2> QED
    BY <1>5, <2>1 DEF Touch
<1>6. CASE UNCHANGED vars
  BY <1>1, <1>6 DEF vars
<1> QED
  BY <1>1, <1>2, <1>3, <1>4, <1>5, <1>6, FilesRest DEF Next, CardStep, DrainStep

\* Only the user makes one of the user's own files disappear: no copy is
\* placed or moved over one (placeLocalCopy, moveDeferredCopy, moveNoClobber).
THEOREM UserFilesSafety == Spec => UserFilesKept
<1>1. UploadInv /\ [Next]_vars => [touches' = touches => Edits(files') >= Edits(files)]_vars
  BY EditsStep
<1> QED
  BY <1>1, UploadInvariant, PTL DEF Spec, UserFilesKept

=============================================================================
