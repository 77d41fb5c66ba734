---------------------------- MODULE PruneProofs ----------------------------
(* Theorems about offline ingest, its queue rows and the prune pass beside  *)
(* them, for any number of files, contents, names, rows, crashes and        *)
(* interventions, if users keep off the names that rows claim.              *)
EXTENDS Prune, SequenceTheorems, WellFoundedInduction, TLAPS

-----------------------------------------------------------------------------
(* Choices *)

LEMMA Smallest ==
    ASSUME NEW S, S \subseteq Nat, S # {}
    PROVE  \E x \in S : \A y \in S : x <= y
<1>1. PICK x \in S : \A y \in S : ~(<<y, x>> \in OpToRel(<, Nat))
  BY NatLessThanWellFounded, WFMin
<1>2. \A y \in S : ~(y < x)
  BY <1>1 DEF OpToRel
<1> QED
  BY <1>2

\* Least yields an element.
LEMMA LeastIn ==
    ASSUME NEW S, S \subseteq Nat, S # {}
    PROVE  Least(S) \in S
BY Smallest DEF Least

\* Newest yields an element.
LEMMA NewestIn ==
    ASSUME NEW n \in Nat, NEW S, S \subseteq 1..n, S # {}
    PROVE  Newest(S) \in S
<1> DEFINE T == {n - j : j \in S}
<1>1. T # {}
  OBVIOUS
<1>0. T \subseteq Nat
  <2> SUFFICES ASSUME NEW j \in S PROVE n - j \in Nat
    OBVIOUS
  <2> QED
    OBVIOUS
<1>2. PICK x \in T : \A y \in T : x <= y
  BY <1>0, <1>1, Smallest
<1>3. PICK i \in S : x = n - i
  OBVIOUS
<1>4. \A j \in S : j <= i
  <2> TAKE j \in S
  <2>1. n - i <= n - j
    BY <1>2, <1>3
  <2> QED
    BY <2>1
<1> QED
  BY <1>4 DEF Newest

-----------------------------------------------------------------------------
(* Types *)

LEMMA Bounds ==
    /\ MaxName \in Nat /\ MaxRows \in Nat /\ MaxCrash \in Nat /\ MaxMeddle \in Nat
    /\ "none" \notin Contents /\ "other" \notin Contents /\ "partial" \notin Contents
BY OfflineAssumption

\* Rows are a sequence of rows.
LEMMA RowsType ==
    ASSUME TypeOK
    PROVE  /\ Len(rows) \in Nat /\ DOMAIN rows = 1..Len(rows)
           /\ \A i \in DOMAIN rows : /\ rows[i] \in Row
                                     /\ rows[i].name \in Names /\ rows[i].content \in Contents
                                     /\ rows[i].st \in State /\ rows[i].src \in Files
<1>1. rows \in Seq(Row)
  BY DEF TypeOK
<1>2. /\ Len(rows) \in Nat /\ DOMAIN rows = 1..Len(rows) /\ \A i \in DOMAIN rows : rows[i] \in Row
  BY <1>1, LenProperties, ElementOfSeq
<1> QED
  BY <1>2 DEF Row

\* What an update of one row does.
RowChanged(i, r) == rows' = [rows EXCEPT ![i] = r]

LEMMA RowChangedType ==
    ASSUME TypeOK, NEW i \in DOMAIN rows, NEW r \in Row, RowChanged(i, r)
    PROVE  /\ rows' \in Seq(Row) /\ Len(rows') = Len(rows) /\ DOMAIN rows' = DOMAIN rows
           /\ rows'[i] = r /\ \A j \in DOMAIN rows \ {i} : rows'[j] = rows[j]
<1>1. rows \in Seq(Row) /\ i \in 1..Len(rows)
  BY RowsType DEF TypeOK
<1>2. /\ rows' \in Seq(Row) /\ Len(rows') = Len(rows)
      /\ \A j \in 1..Len(rows) : rows'[j] = IF j = i THEN r ELSE rows[j]
  BY <1>1, ExceptSeq DEF RowChanged
<1>3. DOMAIN rows' = 1..Len(rows') /\ DOMAIN rows = 1..Len(rows)
  BY <1>1, <1>2, LenProperties
<1> QED
  BY <1>1, <1>2, <1>3

\* A new status or registration keeps path, name and content.
LEMMA SetRowChanges ==
    ASSUME TypeOK, NEW i \in DOMAIN rows
    PROVE  /\ \A st \in State : SetRow(i, st) => RowChanged(i, [rows[i] EXCEPT !.st = st]) /\ [rows[i] EXCEPT !.st = st] \in Row
           /\ rows' = [rows EXCEPT ![i].reg = TRUE] =>
                 RowChanged(i, [rows[i] EXCEPT !.reg = TRUE]) /\ [rows[i] EXCEPT !.reg = TRUE] \in Row
<1>1. rows[i] \in Row
  BY RowsType
<1> QED
  BY <1>1 DEF SetRow, RowChanged, Row

-----------------------------------------------------------------------------
(* Frames: what a step keeps if it only does so much *)

IngInv   == (ing.pc # "idle" => ing.src \in Files) /\ FreshName /\ OwnRow /\ TempWhole
StoreInv == ClaimsApart /\ LocalOwn /\ RowSafe /\ Accounted

LEMMA InvParts == PruneInv <=> PruneTypeOK /\ IngInv /\ StoreInv /\ MastersThere
BY DEF PruneInv, IngInv, StoreInv

LEMMA InvAfter ==
    ASSUME PruneTypeOK', IngInv', StoreInv', MastersThere'
    PROVE  PruneInv'
BY DEF PruneInv, IngInv, StoreInv

\* No row is added, and a row keeps its name and content.
SameRows ==
    /\ DOMAIN rows' = DOMAIN rows /\ Len(rows') = Len(rows)
    /\ \A i \in DOMAIN rows : /\ rows'[i].name = rows[i].name /\ rows'[i].content = rows[i].content
                              /\ rows[i].st = "gone" => rows'[i].st = "gone"

\* What is kept stays kept.
KeptAfter(c) == c \in touched' \/ \E k \in Names : archive'[k] = c
KeptGrows    == \A c \in Contents : Kept(c) => KeptAfter(c)

LEMMA UnchangedRows == UNCHANGED rows => SameRows
BY DEF SameRows

LEMMA ArchiveKeeps ==
    ASSUME touched \subseteq touched',
           \A k \in Names : archive[k] \in Contents => archive'[k] = archive[k] \/ archive[k] \in touched'
    PROVE  KeptGrows
BY DEF KeptGrows, Kept, KeptAfter

LEMMA IngIdle == ing' = Idle => IngInv'
BY DEF IngInv, Idle, FreshName, OwnRow, TempWhole

LEMMA LiveFrame ==
    ASSUME SameRows
    PROVE  /\ Live' \subseteq Live
           /\ \A k \in Names : ByLocalPath(k)' \subseteq ByLocalPath(k)
BY DEF SameRows, Live, ByLocalPath

LEMMA IngFrame ==
    ASSUME PruneInv, SameRows, KeptGrows, UNCHANGED <<ing, card, tmp>>,
           ing.pc = "idle" \/ local'[ing.name] \in {local[ing.name], "none", "other"}
    PROVE  IngInv'
<1>0. IngInv /\ TypeOK
  BY InvParts DEF PruneTypeOK
<1>1. FreshName'
  BY <1>0, LiveFrame DEF IngInv, FreshName, SameRows
<1>2. OwnRow'
  <2> SUFFICES ASSUME ing.pc \in {"resume", "recopy", "replace", "place", "post"}
               PROVE  /\ ing.row \in DOMAIN rows' /\ rows'[ing.row].content = Content' /\ rows'[ing.row].name = ing.name
                      /\ ByLocalPath(ing.name)' \subseteq {ing.row}
    BY DEF OwnRow
  <2>1. /\ ing.row \in DOMAIN rows /\ rows[ing.row].content = Content /\ rows[ing.row].name = ing.name
        /\ ByLocalPath(ing.name) \subseteq {ing.row}
    BY <1>0 DEF IngInv, OwnRow
  <2>2. ing.name \in Names
    BY <1>0, <2>1, RowsType
  <2> QED
    BY <2>1, <2>2, LiveFrame DEF SameRows, Content
<1>3. TempWhole'
  <2>1. ing.pc = "recopy" => Content \in Contents
    BY <1>0 DEF IngInv, TypeOK, Content
  <2> QED
    BY <1>0, <2>1 DEF IngInv, TempWhole, KeptGrows, Kept, KeptAfter, Content
<1> QED
  BY <1>0, <1>1, <1>2, <1>3 DEF IngInv

LEMMA StoreFrame ==
    ASSUME PruneInv, SameRows, KeptGrows,
           \A i \in Live : local'[rows[i].name] \in {local[rows[i].name], "none", "other", rows[i].content},
           \A i \in DOMAIN rows :
              \/ KeptAfter(rows[i].content)
              \/ /\ rows'[i].st \in {"pending", "failed"}
                 /\ rows[i].content \in {local'[rows[i].name], tmp'[rows[i].name]},
           \A c \in promised' \cup known' :
              c \in promised \cup known \/ (c \in Contents /\ Kept(c)) \/ \E i \in DOMAIN rows : rows[i].content = c
    PROVE  StoreInv'
<1>0. StoreInv /\ TypeOK
  BY InvParts DEF PruneTypeOK
<1>1. ClaimsApart'
  BY <1>0, LiveFrame DEF StoreInv, ClaimsApart, SameRows, Live
<1>2. LocalOwn'
  BY <1>0, LiveFrame DEF StoreInv, LocalOwn, SameRows, Live
<1>3. RowSafe'
  BY DEF RowSafe, SameRows, Kept, KeptAfter
<1>4. Accounted'
  <2> SUFFICES ASSUME NEW c \in promised' \cup known'
               PROVE  Kept(c)' \/ \E i \in DOMAIN rows' : rows'[i].content = c
    BY DEF Accounted
  <2>1. (c \in Contents /\ Kept(c)) \/ \E i \in DOMAIN rows : rows[i].content = c
    BY <1>0 DEF StoreInv, Accounted, TypeOK
  <2> QED
    BY <2>1 DEF KeptGrows, SameRows, Kept, KeptAfter
<1> QED
  BY <1>1, <1>2, <1>3, <1>4 DEF StoreInv

\* Rows keep their bytes if files change only at names of kept rows.
LEMMA RowSafeFrame ==
    ASSUME PruneInv, KeptGrows, NEW i \in DOMAIN rows,
           rows[i].st \in {"pending", "failed"} /\ ~KeptAfter(rows[i].content) =>
               /\ rows'[i].st \in {"pending", "failed"}
               /\ rows[i].content = local[rows[i].name] =>
                     rows[i].content \in {local'[rows[i].name], tmp'[rows[i].name]}
               /\ rows[i].content = tmp[rows[i].name] =>
                     rows[i].content \in {local'[rows[i].name], tmp'[rows[i].name]}
    PROVE  \/ KeptAfter(rows[i].content)
           \/ /\ rows'[i].st \in {"pending", "failed"}
              /\ rows[i].content \in {local'[rows[i].name], tmp'[rows[i].name]}
<1>0. RowSafe /\ rows[i].content \in Contents
  BY InvParts, RowsType DEF StoreInv, PruneTypeOK
<1> QED
  BY <1>0 DEF RowSafe, KeptGrows

LEMMA PassFrame ==
    ASSUME PruneInv, SameRows, UNCHANGED pass,
           \A k \in Names : archive[k] \in Contents => archive'[k] = archive[k] \/ pass.pc # "answered"
    PROVE  MastersThere'
<1>0. MastersThere /\ TypeOK
  BY InvParts DEF PruneTypeOK
<1> QED
  BY <1>0, RowsType DEF MastersThere, SameRows

\* What the invariant says of the rows and of the file being ingested.
LEMMA Facts ==
    ASSUME PruneInv
    PROVE  /\ TypeOK /\ IngInv /\ StoreInv /\ MastersThere
           /\ Len(rows) \in Nat /\ DOMAIN rows = 1..Len(rows) /\ Len(rows) <= MaxRows
           /\ \A i \in DOMAIN rows : rows[i].name \in Names /\ rows[i].content \in Contents
           /\ ing.pc # "idle" => Content \in Contents
           /\ ing.pc \in {"resume", "recopy", "replace", "place", "post"} => ing.name \in Names
<1>1. TypeOK /\ IngInv /\ StoreInv /\ MastersThere
  BY InvParts DEF PruneTypeOK
<1>2. /\ Len(rows) \in Nat /\ DOMAIN rows = 1..Len(rows) /\ Len(rows) <= MaxRows
      /\ \A i \in DOMAIN rows : rows[i].name \in Names /\ rows[i].content \in Contents
  BY <1>1, RowsType DEF TypeOK
<1>3. ing.pc # "idle" => Content \in Contents
  BY <1>1 DEF IngInv, TypeOK, Content
<1>4. ing.pc \in {"resume", "recopy", "replace", "place", "post"} => ing.name \in Names
  BY <1>1, <1>2 DEF IngInv, OwnRow
<1> QED
  BY <1>1, <1>2, <1>3, <1>4

\* A step of the ingest that touches nothing but its temp copy.
TempStep == UNCHANGED <<card, archive, local, rows, known, touched, meddle, pass>>

LEMMA TempStepType ==
    ASSUME PruneInv, TempStep, ing' \in Ingest, tmp' \in [Names -> Contents \cup {"none", "partial"}],
           promised' \subseteq Contents, crashes' \in 0..MaxCrash
    PROVE  PruneTypeOK'
BY DEF PruneInv, PruneTypeOK, TypeOK, TempStep

LEMMA TempStepStore ==
    ASSUME PruneInv, TempStep,
           \A i \in Live : \/ Kept(rows[i].content) \/ tmp'[rows[i].name] = tmp[rows[i].name]
                           \/ local[rows[i].name] = rows[i].content,
           \A c \in promised' : c \in promised \/ (c \in Contents /\ Kept(c)) \/ \E i \in DOMAIN rows : rows[i].content = c
    PROVE  StoreInv' /\ MastersThere'
<1>1. SameRows /\ KeptGrows
  BY UnchangedRows, ArchiveKeeps DEF TempStep
<1>2. \A i \in DOMAIN rows :
        \/ KeptAfter(rows[i].content)
        \/ /\ rows'[i].st \in {"pending", "failed"}
           /\ rows[i].content \in {local'[rows[i].name], tmp'[rows[i].name]}
  <2> TAKE i \in DOMAIN rows
  <2>1. RowSafe /\ rows[i].content \in Contents
    BY Facts DEF StoreInv
  <2>2. rows[i].st \in {"pending", "failed"} => i \in Live
    BY DEF Live
  <2>3. Kept(rows[i].content) => KeptAfter(rows[i].content)
    BY <1>1, <2>1 DEF KeptGrows
  <2> QED
    BY <2>1, <2>2, <2>3 DEF RowSafe, TempStep
<1>3. \A i \in Live : local'[rows[i].name] \in {local[rows[i].name], "none", "other", rows[i].content}
  BY DEF TempStep
<1>4. \A c \in promised' \cup known' :
        c \in promised \cup known \/ (c \in Contents /\ Kept(c)) \/ \E i \in DOMAIN rows : rows[i].content = c
  BY DEF TempStep
<1>5. StoreInv'
  BY <1>1, <1>2, <1>3, <1>4, StoreFrame
<1>6. MastersThere'
  BY <1>1, PassFrame DEF TempStep
<1> QED
  BY <1>5, <1>6

\* The ingest ends, with or without a report.
LEMMA EndType ==
    ASSUME PruneInv, ing.pc # "idle", Report \/ GiveUp
    PROVE  /\ ing' \in Ingest /\ promised' \subseteq Contents /\ IngInv'
           /\ GiveUp => promised' = promised
           /\ Report => promised' = promised \cup {Content}
<1>1. Idle \in Ingest
  BY Bounds DEF Idle, Ingest, State
<1>2. promised \subseteq Contents /\ Content \in Contents
  BY Facts DEF TypeOK
<1> QED
  BY <1>1, <1>2, IngIdle DEF Report, GiveUp

-----------------------------------------------------------------------------
(* The steps of an ingest *)

\* A name that no live row has.
LEMMA NoOwner ==
    ASSUME PruneInv, NEW k \in Names, ByLocalPath(k) = {}, NEW v, tmp' = [tmp EXCEPT ![k] = v]
    PROVE  \A i \in Live : tmp'[rows[i].name] = tmp[rows[i].name]
BY DEF ByLocalPath

LEMMA LookupStep ==
    ASSUME PruneInv, NEW f \in Files, Lookup(f), UNCHANGED pass
    PROVE  PruneInv'
<1> DEFINE old == BySourcePath(f)
           i   == Newest(old)
<1>0. TempStep /\ ing.pc = "idle" /\ UNCHANGED <<tmp, promised, crashes>>
  BY DEF Lookup, TempStep
<1>1. StoreInv' /\ MastersThere'
  BY <1>0, TempStepStore
<1>2. tmp \in [Names -> Contents \cup {"none", "partial"}] /\ promised \subseteq Contents /\ crashes \in 0..MaxCrash
  BY Facts DEF TypeOK
<1>3. CASE old # {} /\ rows[i].content = card[f]
  <2>1. ing' = [pc |-> "resume", src |-> f, name |-> rows[i].name, row |-> i, st |-> rows[i].st]
    BY <1>3 DEF Lookup
  <2>2. i \in old
    <3>1. old \subseteq 1..Len(rows)
      BY Facts DEF BySourcePath, Live
    <3> HIDE DEF old
    <3> QED
      BY <1>3, <3>1, NewestIn, Facts
  <2>3. i \in Live /\ i \in DOMAIN rows
    BY <2>2 DEF BySourcePath, Live
  <2> HIDE DEF i
  <2>4. rows[i].name \in Names /\ rows[i].st \in State /\ i \in 0..MaxRows
    BY <2>3, Facts, RowsType, Bounds
  <2>5. ing' \in Ingest
    BY <2>1, <2>4, Bounds DEF Ingest, Names
  <2>6. ByLocalPath(rows[i].name) \subseteq {i}
    BY <2>3, Facts DEF ByLocalPath, StoreInv, ClaimsApart
  <2>7. IngInv'
    <3>1. OwnRow'
      BY <1>0, <1>3, <2>1, <2>3, <2>6 DEF OwnRow, Content, TempStep, ByLocalPath, Live
    <3> QED
      BY <2>1, <3>1 DEF IngInv, FreshName, TempWhole
  <2> QED
    BY <1>0, <1>1, <1>2, <2>5, <2>7, TempStepType, InvAfter
<1>4. CASE ~(old # {} /\ rows[i].content = card[f])
  <2>1. ing' = [Idle EXCEPT !.pc = "resolve", !.src = f]
    BY <1>4 DEF Lookup
  <2>2. ing' \in Ingest
    <3>1. Idle \in Ingest
      BY Bounds DEF Idle, Ingest, State
    <3> QED
      BY <2>1, <3>1 DEF Ingest
  <2>3. ing'.pc = "resolve" /\ ing'.src = f
    BY <2>1 DEF Idle
  <2>4. IngInv'
    BY <2>3 DEF IngInv, FreshName, OwnRow, TempWhole
  <2> QED
    BY <1>0, <1>1, <1>2, <2>2, <2>4, TempStepType, InvAfter
<1> QED
  BY <1>3, <1>4

\* A report of the content of the row that the ingest works on.
LEMMA OwnReport ==
    ASSUME PruneInv, ing.pc \in {"resume", "recopy", "replace", "place", "post"}
    PROVE  ing.row \in DOMAIN rows /\ rows[ing.row].content = Content /\ rows[ing.row].name = ing.name
BY Facts DEF IngInv, OwnRow

\* The ingest goes on with its row.
LEMMA OwnGoes ==
    ASSUME PruneInv, ing.pc \in {"resume", "recopy", "place", "replace", "post"}, UNCHANGED <<card, rows>>,
           NEW to \in {"replace", "recopy", "post"}, Go(to)
    PROVE  /\ ing' \in Ingest /\ ing'.pc = to /\ ing'.name = ing.name /\ Content' = Content
           /\ (ing.pc # "idle" => ing.src \in Files)' /\ FreshName' /\ OwnRow'
<1>1. ing \in Ingest
  BY Facts DEF TypeOK
<1>2. ing' \in Ingest /\ ing'.pc = to /\ ing'.name = ing.name /\ ing'.row = ing.row /\ ing'.src = ing.src
  BY <1>1 DEF Go, Ingest
<1>3. Content' = Content
  BY <1>2 DEF Content
<1>4. OwnRow /\ ing.src \in Files
  BY Facts DEF IngInv
<1>5. ByLocalPath(ing.name)' \subseteq ByLocalPath(ing.name)
  BY <1>2 DEF ByLocalPath, Live
<1> QED
  BY <1>2, <1>3, <1>4, <1>5 DEF OwnRow, FreshName

LEMMA ResumeStep ==
    ASSUME PruneInv, Resume, UNCHANGED pass
    PROVE  PruneInv'
<1>0. TempStep /\ ing.pc = "resume" /\ UNCHANGED crashes
  BY DEF Resume, TempStep
<1>1. ing.row \in DOMAIN rows /\ rows[ing.row].content = Content /\ rows[ing.row].name = ing.name
  BY <1>0, OwnReport
<1>2. /\ tmp \in [Names -> Contents \cup {"none", "partial"}] /\ crashes \in 0..MaxCrash
      /\ promised \subseteq Contents /\ ing.name \in Names /\ Content \in Contents
  BY <1>0, Facts DEF TypeOK
<1>3. CASE Report /\ UNCHANGED tmp
  <2>1. StoreInv' /\ MastersThere'
    BY <1>0, <1>1, <1>3, EndType, TempStepStore
  <2> QED
    BY <1>0, <1>2, <1>3, <2>1, EndType, TempStepType, InvAfter
<1>4. CASE UNCHANGED promised /\ TempVerifies /\ Go("replace") /\ UNCHANGED tmp
  <2>1. StoreInv' /\ MastersThere'
    BY <1>0, <1>4, TempStepStore
  <2>2. TempWhole'
    BY <1>0, <1>4, OwnGoes DEF TempWhole, TempVerifies, TempStep
  <2> QED
    BY <1>0, <1>2, <1>4, <2>1, <2>2, OwnGoes, TempStepType, InvAfter DEF IngInv, TempStep
<1>5. CASE /\ ing.st = "pending" /\ local[ing.name] = "none" /\ UNCHANGED promised
           /\ ~TempVerifies /\ Go("recopy") /\ tmp' = [tmp EXCEPT ![ing.name] = "partial"]
  <2>0. Kept(Content)
    BY <1>1, <1>2, <1>5, Facts, Bounds DEF StoreInv, RowSafe, TempVerifies
  <2>1. \A i \in Live : Kept(rows[i].content) \/ tmp'[rows[i].name] = tmp[rows[i].name]
    <3> TAKE i \in Live
    <3>1. CASE rows[i].name = ing.name
      BY <1>0, <1>1, <2>0, <3>1, Facts DEF IngInv, OwnRow, ByLocalPath
    <3>2. CASE rows[i].name # ing.name
      BY <1>5, <1>2, <3>2, Facts DEF Live
    <3> QED
      BY <3>1, <3>2
  <2>2. StoreInv' /\ MastersThere'
    BY <1>0, <1>5, <2>1, TempStepStore
  <2>3. TempWhole'
    BY <1>0, <1>5, <2>0, OwnGoes DEF TempWhole, TempStep, Kept
  <2>4. tmp' \in [Names -> Contents \cup {"none", "partial"}]
    BY <1>2, <1>5
  <2> QED
    BY <1>0, <1>2, <1>5, <2>2, <2>3, <2>4, OwnGoes, TempStepType, InvAfter DEF IngInv, TempStep
<1> QED
  BY <1>3, <1>4, <1>5 DEF Resume

\* The name resolveOfflineDestination yields is usable, and the file's own
\* or free.
LEMMA ResolvedName ==
    ASSUME TypeOK, NEW known1 \in 0..MaxName, NEW reachable \in BOOLEAN,
           resolveOfflineDestination(known1, reachable) # 0
    PROVE  LET k == resolveOfflineDestination(known1, reachable)
           IN  k \in Names /\ offlineSlotUsable(k, reachable) /\ (Hit(k) \/ Free(k))
<1> DEFINE first == ResolveDestination(known1)
           s == {k \in Names : Free(k) /\ offlineSlotUsable(k, reachable)}
           r == {k \in Names : Hit(k) \/ Free(k)}
<1>0. MaxName \in Nat /\ Names = 1..MaxName /\ Names \subseteq Nat
  BY Bounds DEF Names
<1>1. r # {} => Least(r) \in r
  BY <1>0, LeastIn
<1>2. s # {} => Least(s) \in s
  BY <1>0, LeastIn
<1>3. first # 0 => first \in Names /\ (Hit(first) \/ Free(first))
  BY <1>0, <1>1 DEF ResolveDestination
<1> HIDE DEF first
<1>4. CASE first # 0 /\ offlineSlotUsable(first, reachable)
  <2>1. resolveOfflineDestination(known1, reachable) = first
    BY <1>4 DEF resolveOfflineDestination, first
  <2> QED
    BY <1>3, <1>4, <2>1
<1>5. CASE ~(first # 0 /\ offlineSlotUsable(first, reachable))
  <2>1. resolveOfflineDestination(known1, reachable) = IF s = {} THEN 0 ELSE Least(s)
    BY <1>5 DEF resolveOfflineDestination, first
  <2>2. resolveOfflineDestination(known1, reachable) \in s
    BY <1>2, <2>1
  <2> QED
    BY <2>2
<1> QED
  BY <1>4, <1>5

LEMMA ResolveStep ==
    ASSUME PruneInv, Resolve, UNCHANGED pass
    PROVE  PruneInv'
<1>0. TempStep /\ ing.pc = "resolve" /\ UNCHANGED crashes
  BY DEF Resolve, TempStep
<1>2. /\ tmp \in [Names -> Contents \cup {"none", "partial"}] /\ crashes \in 0..MaxCrash
      /\ promised \subseteq Contents /\ Content \in Contents /\ ing \in Ingest /\ TypeOK /\ ing.src \in Files
  BY <1>0, Facts DEF TypeOK, IngInv
<1>3. CASE GiveUp /\ UNCHANGED tmp
  <2>1. StoreInv' /\ MastersThere'
    BY <1>0, <1>3, EndType, TempStepStore
  <2> QED
    BY <1>0, <1>2, <1>3, <2>1, EndType, TempStepType, InvAfter
<1>4. ASSUME NEW known1 \in 0..MaxName, NEW reachable \in BOOLEAN, NEW k,
             k = resolveOfflineDestination(known1, reachable),
             k # 0, Hit(k), Report, UNCHANGED tmp
      PROVE  PruneInv'
  <2>1. k \in Names /\ offlineSlotUsable(k, reachable)
    BY <1>2, <1>4, ResolvedName
  <2>2. Kept(Content) \/ \E i \in DOMAIN rows : rows[i].content = Content
    <3>1. CASE ByLocalPath(k) # {}
      <4>1. PICK i \in Live : rows[i].name = k
        BY <3>1 DEF ByLocalPath
      <4>2. local[k] \in {"none", "other", rows[i].content} /\ local[k] = Content
        BY <1>4, <4>1, Facts DEF StoreInv, LocalOwn, Hit
      <4> QED
        BY <1>2, <4>1, <4>2, Bounds DEF Live
    <3>2. CASE archive[k] = Content
      BY <2>1, <3>2 DEF Kept
    <3> QED
      BY <1>4, <2>1, <3>1, <3>2 DEF offlineSlotUsable
  <2>3. StoreInv' /\ MastersThere'
    BY <1>0, <1>2, <1>4, <2>2, EndType, TempStepStore
  <2> QED
    BY <1>0, <1>2, <1>4, <2>3, EndType, TempStepType, InvAfter
<1>5. ASSUME NEW known1 \in 0..MaxName, NEW reachable \in BOOLEAN, NEW k,
             k = resolveOfflineDestination(known1, reachable),
             k # 0, ~Hit(k), Len(rows) < MaxRows, UNCHANGED promised,
             ing' = [ing EXCEPT !.pc = "write", !.name = k],
             tmp' = [tmp EXCEPT ![k] = "partial"]
      PROVE  PruneInv'
  <2>1. k \in Names /\ ByLocalPath(k) = {} /\ local[k] = "none"
    BY <1>2, <1>5, ResolvedName DEF offlineSlotUsable, Free
  <2>2. ing' \in Ingest /\ ing'.pc = "write" /\ ing'.name = k /\ ing'.src = ing.src
    <3>1. k \in 0..MaxName
      BY <2>1, Bounds DEF Names
    <3> QED
      BY <1>2, <1>5, <3>1 DEF Ingest
  <2>3. StoreInv' /\ MastersThere'
    BY <1>0, <1>5, <2>1, NoOwner, TempStepStore
  <2>4. FreshName'
    BY <1>0, <1>5, <2>1, <2>2 DEF FreshName, TempStep, ByLocalPath, Live
  <2>5. IngInv'
    BY <1>2, <2>2, <2>4 DEF IngInv, OwnRow, TempWhole
  <2>6. tmp' \in [Names -> Contents \cup {"none", "partial"}]
    BY <1>2, <1>5
  <2> QED
    BY <1>0, <1>2, <1>5, <2>2, <2>3, <2>5, <2>6, TempStepType, InvAfter
<1> QED
  BY <1>3, <1>4, <1>5 DEF Resolve

\* What may happen to the temp copy of an ingest under way.
LEMMA OwnTemp ==
    ASSUME PruneInv, ing.pc \in {"write", "dedup", "insert"} \/ (ing.pc = "recopy"),
           NEW v, tmp' = [tmp EXCEPT ![ing.name] = v]
    PROVE  /\ ing.name \in Names
           /\ \A i \in Live : Kept(rows[i].content) \/ tmp'[rows[i].name] = tmp[rows[i].name]
<1>1. CASE ing.pc \in {"write", "dedup", "insert"}
  <2>1. ing.name \in Names /\ ByLocalPath(ing.name) = {}
    BY <1>1, Facts DEF IngInv, FreshName
  <2> QED
    BY <2>1, NoOwner
<1>2. CASE ing.pc = "recopy"
  <2>1. ing.name \in Names /\ Kept(Content) /\ rows[ing.row].content = Content /\ ByLocalPath(ing.name) \subseteq {ing.row}
    BY <1>2, Facts DEF IngInv, TempWhole, OwnRow
  <2>2. ASSUME NEW i \in Live PROVE Kept(rows[i].content) \/ tmp'[rows[i].name] = tmp[rows[i].name]
    <3>1. CASE rows[i].name = ing.name
      BY <2>1, <3>1 DEF ByLocalPath
    <3>2. CASE rows[i].name # ing.name
      BY <3>2
    <3> QED
      BY <3>1, <3>2
  <2> QED
    BY <2>1, <2>2
<1> QED
  BY <1>1, <1>2

LEMMA FaultType == ASSUME PruneInv, Fault \/ NoFault PROVE crashes' \in 0..MaxCrash
<1>1. crashes \in 0..MaxCrash
  BY Facts DEF TypeOK
<1> QED
  BY <1>1, Bounds DEF Fault, NoFault

\* A fault drops the temp copy.
LEMMA DropsAndGivesUp ==
    ASSUME PruneInv, ing.pc \in {"write", "dedup", "insert"} \/ ing.pc = "recopy",
           DropTemp, GiveUp, Fault, TempStep
    PROVE  PruneInv'
<1>1. tmp \in [Names -> Contents \cup {"none", "partial"}]
  BY Facts DEF TypeOK
<1>2. ing.name \in Names /\ \A i \in Live : Kept(rows[i].content) \/ tmp'[rows[i].name] = tmp[rows[i].name]
  BY OwnTemp DEF DropTemp
<1>3. StoreInv' /\ MastersThere'
  BY <1>2, EndType, TempStepStore
<1>4. tmp' \in [Names -> Contents \cup {"none", "partial"}]
  BY <1>1 DEF DropTemp
<1> QED
  BY <1>3, <1>4, EndType, FaultType, TempStepType, InvAfter

\* A fresh copy goes on.
LEMMA FreshGoes ==
    ASSUME PruneInv, ing.pc \in {"write", "dedup"}, TempStep, NEW to \in {"dedup", "insert"}, Go(to)
    PROVE  /\ ing' \in Ingest /\ ing'.pc = to /\ ing'.name = ing.name /\ Content' = Content
           /\ (ing.pc # "idle" => ing.src \in Files)' /\ FreshName' /\ OwnRow'
<1>1. ing \in Ingest
  BY Facts DEF TypeOK
<1>2. ing' \in Ingest /\ ing'.pc = to /\ ing'.name = ing.name /\ ing'.row = ing.row /\ ing'.src = ing.src
  BY <1>1 DEF Go, Ingest
<1>3. Content' = Content
  BY <1>2 DEF Content, TempStep
<1>4. FreshName /\ ing.src \in Files
  BY Facts DEF IngInv
<1>5. ByLocalPath(ing.name)' = ByLocalPath(ing.name)
  BY <1>2 DEF ByLocalPath, Live, TempStep
<1> QED
  BY <1>2, <1>3, <1>4, <1>5 DEF OwnRow, FreshName, TempStep

LEMMA WriteLocalStep ==
    ASSUME PruneInv, WriteLocal, UNCHANGED pass
    PROVE  PruneInv'
<1>0. TempStep /\ ing.pc \in {"write", "recopy"}
  BY DEF WriteLocal, TempStep
<1>1. CASE DropTemp /\ GiveUp /\ Fault
  BY <1>0, <1>1, DropsAndGivesUp
<1>2. CASE /\ tmp' = [tmp EXCEPT ![ing.name] = Content] /\ NoFault /\ UNCHANGED promised
           /\ Go(IF ing.pc = "write" THEN "dedup" ELSE "replace")
  <2>1. /\ tmp \in [Names -> Contents \cup {"none", "partial"}] /\ promised \subseteq Contents /\ Content \in Contents
    BY <1>0, Facts DEF TypeOK
  <2>2. ing.name \in Names /\ \A i \in Live : Kept(rows[i].content) \/ tmp'[rows[i].name] = tmp[rows[i].name]
    BY <1>0, <1>2, OwnTemp
  <2>3. StoreInv' /\ MastersThere'
    BY <1>0, <1>2, <2>2, TempStepStore
  <2>4. tmp' \in [Names -> Contents \cup {"none", "partial"}] /\ tmp'[ing.name] = Content
    BY <1>2, <2>1, <2>2
  <2>5. /\ ing' \in Ingest /\ ing'.pc \in {"dedup", "replace"} /\ ing'.name = ing.name /\ Content' = Content
        /\ (ing.pc # "idle" => ing.src \in Files)' /\ FreshName' /\ OwnRow'
    <3>1. CASE ing.pc = "write"
      BY <1>0, <1>2, <3>1, FreshGoes
    <3>2. CASE ing.pc = "recopy"
      BY <1>0, <1>2, <3>2, OwnGoes DEF TempStep
    <3> QED
      BY <1>0, <3>1, <3>2
  <2>6. IngInv'
    BY <2>4, <2>5 DEF IngInv, TempWhole
  <2> QED
    BY <1>0, <1>2, <2>1, <2>3, <2>4, <2>5, <2>6, FaultType, TempStepType, InvAfter
<1> QED
  BY <1>1, <1>2 DEF WriteLocal

LEMMA DedupStep ==
    ASSUME PruneInv, checkContentDedup, UNCHANGED pass
    PROVE  PruneInv'
<1>0. TempStep /\ ing.pc = "dedup"
  BY DEF checkContentDedup, TempStep
<1>1. CASE DropTemp /\ GiveUp /\ Fault
  BY <1>0, <1>1, DropsAndGivesUp
<1>2. tmp \in [Names -> Contents \cup {"none", "partial"}] /\ promised \subseteq Contents /\ Content \in Contents
  BY <1>0, Facts DEF TypeOK
<1>3. CASE Content \in known /\ DropTemp /\ Report /\ NoFault
  <2>1. ing.name \in Names /\ \A i \in Live : Kept(rows[i].content) \/ tmp'[rows[i].name] = tmp[rows[i].name]
    BY <1>0, <1>3, OwnTemp DEF DropTemp
  <2>2. Kept(Content) \/ \E i \in DOMAIN rows : rows[i].content = Content
    BY <1>3, Facts DEF StoreInv, Accounted
  <2>3. StoreInv' /\ MastersThere'
    BY <1>0, <1>2, <1>3, <2>1, <2>2, EndType, TempStepStore
  <2>4. tmp' \in [Names -> Contents \cup {"none", "partial"}]
    BY <1>2, <1>3 DEF DropTemp
  <2> QED
    BY <1>0, <1>3, <2>3, <2>4, EndType, FaultType, TempStepType, InvAfter
<1>4. CASE Go("insert") /\ UNCHANGED <<tmp, promised>> /\ NoFault
  <2>1. StoreInv' /\ MastersThere'
    BY <1>0, <1>4, TempStepStore
  <2>2. TempWhole'
    BY <1>0, <1>4, FreshGoes, Facts DEF TempWhole, IngInv
  <2>3. IngInv' /\ ing' \in Ingest
    BY <1>0, <1>4, <2>2, FreshGoes DEF IngInv
  <2> QED
    BY <1>0, <1>2, <1>4, <2>1, <2>3, FaultType, TempStepType, InvAfter
<1> QED
  BY <1>1, <1>3, <1>4 DEF checkContentDedup

LEMMA CrashStep ==
    ASSUME PruneInv, Crash, UNCHANGED pass
    PROVE  PruneInv'
<1>0. TempStep /\ ing.pc # "idle" /\ GiveUp /\ Fault /\ UNCHANGED tmp
  BY DEF Crash, TempStep
<1>1. StoreInv' /\ MastersThere'
  BY <1>0, EndType, TempStepStore
<1>2. tmp \in [Names -> Contents \cup {"none", "partial"}]
  BY Facts DEF TypeOK
<1> QED
  BY <1>0, <1>1, <1>2, EndType, FaultType, TempStepType, InvAfter

\* The row is written.
LEMMA InsertStep ==
    ASSUME PruneInv, InsertPending, UNCHANGED pass
    PROVE  PruneInv'
<1> DEFINE n == Len(rows) + 1
           r == [src |-> ing.src, name |-> ing.name, content |-> Content, st |-> "pending", reg |-> FALSE]
<1>0. ing.pc = "insert" /\ UNCHANGED <<card, archive, local, known, touched, meddle, pass>>
  BY DEF InsertPending
<1>1. CASE DropTemp /\ GiveUp /\ Fault /\ UNCHANGED rows
  <2>1. TempStep
    BY <1>0, <1>1 DEF TempStep
  <2> QED
    BY <1>0, <1>1, <2>1, DropsAndGivesUp
<1>2. CASE /\ rows' = Append(rows, r) /\ ing' = [ing EXCEPT !.pc = "place", !.row = n]
           /\ NoFault /\ UNCHANGED <<tmp, promised>>
  <2>0. /\ TypeOK /\ IngInv /\ StoreInv /\ MastersThere /\ Len(rows) \in Nat /\ DOMAIN rows = 1..Len(rows)
        /\ Content \in Contents /\ ing.src \in Files /\ ing.name \in Names
        /\ ByLocalPath(ing.name) = {} /\ Len(rows) < MaxRows
        /\ local[ing.name] \in {"none", "other"} /\ tmp[ing.name] = Content
        /\ \A i \in DOMAIN rows : rows[i].name \in Names /\ rows[i].content \in Contents
    BY <1>0, Facts DEF IngInv, FreshName, TempWhole
  <2>1. r \in Row
    BY <2>0 DEF Row, State
  <2>2. /\ r.name = ing.name /\ r.content = Content /\ r.st = "pending"
    OBVIOUS
  <2> HIDE DEF r
  <2>3. rows \in Seq(Row)
    BY <2>0 DEF TypeOK
  <2>4. /\ rows' \in Seq(Row) /\ Len(rows') = n /\ DOMAIN rows' = 1..n /\ rows'[n] = r
        /\ \A i \in 1..Len(rows) : rows'[i] = rows[i]
    BY <1>2, <2>0, <2>1, <2>3, AppendProperties, LenProperties
  <2>5. /\ DOMAIN rows' = DOMAIN rows \cup {n} /\ n \notin DOMAIN rows /\ n \in 0..MaxRows
        /\ \A i \in DOMAIN rows : rows'[i] = rows[i]
    BY <2>0, <2>4, Bounds
  <2>6. ing' \in Ingest /\ ing'.pc = "place" /\ ing'.row = n /\ ing'.name = ing.name /\ ing'.src = ing.src
    <3>1. ing \in Ingest
      BY <2>0 DEF TypeOK
    <3> QED
      BY <1>2, <2>5, <3>1 DEF Ingest
  <2> HIDE DEF n
  <2>7. Content' = Content /\ (\A c : Kept(c)' = Kept(c))
    BY <1>0, <2>6 DEF Content, Kept
  <2>8. PruneTypeOK'
    <3>1. Len(rows') <= MaxRows
      BY <2>4, <2>5, Bounds
    <3>2. TypeOK'
      BY <1>0, <1>2, <2>0, <2>4, <2>6, <3>1, FaultType DEF TypeOK
    <3> QED
      BY <1>0, <3>2 DEF PruneTypeOK, PruneInv
  <2>9. Live' = Live \cup {n} /\ \A i \in Live : rows'[i] = rows[i] /\ i # n /\ i \in DOMAIN rows
    BY <2>2, <2>4, <2>5 DEF Live
  <2>10. \A i \in Live : rows[i].name # ing.name
    BY <2>0 DEF ByLocalPath
  <2>11. IngInv'
    <3>1. OwnRow'
      <4>1. ByLocalPath(ing.name)' \subseteq {n}
        BY <2>6, <2>9, <2>10 DEF ByLocalPath
      <4> QED
        BY <2>2, <2>4, <2>5, <2>6, <2>7, <4>1 DEF OwnRow
    <3> QED
      BY <1>2, <2>0, <2>6, <2>7, <3>1 DEF IngInv, FreshName, TempWhole
  <2>12. ClaimsApart'
    <3>1. \A i, j \in Live : i # j => rows[i].name # rows[j].name
      BY <2>0 DEF StoreInv, ClaimsApart
    <3> QED
      BY <2>2, <2>4, <2>9, <2>10, <3>1 DEF ClaimsApart
  <2>13. LocalOwn'
    BY <1>0, <2>0, <2>2, <2>4, <2>9 DEF StoreInv, LocalOwn
  <2>14. RowSafe'
    <3> SUFFICES ASSUME NEW i \in DOMAIN rows'
                 PROVE  \/ Kept(rows'[i].content)
                        \/ /\ rows'[i].st \in {"pending", "failed"}
                           /\ rows'[i].content \in {local[rows'[i].name], tmp[rows'[i].name]}
      BY <1>0, <1>2 DEF RowSafe, Kept
    <3>1. CASE i = n
      BY <2>0, <2>2, <2>4, <3>1
    <3>2. CASE i \in DOMAIN rows
      BY <2>0, <2>5, <3>2 DEF StoreInv, RowSafe
    <3> QED
      BY <2>5, <3>1, <3>2
  <2>15. Accounted'
    BY <1>0, <1>2, <2>0, <2>5, <2>7 DEF StoreInv, Accounted
  <2>16. MastersThere'
    BY <1>0, <2>0, <2>5 DEF MastersThere
  <2> QED
    BY <2>8, <2>11, <2>12, <2>13, <2>14, <2>15, <2>16, InvAfter DEF StoreInv
<1> QED
  BY <1>1, <1>2 DEF InsertPending

\* The copy gets its name.
LEMMA PlaceStep ==
    ASSUME PruneInv, Place, UNCHANGED pass
    PROVE  PruneInv'
<1>0. ing.pc \in {"place", "replace"} /\ UNCHANGED <<card, archive, rows, known, touched, crashes, meddle, pass>>
  BY DEF Place
<1>1. /\ TypeOK /\ IngInv /\ StoreInv /\ Content \in Contents /\ ing.name \in Names
      /\ ing.row \in DOMAIN rows /\ rows[ing.row].content = Content /\ rows[ing.row].name = ing.name
      /\ ByLocalPath(ing.name) \subseteq {ing.row} /\ tmp[ing.name] = Content
      /\ promised \subseteq Contents /\ crashes \in 0..MaxCrash
      /\ local \in [Names -> Data] /\ tmp \in [Names -> Contents \cup {"none", "partial"}]
  BY <1>0, Facts DEF IngInv, OwnRow, TempWhole, TypeOK
<1>2. CASE GiveUp /\ UNCHANGED <<tmp, local>>
  <2>1. TempStep
    BY <1>0, <1>2 DEF TempStep
  <2>2. StoreInv' /\ MastersThere'
    BY <1>0, <1>2, <2>1, EndType, TempStepStore
  <2> QED
    BY <1>0, <1>1, <1>2, <2>1, <2>2, EndType, TempStepType, InvAfter
<1>3. CASE /\ DropTemp /\ local' = [local EXCEPT ![ing.name] = tmp[ing.name]]
           /\ IF ing.pc = "place" THEN Go("post") /\ UNCHANGED promised ELSE Report
  <2>1. /\ local' \in [Names -> Data] /\ tmp' \in [Names -> Contents \cup {"none", "partial"}]
        /\ local'[ing.name] = Content
        /\ \A k \in Names \ {ing.name} : local'[k] = local[k] /\ tmp'[k] = tmp[k]
    BY <1>1, <1>3 DEF DropTemp, Data
  <2>2. /\ ing' \in Ingest /\ IngInv' /\ promised' \subseteq Contents
        /\ promised' = promised \/ promised' = promised \cup {Content}
    <3>1. CASE ing.pc = "place"
      <4>1. TempWhole'
        BY <1>0, <1>3, <3>1, OwnGoes DEF TempWhole
      <4> QED
        BY <1>0, <1>1, <1>3, <3>1, <4>1, OwnGoes DEF IngInv
    <3>2. CASE ing.pc = "replace"
      BY <1>0, <1>3, <3>2, EndType
    <3> QED
      BY <1>0, <3>1, <3>2
  <2>3. PruneTypeOK'
    BY <1>0, <1>1, <2>1, <2>2 DEF PruneTypeOK, TypeOK, PruneInv
  <2>4. SameRows /\ KeptGrows
    BY <1>0, UnchangedRows, ArchiveKeeps
  <2>5. \A i \in Live : rows[i].name = ing.name => rows[i].content = Content
    BY <1>1 DEF ByLocalPath
  <2>6. \A i \in Live : local'[rows[i].name] \in {local[rows[i].name], "none", "other", rows[i].content}
    BY <2>1, <2>5, Facts DEF Live
  <2>7. ASSUME NEW i \in DOMAIN rows
        PROVE  \/ KeptAfter(rows[i].content)
               \/ /\ rows'[i].st \in {"pending", "failed"}
                  /\ rows[i].content \in {local'[rows[i].name], tmp'[rows[i].name]}
    <3>1. rows[i].name \in Names /\ rows[i].content \in Contents
      BY Facts
    <3>2. rows[i].st \in {"pending", "failed"} => i \in Live
      BY DEF Live
    <3>3. CASE rows[i].name = ing.name
      BY <1>0, <2>1, <2>4, <2>5, <3>1, <3>2, <3>3, RowSafeFrame
    <3>4. CASE rows[i].name # ing.name
      BY <1>0, <2>1, <2>4, <3>1, <3>4, RowSafeFrame
    <3> QED
      BY <3>3, <3>4
  <2>8. StoreInv'
    BY <1>0, <1>1, <2>2, <2>4, <2>6, <2>7, StoreFrame
  <2>9. MastersThere'
    BY <1>0, <2>4, PassFrame
  <2> QED
    BY <2>2, <2>3, <2>8, <2>9, InvAfter
<1> QED
  BY <1>2, <1>3 DEF Place

-----------------------------------------------------------------------------
(* Steps that change the state of one row *)

\* A row moves on without losing its bytes.
LEMMA RowMoves ==
    ASSUME PruneInv, NEW i \in DOMAIN rows, NEW r \in Row, RowChanged(i, r), KeptGrows,
           r.name = rows[i].name, r.content = rows[i].content, rows[i].st = "gone" => r.st = "gone",
           rows[i].st \in {"pending", "failed"} =>
              r.st \in {"pending", "failed"} \/ KeptAfter(rows[i].content),
           UNCHANGED <<local, tmp, pass>>,
           \A k \in Names : archive[k] \in Contents => archive'[k] = archive[k],
           \A c \in promised' \cup known' :
              c \in promised \cup known \/ \E j \in DOMAIN rows : rows[j].content = c
    PROVE  rows' \in Seq(Row) /\ Len(rows') <= MaxRows /\ SameRows /\ StoreInv' /\ MastersThere'
<1>1. TypeOK /\ Len(rows) <= MaxRows
  BY Facts
<1>2. /\ rows' \in Seq(Row) /\ Len(rows') = Len(rows) /\ DOMAIN rows' = DOMAIN rows
      /\ rows'[i] = r /\ \A j \in DOMAIN rows \ {i} : rows'[j] = rows[j]
  BY <1>1, RowChangedType
<1>3. SameRows
  BY <1>2 DEF SameRows
<1>4. ASSUME NEW j \in DOMAIN rows
      PROVE  \/ KeptAfter(rows[j].content)
             \/ /\ rows'[j].st \in {"pending", "failed"}
                /\ rows[j].content \in {local'[rows[j].name], tmp'[rows[j].name]}
  <2>1. CASE j = i
    BY <1>2, <2>1, RowSafeFrame
  <2>2. CASE j # i
    BY <1>2, <2>2, RowSafeFrame
  <2> QED
    BY <2>1, <2>2
<1>5. StoreInv'
  BY <1>3, <1>4, StoreFrame
<1>6. MastersThere'
  BY <1>3, PassFrame
<1> QED
  BY <1>1, <1>2, <1>3, <1>5, <1>6

\* One attempt to register.
LEMMA InlinePostStep ==
    ASSUME PruneInv, InlinePost, UNCHANGED pass
    PROVE  PruneInv'
<1>0. ing.pc = "post" /\ Report /\ UNCHANGED <<card, archive, local, tmp, touched, crashes, meddle, pass>>
  BY DEF InlinePost
<1>1. /\ TypeOK /\ ing.row \in DOMAIN rows /\ rows[ing.row].content = Content /\ Content \in Contents
  BY <1>0, OwnReport, Facts
<1>2. known' = known \/ known' = known \cup {Content}
  BY DEF InlinePost
<1>3. KeptGrows
  BY <1>0, ArchiveKeeps
<1>4. \A c \in promised' \cup known' :
        c \in promised \cup known \/ \E j \in DOMAIN rows : rows[j].content = c
  BY <1>0, <1>1, <1>2 DEF Report
<1>5. ASSUME rows' \in Seq(Row), Len(rows') <= MaxRows, StoreInv', MastersThere'
      PROVE  PruneInv'
  <2>1. PruneTypeOK'
    BY <1>0, <1>1, <1>2, <1>5, EndType DEF PruneTypeOK, TypeOK, PruneInv
  <2> QED
    BY <1>0, <1>5, <2>1, EndType, InvAfter
<1>6. CASE rows' = rows
  <2>1. SameRows
    BY <1>6, UnchangedRows
  <2>2. \A i \in DOMAIN rows :
           \/ KeptAfter(rows[i].content)
           \/ /\ rows'[i].st \in {"pending", "failed"}
              /\ rows[i].content \in {local'[rows[i].name], tmp'[rows[i].name]}
    BY <1>0, <1>3, <1>6, RowSafeFrame
  <2>3. StoreInv' /\ MastersThere'
    BY <1>0, <1>3, <1>4, <2>1, <2>2, StoreFrame, PassFrame
  <2> QED
    BY <1>1, <1>5, <1>6, <2>3 DEF TypeOK
<1>7. CASE rows' = [rows EXCEPT ![ing.row].reg = TRUE]
  <2> DEFINE r == [rows[ing.row] EXCEPT !.reg = TRUE]
  <2>1. RowChanged(ing.row, r) /\ r \in Row /\ rows[ing.row] \in Row
    BY <1>1, <1>7, SetRowChanges, RowsType
  <2>2. r.name = rows[ing.row].name /\ r.content = rows[ing.row].content /\ r.st = rows[ing.row].st
    BY <2>1 DEF Row
  <2> HIDE DEF r
  <2>3. rows' \in Seq(Row) /\ Len(rows') <= MaxRows /\ StoreInv' /\ MastersThere'
    BY <1>0, <1>1, <1>3, <1>4, <2>1, <2>2, RowMoves
  <2> QED
    BY <1>5, <2>3
<1> QED
  BY <1>6, <1>7 DEF InlinePost

\* What a step of Drain is, as far as the invariant cares.
DrainsRow(i, r) ==
    /\ RowChanged(i, r) /\ r \in Row /\ r.name = rows[i].name /\ r.content = rows[i].content
    /\ rows[i].st # "gone"
    /\ rows[i].st \in {"pending", "failed"} => r.st \in {"pending", "failed"} \/ KeptAfter(rows[i].content)
    /\ known' \subseteq known \cup {rows[i].content}
    /\ archive' = archive \/ (archive[rows[i].name] = "none" /\ archive' = [archive EXCEPT ![rows[i].name] = rows[i].content])
    /\ UNCHANGED <<card, local, tmp, ing, promised, touched, crashes, meddle, pass>>

LEMMA DrainStepKeeps ==
    ASSUME PruneInv, NEW i \in DOMAIN rows, NEW r, DrainsRow(i, r)
    PROVE  PruneInv'
<1>0. TypeOK /\ rows[i].content \in Contents /\ rows[i].name \in Names
  BY Facts
<1>1. /\ archive' \in [Names -> Data]
      /\ \A k \in Names : archive[k] \in Contents => archive'[k] = archive[k]
  BY <1>0, Bounds DEF DrainsRow, TypeOK, Data
<1>2. KeptGrows
  BY <1>1, ArchiveKeeps DEF DrainsRow
<1>3. rows' \in Seq(Row) /\ Len(rows') <= MaxRows /\ SameRows /\ StoreInv' /\ MastersThere'
  BY <1>0, <1>1, <1>2, RowMoves DEF DrainsRow
<1>4. PruneTypeOK'
  BY <1>0, <1>1, <1>3 DEF DrainsRow, PruneTypeOK, TypeOK, PruneInv
<1>5. IngInv'
  BY <1>2, <1>3, IngFrame DEF DrainsRow
<1> QED
  BY <1>3, <1>4, <1>5, InvAfter

\* Every step of Drain is such a step.
LEMMA DrainIsRowStep ==
    ASSUME PruneInv, NEW i \in Live, UNCHANGED pass,
           Register(i) \/ CopyToArchive(i) \/ RebaseRow(i) \/ ResetFailed(i) \/ CollectGarbage(i)
    PROVE  PruneInv'
<1>0. /\ TypeOK /\ i \in DOMAIN rows /\ rows[i] \in Row /\ rows[i].name \in Names /\ rows[i].content \in Contents
      /\ rows[i].st # "gone" /\ archive \in [Names -> Data]
  BY Facts, RowsType DEF Live, TypeOK
<1>1. \A st \in State : /\ [rows[i] EXCEPT !.st = st] \in Row
                        /\ [rows[i] EXCEPT !.st = st].name = rows[i].name
                        /\ [rows[i] EXCEPT !.st = st].content = rows[i].content
                        /\ [rows[i] EXCEPT !.st = st].st = st
                        /\ SetRow(i, st) => RowChanged(i, [rows[i] EXCEPT !.st = st])
  BY <1>0, SetRowChanges DEF Row
<1>2. ASSUME NEW st \in State, SetRow(i, st),
             rows[i].st \in {"pending", "failed"} => st \in {"pending", "failed"} \/ KeptAfter(rows[i].content),
             archive' = archive \/ (archive[rows[i].name] = "none" /\ archive' = [archive EXCEPT ![rows[i].name] = rows[i].content]),
             UNCHANGED <<card, local, tmp, known, ing, promised, touched, crashes, meddle, pass>>
      PROVE  PruneInv'
  <2>1. DrainsRow(i, [rows[i] EXCEPT !.st = st])
    BY <1>0, <1>1, <1>2 DEF DrainsRow
  <2> QED
    BY <1>0, <2>1, DrainStepKeeps
<1>3. CASE Register(i)
  <2>1. /\ RowChanged(i, [rows[i] EXCEPT !.reg = TRUE]) /\ [rows[i] EXCEPT !.reg = TRUE] \in Row
    BY <1>0, <1>3, SetRowChanges DEF Register
  <2>2. /\ [rows[i] EXCEPT !.reg = TRUE].name = rows[i].name /\ [rows[i] EXCEPT !.reg = TRUE].content = rows[i].content
        /\ [rows[i] EXCEPT !.reg = TRUE].st = rows[i].st
    BY <1>0 DEF Row
  <2>3. DrainsRow(i, [rows[i] EXCEPT !.reg = TRUE])
    BY <1>0, <1>3, <2>1, <2>2 DEF DrainsRow, Register
  <2> QED
    BY <1>0, <2>3, DrainStepKeeps
<1>4. CASE CopyToArchive(i)
  <2> DEFINE k == rows[i].name
             c == rows[i].content
  <2>1. CASE archive[k] = c /\ SetRow(i, "copied") /\ UNCHANGED archive
    <3>1. KeptAfter(c)
      BY <1>0, <2>1 DEF KeptAfter
    <3> QED
      BY <1>2, <1>4, <2>1, <3>1 DEF CopyToArchive, State
  <2>2. CASE SetRow(i, "failed") /\ UNCHANGED archive
    BY <1>2, <1>4, <2>2 DEF CopyToArchive, State
  <2>3. CASE archive[k] = "none" /\ SetRow(i, "copied") /\ archive' = [archive EXCEPT ![k] = c]
    <3>1. KeptAfter(c)
      BY <1>0, <2>3 DEF KeptAfter
    <3> QED
      BY <1>2, <1>4, <2>3, <3>1 DEF CopyToArchive, State
  <2> QED
    BY <1>4, <2>1, <2>2, <2>3 DEF CopyToArchive
<1>5. CASE RebaseRow(i)
  BY <1>2, <1>5 DEF RebaseRow, State
<1>6. CASE ResetFailed(i)
  BY <1>2, <1>6 DEF ResetFailed, State
<1>7. CASE CollectGarbage(i)
  BY <1>2, <1>7 DEF CollectGarbage, State
<1> QED
  BY <1>3, <1>4, <1>5, <1>6, <1>7

-----------------------------------------------------------------------------
(* Users *)

\* A step that changes files of the two trees and what counts as touched.
FilesStep == UNCHANGED <<card, tmp, rows, known, ing, promised>>

LEMMA FilesStepKeeps ==
    ASSUME PruneInv, FilesStep, KeptGrows,
           local' \in [Names -> Data], archive' \in [Names -> Data], touched' \subseteq Contents,
           crashes' \in 0..MaxCrash, meddle' \in 0..MaxMeddle,
           pass' \in [pc : {"off", "listed", "answered"}, cands : SUBSET (1..MaxRows)],
           MastersThere',
           ing.pc = "idle" \/ local'[ing.name] \in {local[ing.name], "none", "other"},
           \A i \in Live : local'[rows[i].name] \in {local[rows[i].name], "none", "other", rows[i].content},
           \A i \in Live : local'[rows[i].name] # local[rows[i].name] /\ local[rows[i].name] = rows[i].content
                              => KeptAfter(rows[i].content)
    PROVE  PruneInv'
<1>1. SameRows
  BY UnchangedRows DEF FilesStep
<1>2. PruneTypeOK'
  BY Facts DEF FilesStep, PruneTypeOK, TypeOK
<1>3. IngInv'
  BY <1>1, IngFrame DEF FilesStep
<1>4. ASSUME NEW i \in DOMAIN rows
      PROVE  \/ KeptAfter(rows[i].content)
             \/ /\ rows'[i].st \in {"pending", "failed"}
                /\ rows[i].content \in {local'[rows[i].name], tmp'[rows[i].name]}
  <2>1. rows[i].st \in {"pending", "failed"} => i \in Live
    BY DEF Live
  <2> QED
    BY <2>1, RowSafeFrame DEF FilesStep
<1>5. StoreInv'
  BY <1>1, <1>4, StoreFrame DEF FilesStep
<1> QED
  BY <1>2, <1>3, <1>5, InvAfter

LEMMA PassType ==
    ASSUME PruneInv
    PROVE  pass \in [pc : {"off", "listed", "answered"}, cands : SUBSET (1..MaxRows)]
BY DEF PruneInv, PruneTypeOK

LEMMA MeddleType == ASSUME PruneInv, Meddle PROVE meddle' \in 0..MaxMeddle
<1>1. meddle \in 0..MaxMeddle
  BY Facts DEF TypeOK
<1> QED
  BY <1>1, Bounds DEF Meddle

LEMMA UserPutsStep ==
    ASSUME PruneInv, ~UserAnywhere, UserPuts, UNCHANGED pass
    PROVE  PruneInv'
<1>0. /\ local \in [Names -> Data] /\ archive \in [Names -> Data] /\ touched \subseteq Contents
      /\ crashes \in 0..MaxCrash /\ card \in [Files -> Contents]
  BY Facts DEF TypeOK
<1>1. Meddle /\ FilesStep /\ UNCHANGED <<archive, crashes>>
  BY DEF UserPuts, FilesStep
<1>2. PICK k \in Names, d \in {"other"} \cup {card[f] : f \in Files} :
        /\ local[k] = "none" /\ ByLocalPath(k) = {}
        /\ d # "other" => ing.pc = "idle" \/ ing.name # k
        /\ local' = [local EXCEPT ![k] = d]
        /\ touched' = touched \cup ({local[k]} \cap Contents)
  BY DEF UserPuts
<1>3. d \in Data
  BY <1>0, <1>2 DEF Data
<1>4. local' \in [Names -> Data] /\ touched' \subseteq Contents /\ touched \subseteq touched'
  BY <1>0, <1>2, <1>3
<1>5. KeptGrows /\ MastersThere'
  <2>1. SameRows
    BY <1>1, UnchangedRows DEF FilesStep
  <2> QED
    BY <1>1, <1>4, <2>1, ArchiveKeeps, PassFrame
<1>6. ing.pc = "idle" \/ local'[ing.name] \in {local[ing.name], "none", "other"}
  <2>1. CASE ing.name = k
    BY <1>0, <1>2, <2>1
  <2>2. CASE ing.name # k
    BY <1>2, <2>2
  <2> QED
    BY <2>1, <2>2
<1>7. \A i \in Live : local'[rows[i].name] = local[rows[i].name]
  BY <1>2 DEF ByLocalPath
<1> QED
  BY <1>0, <1>1, <1>4, <1>5, <1>6, <1>7, MeddleType, PassType, FilesStepKeeps

LEMMA UserEditsStep ==
    ASSUME PruneInv, UserEdits, UNCHANGED pass
    PROVE  PruneInv'
<1>0. /\ local \in [Names -> Data] /\ archive \in [Names -> Data] /\ touched \subseteq Contents
      /\ crashes \in 0..MaxCrash
  BY Facts DEF TypeOK
<1>1. Meddle /\ FilesStep /\ UNCHANGED <<archive, crashes>>
  BY DEF UserEdits, FilesStep
<1>2. PICK k \in Names, d \in {"other", "none"} :
        /\ local[k] \in Contents /\ local' = [local EXCEPT ![k] = d]
        /\ touched' = touched \cup {local[k]}
  BY DEF UserEdits
<1>4. local' \in [Names -> Data] /\ touched' \subseteq Contents /\ touched \subseteq touched'
  BY <1>0, <1>2 DEF Data
<1>5. KeptGrows /\ MastersThere'
  <2>1. SameRows
    BY <1>1, UnchangedRows DEF FilesStep
  <2> QED
    BY <1>1, <1>4, <2>1, ArchiveKeeps, PassFrame
<1>6. \A n : local'[n] \in {local[n], "none", "other"}
  BY <1>0, <1>2
<1>7. \A n : local'[n] # local[n] => local[n] \in touched'
  BY <1>0, <1>2
<1> QED
  BY <1>0, <1>1, <1>4, <1>5, <1>6, <1>7, MeddleType, PassType, FilesStepKeeps DEF KeptAfter

LEMMA ArchiveChangesStep ==
    ASSUME PruneInv, ArchiveChanges, UNCHANGED pass
    PROVE  PruneInv'
<1>0. /\ local \in [Names -> Data] /\ archive \in [Names -> Data] /\ touched \subseteq Contents
      /\ crashes \in 0..MaxCrash
  BY Facts DEF TypeOK
<1>1. Meddle /\ FilesStep /\ UNCHANGED <<local, touched, crashes>>
  BY DEF ArchiveChanges, FilesStep
<1>2. archive' \in [Names -> Data] /\ \A k \in Names : archive[k] \in Contents => archive'[k] = archive[k]
  BY <1>0, Bounds DEF ArchiveChanges, Data
<1>3. KeptGrows /\ MastersThere'
  <2>1. SameRows
    BY <1>1, UnchangedRows DEF FilesStep
  <2> QED
    BY <1>1, <1>2, <2>1, ArchiveKeeps, PassFrame
<1> QED
  BY <1>0, <1>1, <1>2, <1>3, MeddleType, PassType, FilesStepKeeps

LEMMA FormatStep ==
    ASSUME PruneInv, Format, UNCHANGED pass
    PROVE  PruneInv'
<1>1. ing.pc = "idle" /\ Meddle /\ UNCHANGED <<archive, local, tmp, rows, known, ing, promised, touched, crashes, pass>>
  BY DEF Format
<1>2. card' \in [Files -> Contents]
  BY Facts DEF Format, TypeOK
<1>3. PruneTypeOK'
  BY <1>1, <1>2, Facts, PassType, MeddleType DEF PruneTypeOK, TypeOK
<1>4. IngInv'
  BY <1>1 DEF IngInv, FreshName, OwnRow, TempWhole
<1>5. StoreInv' /\ MastersThere'
  BY <1>1, Facts DEF StoreInv, ClaimsApart, LocalOwn, RowSafe, Accounted, MastersThere, Live, Kept
<1> QED
  BY <1>3, <1>4, <1>5, InvAfter

-----------------------------------------------------------------------------
(* The prune pass *)

\* The pass moves on and leaves the rest alone.
LEMMA PassMoves ==
    ASSUME PruneInv, UNCHANGED vars, MastersThere',
           pass' \in [pc : {"off", "listed", "answered"}, cands : SUBSET (1..MaxRows)]
    PROVE  PruneInv'
BY Facts DEF vars, agentVars, PruneInv, PruneTypeOK, TypeOK, ClaimsApart, FreshName, OwnRow, TempWhole, LocalOwn,
    RowSafe, Accounted, Kept, Live, ByLocalPath, Content

LEMMA PassSteps ==
    ASSUME PruneInv, List \/ NodeStatus \/ EndPass
    PROVE  PruneInv'
<1>0. MastersThere /\ DOMAIN rows \subseteq 1..MaxRows /\ UNCHANGED vars /\ UNCHANGED <<rows, archive>>
  BY Facts, Bounds DEF List, NodeStatus, EndPass, vars, agentVars
<1>1. CASE List
  <2>1. PICK old \in SUBSET Live : pass' = [pc |-> "listed", cands |-> old]
    BY <1>1 DEF List
  <2>2. old \subseteq DOMAIN rows
    BY DEF Live
  <2>3. MastersThere'
    BY <1>0, <2>1, <2>2 DEF MastersThere
  <2> QED
    BY <1>0, <2>1, <2>2, <2>3, PassMoves
<1>2. CASE pass' = NoPass
  <2>1. MastersThere'
    BY <1>0, <1>2 DEF MastersThere, NoPass
  <2> QED
    BY <1>0, <1>2, <2>1, PassMoves DEF NoPass
<1>3. CASE pass' = [pc |-> "answered", cands |-> {i \in pass.cands : Eligible(i)}]
  <2>1. MastersThere'
    BY <1>0, <1>3 DEF MastersThere, Eligible
  <2> QED
    BY <1>0, <1>3, <2>1, PassMoves DEF MastersThere
<1> QED
  BY <1>1, <1>2, <1>3 DEF NodeStatus, EndPass

\* What is removed is in the archive.
LEMMA RemoveStep ==
    ASSUME PruneInv, NEW i \in 1..MaxRows, Remove(i)
    PROVE  /\ PruneInv'
           /\ \A k \in Names : local'[k] = local[k] \/ \E j \in Names : archive[j] = local[k]
<1>0. /\ local \in [Names -> Data] /\ archive \in [Names -> Data] /\ touched \subseteq Contents
      /\ crashes \in 0..MaxCrash /\ meddle \in 0..MaxMeddle /\ MastersThere
  BY Facts DEF TypeOK
<1>1. FilesStep /\ UNCHANGED <<archive, touched, crashes, meddle>>
  BY DEF Remove, FilesStep
<1>2. /\ i \in DOMAIN rows /\ archive[rows[i].name] = rows[i].content
      /\ rows[i].name \in Names /\ rows[i].content \in Contents
  BY <1>0, Facts DEF Remove, MastersThere
<1>3. /\ local' \in [Names -> Data]
      /\ \A n : local'[n] \in {local[n], "none"}
      /\ \A n : local'[n] # local[n] => local[n] = rows[i].content
  BY <1>0, <1>2 DEF Remove, Unchanged, Data
<1>4. /\ pass' \in [pc : {"off", "listed", "answered"}, cands : SUBSET (1..MaxRows)]
      /\ pass'.cands \subseteq pass.cands /\ pass'.pc = pass.pc
  BY PassType DEF Remove
<1>5. MastersThere'
  BY <1>0, <1>1, <1>4 DEF MastersThere, FilesStep
<1>6. KeptGrows /\ KeptAfter(rows[i].content)
  BY <1>1, <1>2, ArchiveKeeps DEF KeptAfter
<1>7. PruneInv'
  BY <1>0, <1>1, <1>3, <1>4, <1>5, <1>6, FilesStepKeeps
<1> QED
  BY <1>2, <1>3, <1>7

LEMMA MasterLostStep ==
    ASSUME PruneInv, MasterLost
    PROVE  PruneInv'
<1>0. /\ local \in [Names -> Data] /\ archive \in [Names -> Data] /\ touched \subseteq Contents
      /\ crashes \in 0..MaxCrash
  BY Facts DEF TypeOK
<1>1. Meddle /\ FilesStep /\ pass.pc # "answered" /\ UNCHANGED <<local, crashes, pass>>
  BY DEF MasterLost, FilesStep
<1>2. PICK k \in Names : /\ archive[k] \in Contents /\ archive' = [archive EXCEPT ![k] = "none"]
                         /\ touched' = touched \cup {archive[k]}
  BY DEF MasterLost
<1>3. /\ archive' \in [Names -> Data] /\ touched \subseteq touched' /\ touched' \subseteq Contents
      /\ \A n \in Names : archive'[n] = archive[n] \/ archive[n] \in touched'
  BY <1>0, <1>2 DEF Data
<1>4. KeptGrows /\ MastersThere'
  <2>1. SameRows
    BY <1>1, UnchangedRows DEF FilesStep
  <2> QED
    BY <1>1, <1>3, <2>1, ArchiveKeeps, PassFrame
<1> QED
  BY <1>0, <1>1, <1>3, <1>4, MeddleType, PassType, FilesStepKeeps

-----------------------------------------------------------------------------
(* Theorems *)

\* The bookkeeping is right before the first file.
LEMMA PruneStarts == PruneInit => PruneInv
<1> SUFFICES ASSUME PruneInit PROVE PruneInv
  OBVIOUS
<1>1. /\ rows = <<>> /\ DOMAIN rows = {} /\ Len(rows) = 0 /\ ing = Idle /\ ing.pc = "idle"
      /\ promised = {} /\ known = {} /\ touched = {} /\ crashes = MaxCrash /\ meddle = MaxMeddle
      /\ pass = NoPass /\ pass.cands = {} /\ pass.pc = "off"
  BY DEF PruneInit, Init, Idle, NoPass
<1>2. Live = {}
  BY <1>1 DEF Live
<1>3. ing \in Ingest
  BY <1>1, Bounds DEF Idle, Ingest, State
<1>4. rows \in Seq(Row) /\ Len(rows) <= MaxRows
  BY <1>1, Bounds
<1>5. /\ card \in [Files -> Contents] /\ local \in [Names -> Data] /\ archive \in [Names -> Data]
      /\ tmp \in [Names -> Contents \cup {"none", "partial"}]
  BY DEF PruneInit, Init, Data
<1>6. TypeOK
  BY <1>1, <1>3, <1>4, <1>5, Bounds DEF TypeOK
<1>7. PruneTypeOK
  BY <1>1, <1>6 DEF PruneTypeOK, NoPass
<1> QED
  BY <1>1, <1>2, <1>7 DEF PruneInv, ClaimsApart, FreshName, OwnRow, TempWhole, LocalOwn, RowSafe, Accounted, MastersThere

\* Every step keeps the bookkeeping, if users keep off the claimed names.
LEMMA PruneKeeps ==
    ASSUME ~UserAnywhere, PruneInv, [PruneNext]_pruneVars
    PROVE  PruneInv'
<1>1. CASE IngestStep /\ UNCHANGED pass
  BY <1>1, LookupStep, ResumeStep, ResolveStep, WriteLocalStep, DedupStep, InsertStep, PlaceStep,
     InlinePostStep, CrashStep DEF IngestStep
<1>2. CASE DrainStep /\ UNCHANGED pass
  BY <1>2, DrainIsRowStep DEF DrainStep
<1>3. CASE (UserPuts \/ UserEdits \/ ArchiveChanges \/ Format) /\ UNCHANGED pass
  BY <1>3, UserPutsStep, UserEditsStep, ArchiveChangesStep, FormatStep
<1>4. CASE List \/ NodeStatus \/ (\E i \in 1..MaxRows : Remove(i)) \/ EndPass \/ MasterLost
  BY <1>4, PassSteps, RemoveStep, MasterLostStep
<1>5. CASE UNCHANGED pruneVars
  <2>1. UNCHANGED <<vars, pass, rows, archive>>
    BY <1>5 DEF pruneVars, vars, agentVars
  <2>2. MastersThere'
    BY <2>1, Facts DEF MastersThere
  <2> QED
    BY <2>1, <2>2, PassType, PassMoves
<1> QED
  BY <1>1, <1>2, <1>3, <1>4, <1>5 DEF PruneNext, Next

(* The bookkeeping that ingestFileOffline, Drain and Pass rely on: a fresh *)
(* copy goes to a name that no row claims, the row comes before the name   *)
(* and its temp copy is whole by then, and every row has its bytes in the  *)
(* archive, at its name or at its temp name, unless a user changed them.   *)
THEOREM PruneInvariant ==
    ASSUME ~UserAnywhere
    PROVE  PruneSpec => []PruneInv
<1>1. PruneInv /\ [PruneNext]_pruneVars => PruneInv'
  BY PruneKeeps
<1>2. QED
  BY <1>1, PruneStarts, PTL DEF PruneSpec

(* What ingestFileOffline reported as queued, resumed or skipped is in the *)
(* archive or in a copy that an unfinished row names, for any number of    *)
(* files, crashes, failed writes, formatted cards and prune passes.        *)
THEOREM WipeSafety ==
    ASSUME ~UserAnywhere
    PROVE  PruneSpec => []SafeToWipe
<1>1. PruneInv => SafeToWipe
  <2> SUFFICES ASSUME PruneInv, NEW c \in promised, c \notin touched
               PROVE  c \in Contents /\ Held(c)
    BY DEF SafeToWipe
  <2>0. c \in Contents /\ RowSafe /\ Accounted
    BY Facts DEF TypeOK, StoreInv
  <2>1. CASE Kept(c)
    BY <2>0, <2>1 DEF Kept, Held
  <2>2. ASSUME NEW i \in DOMAIN rows, rows[i].content = c, ~Kept(c)
        PROVE  Held(c)
    BY <2>0, <2>2 DEF RowSafe, Held, Live
  <2> QED
    BY <2>0, <2>1, <2>2 DEF Accounted
<1>2. QED
  BY <1>1, PruneInvariant, PTL

(* resolveOfflineDestination and the order of row and name keep two rows   *)
(* from ever claiming the same name.                                       *)
THEOREM ClaimSafety ==
    ASSUME ~UserAnywhere
    PROVE  PruneSpec => []ClaimsApart
<1>1. PruneInv => ClaimsApart
  BY DEF PruneInv
<1>2. QED
  BY <1>1, PruneInvariant, PTL

\* Only a prune pass empties a name without a user.
LEMMA OnlyRemove ==
    ASSUME PruneInv, [PruneNext]_pruneVars, NEW k \in Names,
           local[k] # "none", local'[k] = "none", meddle' = meddle
    PROVE  \E j \in Names : archive[j] = local[k]
<1>0. ~Meddle
  <2>1. meddle \in 0..MaxMeddle
    BY Facts DEF TypeOK
  <2> QED
    BY <2>1, Bounds DEF Meddle
<1>1. UNCHANGED local \/ Place \/ \E i \in 1..MaxRows : Remove(i)
  BY <1>0 DEF PruneNext, Next, IngestStep, DrainStep, Lookup, Resume, Resolve, WriteLocal, checkContentDedup,
     InsertPending, InlinePost, Crash, Register, CopyToArchive, RebaseRow, ResetFailed, CollectGarbage,
     UserPuts, UserEdits, ArchiveChanges, Format, List, NodeStatus, EndPass, MasterLost, pruneVars, vars, agentVars
<1>2. CASE Place
  <2>1. /\ ing.name \in Names /\ tmp[ing.name] = Content /\ Content \in Contents /\ local \in [Names -> Data]
    BY <1>2, Facts DEF Place, IngInv, TempWhole, TypeOK
  <2> QED
    BY <1>2, <2>1, Bounds DEF Place
<1>3. CASE \E i \in 1..MaxRows : Remove(i)
  BY <1>3, RemoveStep
<1> QED
  BY <1>1, <1>2, <1>3

(* Pass removes a local file only while the archive has its bytes, however *)
(* stale the list and the answers are by then.                             *)
THEOREM RemovalSafety ==
    ASSUME ~UserAnywhere
    PROVE  PruneSpec => PruneLeavesMaster
<1>1. PruneInv /\ [PruneNext]_pruneVars =>
        [\A k \in Names : local[k] # "none" /\ local'[k] = "none" /\ meddle' = meddle
            => \E j \in Names : archive[j] = local[k]]_pruneVars
  BY OnlyRemove
<1>2. QED
  BY <1>1, PruneInvariant, PTL DEF PruneSpec, PruneLeavesMaster
=============================================================================
