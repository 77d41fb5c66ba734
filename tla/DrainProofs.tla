---------------------------- MODULE DrainProofs ----------------------------
(* Theorems about the offline queue and the passes that drain it, for any   *)
(* number of files, faults and interventions and any delays: what holds in  *)
(* every state, what single steps of ingest, passes and people may do, and  *)
(* the timing argument behind MinRebaseDwell; and at the end about the      *)
(* inside of the copy step, ArchiveCopy, which implements ArchiveSlot.      *)
EXTENDS Drain, TLAPS

-----------------------------------------------------------------------------
(* Rows *)

\* backoffFor yields a time.
LEMMA BackoffType ==
    ASSUME NEW t \in Nat, NEW n \in Int
    PROVE  backoffFor(n, t) \in Nat
BY BackoffAssumption DEF backoffFor

\* A counter that saturates stays in its range.
LEMMA BumpType ==
    ASSUME NEW n \in 0..MaxTries
    PROVE  Bump(n) \in 0..MaxTries
BY BackoffAssumption DEF Bump

\* The three updates of a reset make a row from a row.
LEMMA ResetType ==
    ASSUME NEW q \in Row
    PROVE  resetArchiveCopy(q) \in Row /\ resetRebase(q) \in Row /\ resetUpload(q) \in Row
<1>1. 0 \in 0..MaxTries
  BY BackoffAssumption
<1>2. [q EXCEPT !.archiveCopy = "PENDING", !.acTries = 0, !.acNext = 0] \in Row
  BY <1>1 DEF Row
<1>3. [q EXCEPT !.rebase = "PENDING", !.rbTries = 0, !.rbNext = 0] \in Row
  BY <1>1 DEF Row
<1>4. [q EXCEPT !.upload = "PENDING", !.upTries = 0, !.upNext = 0] \in Row
  BY <1>1 DEF Row
<1> QED
  BY <1>2, <1>3, <1>4 DEF resetArchiveCopy, resetRebase, resetUpload

\* Every Store method makes a row from a row.
LEMMA RowType ==
    ASSUME NEW r \in Row, NEW t \in Nat, NEW m \in BOOLEAN
    PROVE  /\ MarkNodeCreatedSubmitted(r, t) \in Row
           /\ MarkNodeCreatedAttempt(r, t) \in Row
           /\ MarkArchiveCopyDone(r) \in Row
           /\ MarkArchiveCopyAttempt(r, m, t) \in Row
           /\ MarkArchiveCopyFailed(r, m) \in Row
           /\ MarkRebaseDone(r) \in Row
           /\ MarkRebaseAttempt(r, t) \in Row
           /\ MarkRebaseFailed(r) \in Row
           /\ resetFailed(r) \in Row
<1>1. /\ Bump(r.ncTries) \in 0..MaxTries
      /\ Bump(r.acTries) \in 0..MaxTries
      /\ Bump(r.rbTries) \in 0..MaxTries
  BY BumpType DEF Row
<1>2. MarkNodeCreatedSubmitted(r, t) \in Row
  BY DEF MarkNodeCreatedSubmitted, Row
<1>3. MarkNodeCreatedAttempt(r, t) \in Row
  BY <1>1 DEF MarkNodeCreatedAttempt, Row
<1>4. MarkArchiveCopyDone(r) \in Row
  BY DEF MarkArchiveCopyDone, Row
<1>5. MarkArchiveCopyAttempt(r, m, t) \in Row
  BY <1>1 DEF MarkArchiveCopyAttempt, Row
<1>6. MarkArchiveCopyFailed(r, m) \in Row
  BY DEF MarkArchiveCopyFailed, Row
<1>7. MarkRebaseDone(r) \in Row
  BY DEF MarkRebaseDone, Row
<1>8. MarkRebaseAttempt(r, t) \in Row
  BY <1>1 DEF MarkRebaseAttempt, Row
<1>9. MarkRebaseFailed(r) \in Row
  BY DEF MarkRebaseFailed, Row
<1>10. resetFailed(r) \in Row
  BY ResetType DEF resetFailed
<1> QED
  BY <1>2, <1>3, <1>4, <1>5, <1>6, <1>7, <1>8, <1>9, <1>10

\* A new row of a shape Drain knows is a row.
LEMMA InsertType ==
    ASSUME NEW k \in Kind, NEW o \in {"OFFLINE", "ONLINE"}, NEW t \in Nat
    PROVE  InsertPending(k, o, t) \in Row
<1>1. 0 \in 0..MaxTries
  BY BackoffAssumption
<1> QED
  BY <1>1 DEF InsertPending, Row, Kind, Origin

\* Record.Done in Go and terminalSQL in the database are the same predicate.
THEOREM DoneIsTerminal == \A r \in Row : Done(r) <=> TerminalSQL(r)
BY DEF Done, TerminalSQL, Row

-----------------------------------------------------------------------------
(* The invariant is preserved: helpers *)

\* At most one row is the next to visit.
LEMMA FirstUnique ==
    ASSUME NEW i \in Ids, NEW j \in Ids, First(i), First(j)
    PROVE  i = j
BY DEF First, Ids

\* What one update by Drain or by an ingest worker may do to a row: statuses
\* move forward, each only once its ground is there.
Forward(i, q) ==
    /\ q \in Row
    /\ <<q.kind, q.origin, q.upload>> = <<rows[i].kind, rows[i].origin, rows[i].upload>>
    /\ \/ q.nodeCreated = rows[i].nodeCreated /\ q.submittedAt = rows[i].submittedAt
       \/ /\ q.nodeCreated = "SUBMITTED" /\ acceptedAt[i] # Never
          /\ q.submittedAt = now \/ (pc # "idle" /\ q.submittedAt = nowT)
    /\ \/ q.archiveCopy = rows[i].archiveCopy
       \/ rows[i].archiveCopy = "PENDING" /\ q.archiveCopy = "DONE" /\ archive[i] = "good"
       \/ rows[i].archiveCopy = "PENDING" /\ q.archiveCopy = "FAILED"
    /\ \/ q.rebase = rows[i].rebase
       \/ /\ rows[i].rebase = "PENDING"
          /\ rows[i].archiveCopy = "DONE" /\ rows[i].nodeCreated = "SUBMITTED"
          /\ q.archiveCopy = "DONE" /\ q.nodeCreated = "SUBMITTED"
          /\ q.rebase \in {"DONE", "FAILED"}

\* Such an update keeps every part of the invariant that is about rows and
\* files, whatever the pass and the workers do in the same step.
LEMMA ForwardKeepsRows ==
    ASSUME DrainInv, NEW i \in Live, NEW q, Forward(i, q),
           rows' = [rows EXCEPT ![i] = q] \/ rows' = rows,
           \A j \in Ids : worker[j] = "new" <=> worker'[j] = "new",
           UNCHANGED <<shape, fileVars, serverVars>>
    PROVE  /\ Live' = Live /\ rows' \in [Live -> Row]
           /\ \A j \in Live : j # i => rows'[j] = rows[j]
           /\ rows'[i] \in {q, rows[i]}
           /\ Unknown' /\ RowOrder' /\ Tier3Recorded' /\ ArchivedIsVerified'
           /\ SubmittedWasAccepted' /\ CollectedIsSafe'
<1>1. /\ rows \in [Live -> Row] /\ Live \subseteq Ids
  BY DEF DrainInv, TypeOK, Live
<1>2. /\ Live' = Live /\ rows' \in [Live -> Row]
      /\ \A j \in Live : j # i => rows'[j] = rows[j]
      /\ rows'[i] \in {q, rows[i]}
  BY <1>1 DEF Live, Forward
<1>3. Unknown'
  BY <1>2 DEF DrainInv, Unknown, serverVars
<1>4. RowOrder'
  <2>1. ASSUME NEW j \in Live, rows'[j] = rows[j]
        PROVE  /\ <<rows'[j].kind, rows'[j].origin>> = shape[j]
               /\ rows'[j].archiveCopy # "SKIPPED" /\ rows'[j].upload = "SKIPPED"
               /\ rows'[j].kind = "MEDIA" => rows'[j].nodeCreated # "SKIPPED"
               /\ shape[j] = <<"MEDIA", "OFFLINE">> => rows'[j].rebase # "SKIPPED"
               /\ rows'[j].rebase \in {"DONE", "FAILED"} =>
                     rows'[j].archiveCopy = "DONE" /\ rows'[j].nodeCreated = "SUBMITTED"
    BY <2>1 DEF DrainInv, RowOrder
  <2>2. /\ <<q.kind, q.origin>> = shape[i]
        /\ q.archiveCopy # "SKIPPED" /\ q.upload = "SKIPPED"
        /\ q.kind = "MEDIA" => q.nodeCreated # "SKIPPED"
        /\ shape[i] = <<"MEDIA", "OFFLINE">> => q.rebase # "SKIPPED"
        /\ q.rebase \in {"DONE", "FAILED"} => q.archiveCopy = "DONE" /\ q.nodeCreated = "SUBMITTED"
    BY DEF DrainInv, RowOrder, Forward
  <2> QED
    BY <1>2, <2>1, <2>2 DEF RowOrder
<1>5. Tier3Recorded'
  BY <1>1, <1>2 DEF DrainInv, Tier3Recorded, Forward, fileVars, serverVars
<1>6. ArchivedIsVerified'
  BY <1>2 DEF DrainInv, ArchivedIsVerified, Forward, fileVars
<1>7. SubmittedWasAccepted'
  BY <1>2 DEF DrainInv, SubmittedWasAccepted, Forward, serverVars
<1>8. CollectedIsSafe'
  BY <1>2 DEF DrainInv, CollectedIsSafe, fileVars, serverVars
<1> QED
  BY <1>2, <1>3, <1>4, <1>5, <1>6, <1>7, <1>8

\* Nothing is recorded and no file changes: the parts about rows carry over.
LEMMA StillKeepsRows ==
    ASSUME DrainInv, UNCHANGED <<shape, rows, archive, serverVars>>,
           \A j \in Ids : worker[j] = "new" <=> worker'[j] = "new"
    PROVE  /\ Live' = Live
           /\ Unknown' /\ RowOrder' /\ Tier3Recorded' /\ ArchivedIsVerified'
           /\ SubmittedWasAccepted' /\ CollectedIsSafe'
<1>1. Live' = Live
  BY DEF Live
<1>2. RowOrder'
  BY <1>1 DEF DrainInv, RowOrder
<1>3. Unknown' /\ CollectedIsSafe'
  BY <1>1 DEF DrainInv, Unknown, CollectedIsSafe, serverVars
<1>4. Tier3Recorded' /\ ArchivedIsVerified' /\ SubmittedWasAccepted'
  BY <1>1 DEF DrainInv, Tier3Recorded, ArchivedIsVerified, SubmittedWasAccepted, serverVars
<1> QED
  BY <1>1, <1>2, <1>3, <1>4

-----------------------------------------------------------------------------
(* The invariant is preserved: steps that record an answer *)

LEMMA InlineForward ==
    ASSUME DrainInv, NEW i \in Live, InlineMark(i)
    PROVE  \E p : /\ Forward(i, p)
                  /\ rows' = [rows EXCEPT ![i] = p] \/ rows' = rows
                  /\ p.archiveCopy = rows[i].archiveCopy /\ p.rebase = rows[i].rebase
                  /\ rows[i].nodeCreated = "SUBMITTED" => p.nodeCreated = "SUBMITTED"
<1> DEFINE q == IF worker[i] = "accepted" THEN MarkNodeCreatedSubmitted(rows[i], now)
                ELSE IF shape[i][2] = "ONLINE" THEN MarkNodeCreatedAttempt(rows[i], backoffFor(1, now))
                ELSE rows[i]
<1>1. rows[i] \in Row /\ now \in Nat /\ i \in Ids
  BY DEF DrainInv, TypeOK, Live
<1>2. q \in Row
  <2>1. backoffFor(1, now) \in Nat
    BY <1>1, BackoffType
  <2>2. MarkNodeCreatedSubmitted(rows[i], now) \in Row
    BY <1>1, RowType
  <2>3. MarkNodeCreatedAttempt(rows[i], backoffFor(1, now)) \in Row
    BY <1>1, <2>1, RowType
  <2> QED
    BY <1>1, <2>2, <2>3
<1>3. Forward(i, q)
  BY <1>1, <1>2 DEF Forward, MarkNodeCreatedSubmitted, MarkNodeCreatedAttempt, Row, DrainInv, Answers
<1>4. rows' = [rows EXCEPT ![i] = q] \/ rows' = rows
  BY DEF InlineMark
<1>5. /\ q.archiveCopy = rows[i].archiveCopy /\ q.rebase = rows[i].rebase
      /\ rows[i].nodeCreated = "SUBMITTED" => q.nodeCreated = "SUBMITTED"
  BY <1>1 DEF MarkNodeCreatedSubmitted, MarkNodeCreatedAttempt, Row
<1> HIDE DEF q
<1> QED
  BY <1>3, <1>4, <1>5

LEMMA InvInlineMark ==
    ASSUME DrainInv, NEW i \in Ids, InlineMark(i)
    PROVE  DrainInv'
<1>0. USE DEF Live
<1>1. CASE i \in Live
  <2>1. PICK q : /\ Forward(i, q)
                 /\ rows' = [rows EXCEPT ![i] = q] \/ rows' = rows
                 /\ q.archiveCopy = rows[i].archiveCopy /\ q.rebase = rows[i].rebase
                 /\ rows[i].nodeCreated = "SUBMITTED" => q.nodeCreated = "SUBMITTED"
    BY <1>1, InlineForward
  <2>2. \A j \in Ids : worker[j] = "new" <=> worker'[j] = "new"
    BY DEF InlineMark, DrainInv, TypeOK
  <2>3. /\ Live' = Live /\ rows' \in [Live -> Row]
        /\ \A j \in Live : j # i => rows'[j] = rows[j]
        /\ rows'[i] \in {q, rows[i]}
        /\ Unknown' /\ RowOrder' /\ Tier3Recorded' /\ ArchivedIsVerified'
        /\ SubmittedWasAccepted' /\ CollectedIsSafe'
    BY <1>1, <2>1, <2>2, ForwardKeepsRows DEF InlineMark
  <2>4. TypeOK'
    BY <2>3 DEF InlineMark, DrainInv, TypeOK, fileVars, serverVars, passVars, Fault, NoFault
  <2>5. Answers'
    BY DEF InlineMark, DrainInv, TypeOK, Answers, First, fileVars, serverVars, passVars
  <2>6. SnapshotFresh'
    BY <2>1, <2>3 DEF InlineMark, DrainInv, SnapshotFresh, passVars
  <2> QED
    BY <2>3, <2>4, <2>5, <2>6 DEF DrainInv
<1>2. CASE i \notin Live
  <2>1. rows' = rows
    BY <1>2 DEF InlineMark, DrainInv, TypeOK
  <2>2. \A j \in Ids : worker[j] = "new" <=> worker'[j] = "new"
    BY DEF InlineMark, DrainInv, TypeOK
  <2>3. /\ Live' = Live
        /\ Unknown' /\ RowOrder' /\ Tier3Recorded' /\ ArchivedIsVerified'
        /\ SubmittedWasAccepted' /\ CollectedIsSafe'
    BY <2>1, <2>2, StillKeepsRows DEF InlineMark, fileVars
  <2>4. TypeOK'
    BY <2>1 DEF InlineMark, DrainInv, TypeOK, fileVars, serverVars, passVars, Fault, NoFault
  <2>5. Answers'
    BY DEF InlineMark, DrainInv, TypeOK, Answers, First, fileVars, serverVars, passVars
  <2>6. SnapshotFresh'
    BY <2>1, <2>3 DEF InlineMark, DrainInv, SnapshotFresh, passVars
  <2> QED
    BY <2>3, <2>4, <2>5, <2>6 DEF DrainInv
<1> QED
  BY <1>1, <1>2

\* The three phases record through Mark; what is left to show of each is that
\* its update moves the row forward.
LEMMA InvMark ==
    ASSUME DrainInv, NEW i \in Ids, First(i), NEW q, NEW next, Forward(i, q), Mark(i, q, next),
           \/ /\ pc = "posted" /\ next = "creating"
              /\ q.archiveCopy = rows[i].archiveCopy
           \/ pc = "copied" /\ next = "copying"
           \/ pc = "answered" /\ next = "rebasing"
    PROVE  DrainInv'
<1>0. USE DEF Live
<1>1. i \in Live
  BY DEF DrainInv, SnapshotFresh, First
<1>2. /\ Live' = Live /\ rows' \in [Live -> Row]
      /\ \A j \in Live : j # i => rows'[j] = rows[j]
      /\ rows'[i] \in {q, rows[i]}
      /\ Unknown' /\ RowOrder' /\ Tier3Recorded' /\ ArchivedIsVerified'
      /\ SubmittedWasAccepted' /\ CollectedIsSafe'
  BY <1>1, ForwardKeepsRows DEF Mark
<1>3. TypeOK'
  BY <1>2 DEF Mark, DrainInv, TypeOK, fileVars, serverVars, Fault, NoFault
<1>4. Answers'
  BY DEF Mark, DrainInv, Answers, serverVars
<1>5. SnapshotFresh'
  BY <1>1, <1>2 DEF Mark, DrainInv, SnapshotFresh
<1> QED
  BY <1>2, <1>3, <1>4, <1>5 DEF DrainInv

LEMMA PostMarkForward ==
    ASSUME DrainInv, NEW i \in Ids, DrainPostMark(i)
    PROVE  \E p : Forward(i, p) /\ Mark(i, p, "creating") /\ p.archiveCopy = rows[i].archiveCopy
<1> DEFINE q == IF res = "ok" THEN MarkNodeCreatedSubmitted(rows[i], nowT)
                ELSE MarkNodeCreatedAttempt(rows[i], backoffFor(snap[i].ncTries + 1, nowT))
<1>1. /\ rows[i] \in Row /\ snap[i] \in Row /\ nowT \in Nat
  BY DEF DrainPostMark, First, DrainInv, TypeOK, SnapshotFresh, Live
<1>2. snap[i].ncTries + 1 \in Int
  BY <1>1 DEF Row
<1>3. q \in Row
  BY <1>1, <1>2, RowType, BackoffType
<1>4. Forward(i, q) /\ q.archiveCopy = rows[i].archiveCopy
  BY <1>1, <1>3 DEF Forward, MarkNodeCreatedSubmitted, MarkNodeCreatedAttempt, Row,
                    DrainInv, Answers, DrainPostMark
<1>5. pc = "posted" /\ First(i) /\ Mark(i, q, "creating")
  BY DEF DrainPostMark
<1> HIDE DEF q
<1> QED
  BY <1>4, <1>5

LEMMA InvDrainPostMark ==
    ASSUME DrainInv, NEW i \in Ids, DrainPostMark(i)
    PROVE  DrainInv'
<1>1. PICK q : Forward(i, q) /\ Mark(i, q, "creating") /\ q.archiveCopy = rows[i].archiveCopy
  BY PostMarkForward
<1>2. pc = "posted" /\ First(i)
  BY DEF DrainPostMark
<1> QED
  BY <1>1, <1>2, InvMark

LEMMA CopyMarkForward ==
    ASSUME DrainInv, NEW i \in Ids, CopyMark(i)
    PROVE  \E p : Forward(i, p) /\ Mark(i, p, "copying")
<1> DEFINE q == IF res = "ok" THEN MarkArchiveCopyDone(rows[i])
                ELSE IF res = "fatal" \/ repeatMismatch(snap[i])
                THEN MarkArchiveCopyFailed(rows[i], res = "mismatch")
                ELSE MarkArchiveCopyAttempt(rows[i], res = "mismatch",
                                            backoffFor(snap[i].acTries + 1, nowT))
<1>1. /\ rows[i] \in Row /\ snap[i] \in Row /\ nowT \in Nat
      /\ (res = "mismatch") \in BOOLEAN
  BY DEF CopyMark, First, DrainInv, TypeOK, SnapshotFresh, Live
<1>2. snap[i].acTries + 1 \in Int
  BY <1>1 DEF Row
<1>3. q \in Row
  BY <1>1, <1>2, RowType, BackoffType
<1>4. rows[i].archiveCopy = "PENDING" /\ (res = "ok" => archive[i] = "good")
  BY DEF CopyMark, First, DrainInv, SnapshotFresh, Answers
<1>5. Forward(i, q)
  BY <1>1, <1>3, <1>4 DEF Forward, MarkArchiveCopyDone, MarkArchiveCopyFailed, MarkArchiveCopyAttempt, Row
<1>6. pc = "copied" /\ First(i) /\ Mark(i, q, "copying")
  BY DEF CopyMark
<1> HIDE DEF q
<1> QED
  BY <1>5, <1>6

LEMMA InvCopyMark ==
    ASSUME DrainInv, NEW i \in Ids, CopyMark(i)
    PROVE  DrainInv'
<1>1. PICK q : Forward(i, q) /\ Mark(i, q, "copying")
  BY CopyMarkForward
<1>2. pc = "copied" /\ First(i)
  BY DEF CopyMark
<1> QED
  BY <1>1, <1>2, InvMark

LEMMA RebaseMarkForward ==
    ASSUME DrainInv, NEW i \in Ids, DrainRebaseMark(i)
    PROVE  \E p : Forward(i, p) /\ Mark(i, p, "rebasing")
<1> DEFINE q == IF res = "ok" THEN MarkRebaseDone(rows[i])
                ELSE IF res = "fatal" THEN MarkRebaseFailed(rows[i])
                ELSE MarkRebaseAttempt(rows[i], backoffFor(snap[i].rbTries + 1, nowT))
<1>1. /\ rows[i] \in Row /\ snap[i] \in Row /\ nowT \in Nat
  BY DEF DrainRebaseMark, First, DrainInv, TypeOK, SnapshotFresh, Live
<1>2. snap[i].rbTries + 1 \in Int
  BY <1>1 DEF Row
<1>3. q \in Row
  BY <1>1, <1>2, RowType, BackoffType
<1>4. rows[i].archiveCopy = "DONE" /\ rows[i].nodeCreated = "SUBMITTED" /\ rows[i].rebase = "PENDING"
  BY DEF DrainRebaseMark, First, DrainInv, SnapshotFresh
<1>5. Forward(i, q)
  BY <1>1, <1>3, <1>4 DEF Forward, MarkRebaseDone, MarkRebaseFailed, MarkRebaseAttempt, Row
<1>6. pc = "answered" /\ First(i) /\ Mark(i, q, "rebasing")
  BY DEF DrainRebaseMark
<1> HIDE DEF q
<1> QED
  BY <1>5, <1>6

LEMMA InvDrainRebaseMark ==
    ASSUME DrainInv, NEW i \in Ids, DrainRebaseMark(i)
    PROVE  DrainInv'
<1>1. PICK q : Forward(i, q) /\ Mark(i, q, "rebasing")
  BY RebaseMarkForward
<1>2. pc = "answered" /\ First(i)
  BY DEF DrainRebaseMark
<1> QED
  BY <1>1, <1>2, InvMark

-----------------------------------------------------------------------------
(* The invariant is preserved: steps that move a file or ask the server *)

LEMMA InvInsert ==
    ASSUME DrainInv, NEW i \in Ids, Insert(i)
    PROVE  DrainInv'
<1>0. USE DEF Live
<1> DEFINE q == InsertPending(shape[i][1], shape[i][2], now)
<1>1. /\ shape[i] \in {<<"MEDIA", "OFFLINE">>, <<"SIDECAR", "OFFLINE">>, <<"MEDIA", "ONLINE">>}
      /\ now \in Nat
  BY DrainAssumption DEF DrainInv, TypeOK
<1>2. /\ shape[i][1] \in Kind /\ shape[i][2] \in {"OFFLINE", "ONLINE"}
      /\ shape[i] = <<shape[i][1], shape[i][2]>>
  BY <1>1 DEF Kind
<1>3. q \in Row
  BY <1>1, <1>2, InsertType
<1>4. /\ Live' = Live \cup {i} /\ i \notin Live /\ acceptedAt[i] = Never /\ node[i] = "none"
      /\ rows' \in [Live \cup {i} -> Row] /\ rows'[i] = q
      /\ \A j \in Live : rows'[j] = rows[j]
  BY <1>3 DEF Insert, DrainInv, TypeOK, Unknown
<1>5. /\ q.kind = shape[i][1] /\ q.origin = shape[i][2] /\ q.upload = "SKIPPED"
      /\ q.archiveCopy = (IF shape[i][2] = "ONLINE" THEN "DONE" ELSE "PENDING")
      /\ q.nodeCreated = (IF shape[i][1] = "SIDECAR" THEN "SKIPPED" ELSE "PENDING")
      /\ q.rebase = (IF shape[i] = <<"MEDIA", "OFFLINE">> THEN "PENDING" ELSE "SKIPPED")
  BY <1>1 DEF InsertPending
<1> HIDE DEF q
<1>6. TypeOK'
  BY <1>4 DEF Insert, DrainInv, TypeOK, serverVars, passVars
<1>7. Unknown' /\ Answers'
  BY <1>4 DEF Insert, DrainInv, TypeOK, Unknown, Answers, First, SnapshotFresh, serverVars, passVars
<1>8. RowOrder'
  BY <1>1, <1>2, <1>4, <1>5 DEF Insert, DrainInv, RowOrder
<1>9. SnapshotFresh'
  BY <1>4 DEF Insert, DrainInv, SnapshotFresh, passVars
<1>10. Tier3Recorded' /\ ArchivedIsVerified'
  BY <1>1, <1>4, <1>5 DEF Insert, DrainInv, TypeOK, Tier3Recorded, ArchivedIsVerified, serverVars
<1>11. SubmittedWasAccepted' /\ CollectedIsSafe'
  BY <1>4, <1>5 DEF Insert, DrainInv, TypeOK, SubmittedWasAccepted, CollectedIsSafe, serverVars
<1> QED
  BY <1>6, <1>7, <1>8, <1>9, <1>10, <1>11 DEF DrainInv

LEMMA InvPlaceLocal ==
    ASSUME DrainInv, NEW i \in Ids, PlaceLocal(i)
    PROVE  DrainInv'
<1>1. \A j \in Ids : worker[j] = "new" <=> worker'[j] = "new"
  BY DEF PlaceLocal, DrainInv, TypeOK
<1>2. /\ Live' = Live
      /\ Unknown' /\ RowOrder' /\ Tier3Recorded' /\ ArchivedIsVerified'
      /\ SubmittedWasAccepted' /\ CollectedIsSafe'
  BY <1>1, StillKeepsRows DEF PlaceLocal
<1>3. TypeOK'
  BY DEF PlaceLocal, DrainInv, TypeOK, serverVars, passVars, Fault, NoFault
<1>4. Answers' /\ SnapshotFresh'
  BY <1>2 DEF PlaceLocal, DrainInv, TypeOK, Answers, SnapshotFresh, First, serverVars, passVars
<1> QED
  BY <1>2, <1>3, <1>4 DEF DrainInv

\* A POST only adds to what the server has accepted.
LEMMA PostKeepsRows ==
    ASSUME DrainInv, NEW i \in Ids, worker[i] # "new", NEW answer, PostNodeCreated(i, answer),
           UNCHANGED <<shape, rows, archive, node>>,
           \A j \in Ids : worker[j] = "new" <=> worker'[j] = "new"
    PROVE  /\ Live' = Live
           /\ acceptedAt' \in [Ids -> Nat \cup {Never}] /\ faults' \in Nat
           /\ \A j \in Ids : acceptedAt[j] # Never => acceptedAt'[j] # Never
           /\ answer = "ok" => acceptedAt'[i] # Never
           /\ Unknown' /\ RowOrder' /\ Tier3Recorded' /\ ArchivedIsVerified'
           /\ SubmittedWasAccepted' /\ CollectedIsSafe'
<1>1. Live' = Live
  BY DEF Live
<1>2. /\ acceptedAt' \in [Ids -> Nat \cup {Never}] /\ faults' \in Nat
      /\ \A j \in Ids : acceptedAt[j] # Never => acceptedAt'[j] # Never
      /\ \A j \in Ids : j # i => acceptedAt'[j] = acceptedAt[j]
      /\ answer = "ok" => acceptedAt'[i] # Never
  BY DEF DrainInv, TypeOK, PostNodeCreated, Fault, NoFault, Never
<1>3. Unknown' /\ CollectedIsSafe'
  BY <1>1, <1>2 DEF DrainInv, Unknown, CollectedIsSafe
<1>4. RowOrder'
  BY <1>1 DEF DrainInv, RowOrder
<1>5. Tier3Recorded' /\ ArchivedIsVerified'
  BY <1>1 DEF DrainInv, Tier3Recorded, ArchivedIsVerified
<1>6. SubmittedWasAccepted'
  BY <1>1, <1>2 DEF DrainInv, TypeOK, SubmittedWasAccepted, Live
<1> QED
  BY <1>1, <1>2, <1>3, <1>4, <1>5, <1>6

LEMMA InvInlinePost ==
    ASSUME DrainInv, NEW i \in Ids, InlinePost(i)
    PROVE  DrainInv'
<1>1. PICK answer \in {"ok", "err"} :
          /\ PostNodeCreated(i, answer)
          /\ worker' = [worker EXCEPT ![i] = IF answer = "ok" THEN "accepted" ELSE "refused"]
  BY DEF InlinePost
<1>2. worker[i] # "new" /\ \A j \in Ids : worker[j] = "new" <=> worker'[j] = "new"
  BY <1>1 DEF InlinePost, DrainInv, TypeOK
<1>3. /\ Live' = Live
      /\ acceptedAt' \in [Ids -> Nat \cup {Never}] /\ faults' \in Nat
      /\ \A j \in Ids : acceptedAt[j] # Never => acceptedAt'[j] # Never
      /\ answer = "ok" => acceptedAt'[i] # Never
      /\ Unknown' /\ RowOrder' /\ Tier3Recorded' /\ ArchivedIsVerified'
      /\ SubmittedWasAccepted' /\ CollectedIsSafe'
  BY <1>1, <1>2, PostKeepsRows DEF InlinePost, fileVars
<1>4. TypeOK'
  BY <1>1, <1>3 DEF InlinePost, DrainInv, TypeOK, fileVars, passVars
<1>5. Answers'
  BY <1>1, <1>3 DEF InlinePost, DrainInv, TypeOK, Answers, First, fileVars, passVars
<1>6. SnapshotFresh'
  BY <1>3 DEF InlinePost, DrainInv, SnapshotFresh, passVars
<1> QED
  BY <1>3, <1>4, <1>5, <1>6 DEF DrainInv

LEMMA InvDrainPost ==
    ASSUME DrainInv, NEW i \in Ids, DrainPost(i)
    PROVE  DrainInv'
<1>1. PICK answer \in {"ok", "err"} : PostNodeCreated(i, answer) /\ res' = answer
  BY DEF DrainPost
<1>2. worker[i] # "new"
  BY DEF DrainPost, First, DrainInv, Unknown, SnapshotFresh
<1>3. /\ Live' = Live
      /\ acceptedAt' \in [Ids -> Nat \cup {Never}] /\ faults' \in Nat
      /\ \A j \in Ids : acceptedAt[j] # Never => acceptedAt'[j] # Never
      /\ answer = "ok" => acceptedAt'[i] # Never
      /\ Unknown' /\ RowOrder' /\ Tier3Recorded' /\ ArchivedIsVerified'
      /\ SubmittedWasAccepted' /\ CollectedIsSafe'
  BY <1>1, <1>2, PostKeepsRows DEF DrainPost, fileVars
<1>4. TypeOK'
  BY <1>1, <1>3 DEF DrainPost, DrainInv, TypeOK, fileVars
<1>5. Answers'
  <2>1. \A j \in Ids : First(j)' => j = i
    BY FirstUnique DEF DrainPost, First
  <2> QED
    BY <1>1, <1>3, <2>1 DEF DrainPost, DrainInv, Answers
<1>6. SnapshotFresh'
  BY <1>3 DEF DrainPost, DrainInv, SnapshotFresh
<1> QED
  BY <1>3, <1>4, <1>5, <1>6 DEF DrainInv

LEMMA InvServerApply ==
    ASSUME DrainInv, NEW i \in Ids, ServerApply(i)
    PROVE  DrainInv'
<1>1. /\ Live' = Live /\ worker[i] # "new"
      /\ node' \in [Ids -> {"none", "tier0", "tier3", "bare"}]
      /\ \A j \in Ids : j # i => node'[j] = node[j]
      /\ node'[i] = "tier3" => shape[i][2] = "ONLINE"
      /\ node'[i] # "bare"
  BY DEF ServerApply, Unapplied, DrainInv, TypeOK, Unknown, Live
<1>2. Tier3Recorded'
  BY <1>1 DEF ServerApply, DrainInv, Tier3Recorded, fileVars
<1>3. Unknown' /\ CollectedIsSafe'
  BY <1>1 DEF ServerApply, DrainInv, Unknown, CollectedIsSafe, fileVars
<1>4. RowOrder'
  BY <1>1 DEF ServerApply, DrainInv, RowOrder
<1>5. ArchivedIsVerified' /\ SubmittedWasAccepted'
  BY <1>1 DEF ServerApply, DrainInv, ArchivedIsVerified, SubmittedWasAccepted, fileVars
<1>6. TypeOK'
  BY <1>1 DEF ServerApply, DrainInv, TypeOK, fileVars, passVars
<1>7. Answers' /\ SnapshotFresh'
  BY <1>1 DEF ServerApply, DrainInv, Answers, SnapshotFresh, First, fileVars, passVars
<1> QED
  BY <1>2, <1>3, <1>4, <1>5, <1>6, <1>7 DEF DrainInv

LEMMA InvDrainRebase ==
    ASSUME DrainInv, NEW i \in Ids, DrainRebase(i)
    PROVE  DrainInv'
<1>1. PICK answer \in {"ok", "err", "fatal"} : Rebase(i, answer) /\ res' = answer
  BY DEF DrainRebase
<1>2. i \in Live /\ rows[i].archiveCopy = "DONE" /\ worker[i] # "new" /\ archive[i] = "good"
  BY DEF DrainRebase, First, DrainInv, SnapshotFresh, Unknown, ArchivedIsVerified
<1>3. /\ Live' = Live /\ faults' \in Nat
      /\ node' \in [Ids -> {"none", "tier0", "tier3", "bare"}]
      /\ \A j \in Ids : j # i => node'[j] = node[j]
  <2>1. faults' \in Nat
    BY <1>1 DEF Rebase, Fault, NoFault, DrainInv, TypeOK
  <2>2. node' = node \/ \E n \in {"tier3", "bare", node[i]} : node' = [node EXCEPT ![i] = n]
    BY <1>1 DEF Rebase
  <2> QED
    BY <2>1, <2>2 DEF DrainRebase, DrainInv, TypeOK, Live
<1>4. Tier3Recorded'
  BY <1>2, <1>3 DEF DrainRebase, DrainInv, Tier3Recorded, fileVars
<1>5. Unknown' /\ CollectedIsSafe'
  BY <1>2, <1>3 DEF DrainRebase, DrainInv, Unknown, CollectedIsSafe, fileVars
<1>6. RowOrder'
  BY <1>3 DEF DrainRebase, DrainInv, RowOrder
<1>7. ArchivedIsVerified' /\ SubmittedWasAccepted'
  BY <1>3 DEF DrainRebase, DrainInv, ArchivedIsVerified, SubmittedWasAccepted, fileVars
<1>8. TypeOK'
  BY <1>1, <1>3 DEF DrainRebase, DrainInv, TypeOK, fileVars
<1>9. Answers' /\ SnapshotFresh'
  BY <1>3 DEF DrainRebase, DrainInv, Answers, SnapshotFresh
<1> QED
  BY <1>4, <1>5, <1>6, <1>7, <1>8, <1>9 DEF DrainInv

\* Placing and removing a copy touches only a path whose row is not archived.
LEMMA CopyKeepsRows ==
    ASSUME DrainInv, NEW i \in Ids, First(i), pc \in {"staged", "placed"}, NEW f, f \in {"none", "good", "bad"},
           archive' = [archive EXCEPT ![i] = f] \/ archive' = archive,
           UNCHANGED <<shape, rows, serverVars, worker>>
    PROVE  /\ Live' = Live
           /\ Unknown' /\ RowOrder' /\ Tier3Recorded' /\ ArchivedIsVerified'
           /\ SubmittedWasAccepted' /\ CollectedIsSafe'
           /\ archive' \in [Ids -> {"none", "good", "bad", "foreign", "twin"}]
<1>1. Live' = Live /\ i \in Live /\ rows[i].archiveCopy = "PENDING"
  BY DEF First, DrainInv, SnapshotFresh, Live
<1>2. /\ archive' \in [Ids -> {"none", "good", "bad", "foreign", "twin"}]
      /\ \A j \in Ids : j # i => archive'[j] = archive[j]
  BY DEF DrainInv, TypeOK
<1>3. Unknown' /\ CollectedIsSafe'
  BY <1>1, <1>2 DEF DrainInv, Unknown, CollectedIsSafe, serverVars
<1>4. RowOrder'
  BY <1>1 DEF DrainInv, RowOrder
<1>5. Tier3Recorded'
  BY <1>1, <1>2 DEF DrainInv, Tier3Recorded, serverVars
<1>6. ArchivedIsVerified' /\ SubmittedWasAccepted'
  BY <1>1, <1>2 DEF DrainInv, TypeOK, ArchivedIsVerified, SubmittedWasAccepted, serverVars, Live
<1> QED
  BY <1>1, <1>2, <1>3, <1>4, <1>5, <1>6

LEMMA InvCopyPlace ==
    ASSUME DrainInv, NEW i \in Ids, CopyPlace(i)
    PROVE  DrainInv'
<1>1. \E f \in {"none", "good", "bad"} : archive' = [archive EXCEPT ![i] = f] \/ archive' = archive
  BY DEF CopyPlace
<1>2. /\ Live' = Live
      /\ Unknown' /\ RowOrder' /\ Tier3Recorded' /\ ArchivedIsVerified'
      /\ SubmittedWasAccepted' /\ CollectedIsSafe'
      /\ archive' \in [Ids -> {"none", "good", "bad", "foreign", "twin"}]
  BY <1>1, CopyKeepsRows DEF CopyPlace
<1>3. TypeOK'
  BY <1>2 DEF CopyPlace, DrainInv, TypeOK, serverVars, Fault, NoFault
<1>4. Answers'
  <2>1. \A j \in Ids : First(j)' => j = i
    BY FirstUnique DEF CopyPlace, First
  <2>2. pc' = "placed" => archive'[i] \in {"good", "bad"}
    BY DEF CopyPlace, DrainInv, TypeOK
  <2>3. pc' \in {"placed", "copied"} /\ (pc' = "copied" => res' = "err")
    BY DEF CopyPlace
  <2> QED
    BY <2>1, <2>2, <2>3 DEF CopyPlace, DrainInv, Answers, serverVars
<1>5. SnapshotFresh'
  BY <1>2 DEF CopyPlace, DrainInv, SnapshotFresh
<1> QED
  BY <1>2, <1>3, <1>4, <1>5 DEF DrainInv

LEMMA InvCopyVerify ==
    ASSUME DrainInv, NEW i \in Ids, CopyVerify(i)
    PROVE  DrainInv'
<1>1. \E f \in {"none", "good", "bad"} : archive' = [archive EXCEPT ![i] = f] \/ archive' = archive
  BY DEF CopyVerify
<1>2. /\ Live' = Live
      /\ Unknown' /\ RowOrder' /\ Tier3Recorded' /\ ArchivedIsVerified'
      /\ SubmittedWasAccepted' /\ CollectedIsSafe'
      /\ archive' \in [Ids -> {"none", "good", "bad", "foreign", "twin"}]
  BY <1>1, CopyKeepsRows DEF CopyVerify
<1>3. TypeOK'
  BY <1>2 DEF CopyVerify, DrainInv, TypeOK, serverVars, Fault, NoFault
<1>4. Answers'
  <2>1. \A j \in Ids : First(j)' => j = i
    BY FirstUnique DEF CopyVerify, First
  <2>2. res' = "ok" => archive'[i] = "good"
    BY DEF CopyVerify
  <2> QED
    BY <2>1, <2>2 DEF CopyVerify, DrainInv, Answers, serverVars
<1>5. SnapshotFresh'
  BY <1>2 DEF CopyVerify, DrainInv, SnapshotFresh
<1> QED
  BY <1>2, <1>3, <1>4, <1>5 DEF DrainInv

LEMMA InvCopyExamine ==
    ASSUME DrainInv, NEW i \in Ids, CopyExamine(i)
    PROVE  DrainInv'
<1>1. /\ Live' = Live
      /\ Unknown' /\ RowOrder' /\ Tier3Recorded' /\ ArchivedIsVerified'
      /\ SubmittedWasAccepted' /\ CollectedIsSafe'
  BY StillKeepsRows DEF CopyExamine, fileVars
<1>2. /\ pc' \in {"staged", "copied"} /\ res' \in {"none", "ok", "err", "fatal", "mismatch"}
      /\ pc' = "copied" /\ res' = "ok" => archive[i] = "good"
      /\ faults' \in Nat
  BY DEF CopyExamine, ExamineExisting, Stage, Unequal, Fault, NoFault, DrainInv, TypeOK
<1>3. TypeOK'
  BY <1>2 DEF CopyExamine, DrainInv, TypeOK, fileVars, serverVars
<1>4. Answers'
  <2>1. \A j \in Ids : First(j)' => j = i
    BY FirstUnique DEF CopyExamine, First
  <2> QED
    BY <1>2, <2>1 DEF CopyExamine, DrainInv, Answers, fileVars, serverVars
<1>5. SnapshotFresh'
  BY <1>1, <1>2 DEF CopyExamine, DrainInv, SnapshotFresh
<1> QED
  BY <1>1, <1>3, <1>4, <1>5 DEF DrainInv

-----------------------------------------------------------------------------
(* The invariant is preserved: a pass begins, changes phase, ends *)

LEMMA InvStartPass ==
    ASSUME DrainInv, StartPass
    PROVE  DrainInv'
<1>1. /\ Live' = Live
      /\ Unknown' /\ RowOrder' /\ Tier3Recorded' /\ ArchivedIsVerified'
      /\ SubmittedWasAccepted' /\ CollectedIsSafe'
  BY StillKeepsRows DEF StartPass, fileVars
<1>2. TypeOK'
  BY DEF StartPass, DrainInv, TypeOK, fileVars, serverVars, Live, Pending
<1>3. Answers'
  BY DEF StartPass, DrainInv, Answers, serverVars
<1>4. SnapshotFresh'
  BY <1>1 DEF StartPass, DrainInv, SnapshotFresh, Pending
<1> QED
  BY <1>1, <1>2, <1>3, <1>4 DEF DrainInv

LEMMA InvStartCopies ==
    ASSUME DrainInv, StartCopies
    PROVE  DrainInv'
<1>1. /\ Live' = Live
      /\ Unknown' /\ RowOrder' /\ Tier3Recorded' /\ ArchivedIsVerified'
      /\ SubmittedWasAccepted' /\ CollectedIsSafe'
  BY StillKeepsRows DEF StartCopies, fileVars
<1>2. TypeOK'
  BY DEF StartCopies, DrainInv, TypeOK, fileVars, serverVars, Live
<1>3. Answers'
  BY DEF StartCopies, DrainInv, Answers, serverVars
<1>4. SnapshotFresh'
  BY <1>1 DEF StartCopies, DrainInv, SnapshotFresh, CopyDue
<1> QED
  BY <1>1, <1>2, <1>3, <1>4 DEF DrainInv

LEMMA InvStartRebases ==
    ASSUME DrainInv, StartRebases
    PROVE  DrainInv'
<1>1. /\ Live' = Live
      /\ Unknown' /\ RowOrder' /\ Tier3Recorded' /\ ArchivedIsVerified'
      /\ SubmittedWasAccepted' /\ CollectedIsSafe'
  BY StillKeepsRows DEF StartRebases, fileVars
<1>2. TypeOK'
  BY DEF StartRebases, DrainInv, TypeOK, fileVars, serverVars, Live, Pending
<1>3. Answers'
  BY DEF StartRebases, DrainInv, Answers, serverVars
<1>4. SnapshotFresh'
  BY <1>1 DEF StartRebases, DrainInv, SnapshotFresh, Pending, RebaseDue
<1> QED
  BY <1>1, <1>2, <1>3, <1>4 DEF DrainInv

\* A pass that is over leaves nothing behind but what it recorded.
LEMMA InvPassOver ==
    ASSUME DrainInv, PassOver, UNCHANGED <<now, shape, rows, fileVars, serverVars, meddle>>,
           worker' \in [Ids -> {"new", "inserted", "placed", "accepted", "refused", "end"}],
           \A j \in Ids : worker[j] = "new" <=> worker'[j] = "new",
           \A j \in Ids : worker'[j] \in {worker[j], "end"},
           lastGC' \in Nat \cup {Never}, faults' \in Nat
    PROVE  DrainInv'
<1>1. /\ Live' = Live
      /\ Unknown' /\ RowOrder' /\ Tier3Recorded' /\ ArchivedIsVerified'
      /\ SubmittedWasAccepted' /\ CollectedIsSafe'
  BY StillKeepsRows DEF fileVars
<1>2. TypeOK'
  BY DEF PassOver, DrainInv, TypeOK, fileVars, serverVars
<1>3. Answers'
  BY DEF PassOver, DrainInv, Answers, serverVars
<1>4. SnapshotFresh'
  BY <1>1 DEF PassOver, DrainInv, SnapshotFresh
<1> QED
  BY <1>1, <1>2, <1>3, <1>4 DEF DrainInv

LEMMA InvStartSweep ==
    ASSUME DrainInv, StartSweep
    PROVE  DrainInv'
<1>1. CASE PassOver
  BY <1>1, InvPassOver DEF StartSweep, DrainInv, TypeOK
<1>2. CASE pc' = "collecting" /\ todo' \subseteq Live /\ UNCHANGED <<nowT, snap, res>>
  <2>1. /\ Live' = Live
        /\ Unknown' /\ RowOrder' /\ Tier3Recorded' /\ ArchivedIsVerified'
        /\ SubmittedWasAccepted' /\ CollectedIsSafe'
    BY StillKeepsRows DEF StartSweep, fileVars
  <2>2. TypeOK'
    BY <1>2 DEF StartSweep, DrainInv, TypeOK, fileVars, serverVars, Live
  <2>3. Answers'
    BY <1>2 DEF StartSweep, DrainInv, Answers, serverVars
  <2>4. SnapshotFresh'
    BY <1>2, <2>1 DEF StartSweep, DrainInv, SnapshotFresh
  <2> QED
    BY <2>1, <2>2, <2>3, <2>4 DEF DrainInv
<1> QED
  BY <1>1, <1>2 DEF StartSweep

\* What the sweep deletes is finished, so it is archived and, as media,
\* accepted by the server.
LEMMA InvCollect ==
    ASSUME DrainInv, NEW i \in Ids, Collect(i)
    PROVE  DrainInv'
<1>0. USE DEF Live
<1>1. /\ Live' \subseteq Live /\ Live \ {i} \subseteq Live'
      /\ rows' \in [Live' -> Row] /\ \A j \in Live' : rows'[j] = rows[j]
  BY DEF Collect, DrainInv, TypeOK
<1>2. i \in Live \ Live' => archive[i] = "good" /\ (shape[i][1] = "MEDIA" => acceptedAt[i] # Never)
  <2> SUFFICES ASSUME i \in Live, i \notin Live'
               PROVE  archive[i] = "good" /\ (shape[i][1] = "MEDIA" => acceptedAt[i] # Never)
    OBVIOUS
  <2>1. TerminalSQL(rows[i]) /\ ~Failed(rows[i])
    BY DEF Collect, FinishedOld
  <2>2. rows[i] \in Row
    BY DEF DrainInv, TypeOK
  <2>3. rows[i].archiveCopy = "DONE"
    BY <2>1, <2>2 DEF TerminalSQL, Failed, Row, DrainInv, RowOrder
  <2>4. shape[i] \in {<<"MEDIA", "OFFLINE">>, <<"SIDECAR", "OFFLINE">>, <<"MEDIA", "ONLINE">>}
    BY DrainAssumption DEF DrainInv, TypeOK
  <2>5. shape[i][1] = "MEDIA" => rows[i].nodeCreated = "SUBMITTED"
    BY <2>1, <2>2, <2>4 DEF TerminalSQL, Failed, Row, DrainInv, RowOrder
  <2> QED
    BY <2>3, <2>5 DEF DrainInv, ArchivedIsVerified, SubmittedWasAccepted
<1>3. CollectedIsSafe'
  BY <1>1, <1>2 DEF Collect, DrainInv, CollectedIsSafe, fileVars, serverVars
<1>4. TypeOK'
  BY <1>1 DEF Collect, DrainInv, TypeOK, fileVars, serverVars
<1>5. Unknown' /\ Tier3Recorded'
  BY <1>1 DEF Collect, DrainInv, Unknown, Tier3Recorded, fileVars, serverVars
<1>6. RowOrder'
  BY <1>1 DEF Collect, DrainInv, RowOrder
<1>7. ArchivedIsVerified' /\ SubmittedWasAccepted'
  BY <1>1 DEF Collect, DrainInv, ArchivedIsVerified, SubmittedWasAccepted, fileVars, serverVars
<1>8. Answers' /\ SnapshotFresh'
  BY <1>1 DEF Collect, DrainInv, Answers, SnapshotFresh, serverVars
<1> QED
  BY <1>3, <1>4, <1>5, <1>6, <1>7, <1>8 DEF DrainInv

LEMMA InvEndSweep ==
    ASSUME DrainInv, EndSweep
    PROVE  DrainInv'
BY InvPassOver DEF EndSweep, DrainInv, TypeOK

LEMMA InvAbortPass ==
    ASSUME DrainInv, AbortPass
    PROVE  DrainInv'
<1>1. faults' \in Nat /\ lastGC' \in Nat \cup {Never}
  BY DEF AbortPass, Fault, DrainInv, TypeOK
<1> QED
  BY <1>1, InvPassOver DEF AbortPass, DrainInv, TypeOK

LEMMA InvCrash ==
    ASSUME DrainInv, Crash
    PROVE  DrainInv'
<1>1. faults' \in Nat /\ lastGC' \in Nat \cup {Never}
  BY DEF Crash, Fault, DrainInv, TypeOK
<1>2. /\ worker' \in [Ids -> {"new", "inserted", "placed", "accepted", "refused", "end"}]
      /\ \A j \in Ids : worker[j] = "new" <=> worker'[j] = "new"
      /\ \A j \in Ids : worker'[j] \in {worker[j], "end"}
  BY DEF Crash, DrainInv, TypeOK
<1> QED
  BY <1>1, <1>2, InvPassOver DEF Crash

-----------------------------------------------------------------------------
(* The invariant is preserved: people and time *)

LEMMA InvResumeLocalCopy ==
    ASSUME DrainInv, NEW i \in Ids, ResumeLocalCopy(i)
    PROVE  DrainInv'
<1>1. /\ Live' = Live
      /\ Unknown' /\ RowOrder' /\ Tier3Recorded' /\ ArchivedIsVerified'
      /\ SubmittedWasAccepted' /\ CollectedIsSafe'
  BY StillKeepsRows DEF ResumeLocalCopy
<1>2. TypeOK'
  BY DEF ResumeLocalCopy, DrainInv, TypeOK, serverVars, passVars, Meddle
<1>3. Answers' /\ SnapshotFresh'
  BY <1>1 DEF ResumeLocalCopy, DrainInv, Answers, SnapshotFresh, First, serverVars, passVars
<1> QED
  BY <1>1, <1>2, <1>3 DEF DrainInv

LEMMA InvUserTouchesLocal ==
    ASSUME DrainInv, NEW i \in Ids, UserTouchesLocal(i)
    PROVE  DrainInv'
<1>1. /\ Live' = Live
      /\ Unknown' /\ RowOrder' /\ Tier3Recorded' /\ ArchivedIsVerified'
      /\ SubmittedWasAccepted' /\ CollectedIsSafe'
  BY StillKeepsRows DEF UserTouchesLocal
<1>2. TypeOK'
  BY DEF UserTouchesLocal, DrainInv, TypeOK, serverVars, passVars, Meddle
<1>3. Answers' /\ SnapshotFresh'
  BY <1>1 DEF UserTouchesLocal, DrainInv, Answers, SnapshotFresh, First, serverVars, passVars
<1> QED
  BY <1>1, <1>2, <1>3 DEF DrainInv

LEMMA InvOperatorRestoresLocal ==
    ASSUME DrainInv, NEW i \in Ids, OperatorRestoresLocal(i)
    PROVE  DrainInv'
<1>1. /\ Live' = Live
      /\ Unknown' /\ RowOrder' /\ Tier3Recorded' /\ ArchivedIsVerified'
      /\ SubmittedWasAccepted' /\ CollectedIsSafe'
  BY StillKeepsRows DEF OperatorRestoresLocal
<1>2. TypeOK'
  BY DEF OperatorRestoresLocal, DrainInv, TypeOK, serverVars, passVars, Meddle
<1>3. Answers' /\ SnapshotFresh'
  BY <1>1 DEF OperatorRestoresLocal, DrainInv, Answers, SnapshotFresh, First, serverVars, passVars
<1> QED
  BY <1>1, <1>2, <1>3 DEF DrainInv

\* Others put files only at free archive paths and take away none that holds
\* the queued bytes.
LEMMA InvOthersFiles ==
    ASSUME DrainInv, NEW i \in Ids, FileAppears(i) \/ OperatorMovesAside(i)
    PROVE  DrainInv'
<1>1. /\ Live' = Live /\ archive' \in [Ids -> {"none", "good", "bad", "foreign", "twin"}]
      /\ \A j \in Ids : archive[j] = "good" => archive'[j] = "good"
      /\ pc = "placed" => \A j \in Ids : archive[j] \in {"good", "bad"} => archive'[j] = archive[j]
      /\ meddle' \in Nat
      /\ UNCHANGED <<now, shape, rows, local, serverVars, worker, passVars, faults>>
  BY DEF FileAppears, OperatorMovesAside, Meddle, DrainInv, TypeOK, Live
<1>2. Unknown' /\ CollectedIsSafe' /\ Tier3Recorded'
  BY <1>1 DEF DrainInv, Unknown, CollectedIsSafe, Tier3Recorded, serverVars
<1>3. RowOrder'
  BY <1>1 DEF DrainInv, RowOrder
<1>4. ArchivedIsVerified' /\ SubmittedWasAccepted'
  BY <1>1 DEF DrainInv, TypeOK, ArchivedIsVerified, SubmittedWasAccepted, serverVars, Live
<1>5. TypeOK'
  BY <1>1 DEF DrainInv, TypeOK, serverVars, passVars
<1>6. Answers' /\ SnapshotFresh'
  BY <1>1 DEF DrainInv, Answers, SnapshotFresh, First, serverVars, passVars
<1> QED
  BY <1>2, <1>3, <1>4, <1>5, <1>6 DEF DrainInv

\* The three resets one after the other, field by field.
LEMMA ResetFields ==
    ASSUME NEW r \in Row
    PROVE  /\ resetFailed(r).kind = r.kind
           /\ resetFailed(r).origin = r.origin
           /\ resetFailed(r).nodeCreated = r.nodeCreated
           /\ resetFailed(r).submittedAt = r.submittedAt
           /\ resetFailed(r).archiveCopy = IF r.archiveCopy = "FAILED" THEN "PENDING" ELSE r.archiveCopy
           /\ resetFailed(r).rebase = IF r.rebase = "FAILED" THEN "PENDING" ELSE r.rebase
           /\ resetFailed(r).upload = IF r.upload = "FAILED" THEN "PENDING" ELSE r.upload
<1> DEFINE a == resetArchiveCopy(r)
           b == resetRebase(a)
<1>1. a \in Row
  BY ResetType
<1>2. b \in Row
  BY <1>1, ResetType
<1>3. /\ a.kind = r.kind /\ a.origin = r.origin /\ a.nodeCreated = r.nodeCreated
      /\ a.rebase = r.rebase /\ a.upload = r.upload /\ a.submittedAt = r.submittedAt
      /\ a.archiveCopy = IF r.archiveCopy = "FAILED" THEN "PENDING" ELSE r.archiveCopy
  BY DEF resetArchiveCopy, Row
<1> HIDE DEF a
<1>4. /\ b.kind = a.kind /\ b.origin = a.origin /\ b.nodeCreated = a.nodeCreated
      /\ b.archiveCopy = a.archiveCopy /\ b.upload = a.upload /\ b.submittedAt = a.submittedAt
      /\ b.rebase = IF a.rebase = "FAILED" THEN "PENDING" ELSE a.rebase
  BY <1>1 DEF resetRebase, Row
<1> HIDE DEF b
<1>5. /\ resetUpload(b).kind = b.kind /\ resetUpload(b).origin = b.origin
      /\ resetUpload(b).nodeCreated = b.nodeCreated /\ resetUpload(b).submittedAt = b.submittedAt
      /\ resetUpload(b).archiveCopy = b.archiveCopy /\ resetUpload(b).rebase = b.rebase
      /\ resetUpload(b).upload = IF b.upload = "FAILED" THEN "PENDING" ELSE b.upload
  BY <1>2 DEF resetUpload, Row
<1>6. resetFailed(r) = resetUpload(b)
  BY DEF resetFailed, a, b
<1> QED
  BY <1>3, <1>4, <1>5, <1>6

\* A reset leaves what is not FAILED alone.
LEMMA InvResetFailed ==
    ASSUME DrainInv, NEW which \in SUBSET Ids, ResetFailed(which)
    PROVE  DrainInv'
<1>0. USE DEF Live
<1>2. /\ Live' = Live /\ rows' \in [Live -> Row] /\ Live \subseteq Ids
      /\ \A j \in Live : rows'[j] \in {rows[j], resetFailed(rows[j])} /\ rows[j] \in Row
  BY RowType DEF ResetFailed, DrainInv, TypeOK
<1>3. /\ UNCHANGED <<now, shape, fileVars, serverVars, worker, passVars, faults>> /\ meddle' \in Nat
  BY DEF ResetFailed, Meddle, DrainInv, TypeOK
<1>4. \A j \in Live :
        /\ rows'[j].kind = rows[j].kind /\ rows'[j].origin = rows[j].origin
        /\ rows'[j].nodeCreated = rows[j].nodeCreated
        /\ \/ rows'[j].archiveCopy = rows[j].archiveCopy
           \/ rows[j].archiveCopy = "FAILED" /\ rows'[j].archiveCopy = "PENDING"
        /\ \/ rows'[j].rebase = rows[j].rebase
           \/ rows[j].rebase = "FAILED" /\ rows'[j].rebase = "PENDING"
        /\ \/ rows'[j].upload = rows[j].upload
           \/ rows[j].upload = "FAILED" /\ rows'[j].upload = "PENDING"
  <2> TAKE j \in Live
  <2>1. CASE rows'[j] = rows[j]
    BY <2>1
  <2>2. CASE rows'[j] = resetFailed(rows[j])
    <3>1. rows[j] \in Row
      BY <1>2
    <3> QED
      BY <2>2, <3>1, ResetFields
  <2> QED
    BY <1>2, <2>1, <2>2
<1>5. RowOrder'
  BY <1>2, <1>3, <1>4 DEF DrainInv, RowOrder
<1>6. TypeOK'
  BY <1>2, <1>3 DEF DrainInv, TypeOK, fileVars, serverVars, passVars
<1>7. Unknown' /\ CollectedIsSafe'
  BY <1>2, <1>3 DEF DrainInv, Unknown, CollectedIsSafe, fileVars, serverVars
<1>8. Tier3Recorded' /\ ArchivedIsVerified' /\ SubmittedWasAccepted'
  BY <1>2, <1>3, <1>4 DEF DrainInv, Tier3Recorded, ArchivedIsVerified, SubmittedWasAccepted, fileVars, serverVars
<1>9. Answers'
  BY <1>3 DEF DrainInv, Answers, First, fileVars, serverVars, passVars
<1>10. SnapshotFresh'
  BY <1>2, <1>3, <1>4 DEF DrainInv, SnapshotFresh, passVars
<1> QED
  BY <1>5, <1>6, <1>7, <1>8, <1>9, <1>10 DEF DrainInv

LEMMA InvTick ==
    ASSUME DrainInv, Tick
    PROVE  DrainInv'
<1>1. /\ Live' = Live
      /\ Unknown' /\ RowOrder' /\ Tier3Recorded' /\ ArchivedIsVerified'
      /\ SubmittedWasAccepted' /\ CollectedIsSafe'
  BY StillKeepsRows DEF Tick, fileVars
<1>2. TypeOK'
  BY DEF Tick, DrainInv, TypeOK, fileVars, serverVars, passVars
<1>3. Answers' /\ SnapshotFresh'
  BY <1>1 DEF Tick, DrainInv, Answers, SnapshotFresh, First, fileVars, serverVars, passVars
<1> QED
  BY <1>1, <1>2, <1>3 DEF DrainInv

-----------------------------------------------------------------------------
(* The theorems *)

LEMMA InvInit == Init => DrainInv
<1> SUFFICES ASSUME Init PROVE DrainInv
  OBVIOUS
<1>1. Live = {} /\ DOMAIN snap = {}
  BY DEF Init, Live
<1>2. TypeOK
  BY DrainAssumption DEF Init, TypeOK, Never
<1>3. Unknown /\ RowOrder /\ Answers /\ SnapshotFresh
  BY <1>1 DEF Init, Unknown, RowOrder, Answers, SnapshotFresh
<1>4. Tier3Recorded /\ ArchivedIsVerified /\ SubmittedWasAccepted /\ CollectedIsSafe
  BY <1>1 DEF Init, Tier3Recorded, ArchivedIsVerified, SubmittedWasAccepted, CollectedIsSafe
<1> QED
  BY <1>2, <1>3, <1>4 DEF DrainInv

LEMMA InvStep == DrainInv /\ [Next]_vars => DrainInv'
<1> SUFFICES ASSUME DrainInv, [Next]_vars PROVE DrainInv'
  OBVIOUS
<1>1. ASSUME NEW i \in Ids, Insert(i) \/ IngestStep(i) \/ ServerApply(i) PROVE DrainInv'
  BY <1>1, InvInsert, InvPlaceLocal, InvInlinePost, InvInlineMark, InvServerApply DEF IngestStep
<1>2. CASE PassStep
  BY <1>2, InvStartPass, InvStartCopies, InvStartRebases, InvStartSweep, InvEndSweep, InvAbortPass,
     InvDrainPost, InvDrainPostMark, InvCopyExamine, InvCopyPlace, InvCopyVerify, InvCopyMark,
     InvDrainRebase, InvDrainRebaseMark, InvCollect DEF PassStep
<1>3. CASE PeopleStep
  BY <1>3, InvResumeLocalCopy, InvUserTouchesLocal, InvOthersFiles, InvOperatorRestoresLocal,
     InvResetFailed DEF PeopleStep
<1>4. CASE UNCHANGED vars
  <2>1. /\ UNCHANGED <<now, nowT, shape, rows, local, archive, acceptedAt, node, worker, pc, snap, todo, res>>
        /\ UNCHANGED <<lastGC, faults, meddle>>
    BY <1>4 DEF vars, fileVars, serverVars, passVars
  <2>2. /\ Live' = Live
        /\ Unknown' /\ RowOrder' /\ Tier3Recorded' /\ ArchivedIsVerified'
        /\ SubmittedWasAccepted' /\ CollectedIsSafe'
    BY <2>1, StillKeepsRows DEF serverVars
  <2>3. TypeOK'
    BY <2>1 DEF DrainInv, TypeOK
  <2>4. Answers' /\ SnapshotFresh'
    BY <2>1, <2>2 DEF DrainInv, Answers, SnapshotFresh, First
  <2> QED
    BY <2>2, <2>3, <2>4 DEF DrainInv
<1> QED
  BY <1>1, <1>2, <1>3, <1>4, InvCrash, InvTick DEF Next

\* DrainInv is an invariant of the specification.
THEOREM DrainInvariant == Spec => []DrainInv
BY InvInit, InvStep, PTL DEF Spec

\* An archive copy recorded DONE (Drain's phase 2) is the queued bytes at the
\* archive path.
THEOREM ArchiveSafety == Spec => []ArchivedIsVerified
<1>1. DrainInv => ArchivedIsVerified
  BY DEF DrainInv
<1> QED
  BY <1>1, DrainInvariant, PTL

\* The server has a node at a Tier-3 path (Drain's phase 3) only if the bytes
\* are there.
THEOREM Tier3Safety == Spec => []Tier3IsArchived
<1>1. DrainInv => Tier3IsArchived
  BY DEF DrainInv, Tier3Recorded, Tier3IsArchived
<1> QED
  BY <1>1, DrainInvariant, PTL

\* A row recorded SUBMITTED (inline or by Drain's phase 1) was accepted.
THEOREM SubmitSafety == Spec => []SubmittedWasAccepted
<1>1. DrainInv => SubmittedWasAccepted
  BY DEF DrainInv
<1> QED
  BY <1>1, DrainInvariant, PTL

\* CollectGarbage forgets only what is archived and registered.
THEOREM SweepSafety == Spec => []CollectedIsSafe
<1>1. DrainInv => CollectedIsSafe
  BY DEF DrainInv
<1> QED
  BY <1>1, DrainInvariant, PTL

\* Store.Counts puts every row Drain or ingest can produce in one bucket.
THEOREM BucketSafety == Spec => []Bucketed
<1>1. ASSUME NEW r \in Row, r.archiveCopy # "SKIPPED", r.upload = "SKIPPED",
             r.rebase \in {"DONE", "FAILED"} => r.archiveCopy = "DONE" /\ r.nodeCreated = "SUBMITTED"
      PROVE  \/ AwaitingUpload(r) /\ ~AwaitingRebase(r) /\ ~Failed(r) /\ ~CountedDone(r)
             \/ ~AwaitingUpload(r) /\ AwaitingRebase(r) /\ ~Failed(r) /\ ~CountedDone(r)
             \/ ~AwaitingUpload(r) /\ ~AwaitingRebase(r) /\ Failed(r) /\ ~CountedDone(r)
             \/ ~AwaitingUpload(r) /\ ~AwaitingRebase(r) /\ ~Failed(r) /\ CountedDone(r)
  BY <1>1 DEF AwaitingUpload, AwaitingRebase, Failed, CountedDone, TerminalSQL, Row
<1>2. DrainInv => Bucketed
  <2> SUFFICES ASSUME DrainInv, NEW i \in Live
               PROVE  LET bucket == <<AwaitingUpload(rows[i]), AwaitingRebase(rows[i]),
                                      Failed(rows[i]), CountedDone(rows[i])>>
                      IN  \E b \in 1..4 : \A c \in 1..4 : bucket[c] <=> c = b
    BY DEF Bucketed
  <2>1. rows[i] \in Row
    BY DEF DrainInv, TypeOK, Live
  <2>2. /\ rows[i].archiveCopy # "SKIPPED" /\ rows[i].upload = "SKIPPED"
        /\ rows[i].rebase \in {"DONE", "FAILED"} =>
              rows[i].archiveCopy = "DONE" /\ rows[i].nodeCreated = "SUBMITTED"
    BY DEF DrainInv, RowOrder
  <2> QED
    BY <1>1, <2>1, <2>2
<1> QED
  BY <1>2, DrainInvariant, PTL

-----------------------------------------------------------------------------
(* Files of others *)

\* CopyToArchive neither overwrites nor removes a file it did not write.
THEOREM ForeignSafety == Spec => ForeignUntouched
<1> DEFINE A == \A i \in Ids : archive[i] \in {"foreign", "twin"} =>
                    archive'[i] = archive[i] \/ OperatorMovesAside(i)
<1>1. ASSUME DrainInv, [Next]_vars PROVE A
  <2>0. archive \in [Ids -> {"none", "good", "bad", "foreign", "twin"}]
    BY <1>1 DEF DrainInv, TypeOK
  <2>1. CASE archive' = archive
    BY <2>1
  <2>2. ASSUME NEW i \in Ids, Insert(i) PROVE A
    BY <1>1, <2>0, <2>2 DEF Insert, DrainInv, TypeOK
  <2>3. ASSUME NEW i \in Ids, CopyPlace(i) PROVE A
    BY <2>0, <2>3 DEF CopyPlace
  <2>4. ASSUME NEW i \in Ids, CopyVerify(i) PROVE A
    BY <2>0, <2>4 DEF CopyVerify
  <2>5. ASSUME NEW i \in Ids, FileAppears(i) PROVE A
    BY <2>0, <2>5 DEF FileAppears
  <2>6. ASSUME NEW i \in Ids, OperatorMovesAside(i) PROVE A
    <3>1. \A j \in Ids : j # i => archive'[j] = archive[j]
      BY <2>0, <2>6 DEF OperatorMovesAside
    <3> QED
      BY <2>6, <3>1
  <2>7. ASSUME NEW i \in Ids, Insert(i) \/ IngestStep(i) \/ ServerApply(i) PROVE A
    <3>1. CASE IngestStep(i)
      BY <2>1, <3>1 DEF IngestStep, PlaceLocal, InlinePost, InlineMark, fileVars
    <3>2. CASE ServerApply(i)
      BY <2>1, <3>2 DEF ServerApply, fileVars
    <3> QED
      BY <2>2, <2>7, <3>1, <3>2
  <2>8. CASE PassStep
    <3>1. CASE StartPass \/ StartCopies \/ StartRebases \/ StartSweep \/ EndSweep \/ AbortPass
      BY <2>1, <3>1 DEF StartPass, StartCopies, StartRebases, StartSweep, EndSweep, AbortPass, fileVars
    <3>2. ASSUME NEW i \in Ids, DrainPost(i) \/ DrainPostMark(i) \/ CopyExamine(i) \/ CopyMark(i)
                                 \/ DrainRebase(i) \/ DrainRebaseMark(i) \/ Collect(i)
          PROVE  A
      BY <2>1, <3>2 DEF DrainPost, DrainPostMark, CopyExamine, CopyMark, DrainRebase, DrainRebaseMark,
                        Collect, Mark, fileVars
    <3> QED
      BY <2>3, <2>4, <2>8, <3>1, <3>2 DEF PassStep
  <2>9. CASE PeopleStep
    <3>1. ASSUME NEW i \in Ids, ResumeLocalCopy(i) \/ UserTouchesLocal(i) \/ OperatorRestoresLocal(i)
          PROVE  A
      BY <2>1, <3>1 DEF ResumeLocalCopy, UserTouchesLocal, OperatorRestoresLocal
    <3>2. ASSUME NEW which \in SUBSET Ids, ResetFailed(which) PROVE A
      BY <2>1, <3>2 DEF ResetFailed, fileVars
    <3> QED
      BY <2>5, <2>6, <2>9, <3>1, <3>2 DEF PeopleStep
  <2>10. CASE Crash \/ Tick \/ UNCHANGED vars
    BY <2>1, <2>10 DEF Crash, Tick, vars, fileVars
  <2> QED
    BY <1>1, <2>7, <2>8, <2>9, <2>10 DEF Next
<1>2. DrainInv /\ [Next]_vars => [A]_vars
  BY <1>1
<1> QED
  BY <1>2, DrainInvariant, PTL DEF Spec, ForeignUntouched

-----------------------------------------------------------------------------
(* Rows only move forward *)

\* Whatever step is taken, a row that survives it is either reset by an
\* operator or moved forward (or left as it is).
LEMMA RowsForward ==
    ASSUME DrainInv, [Next]_vars, NEW j \in Live, j \in Live'
    PROVE  \/ Forward(j, rows'[j])
           \/ \E which \in SUBSET Ids : ResetFailed(which)
<1>0. Live \subseteq Ids /\ rows[j] \in Row /\ rows \in [Live -> Row]
  BY DEF DrainInv, TypeOK, Live
<1>1. ASSUME rows'[j] = rows[j] PROVE Forward(j, rows'[j])
  BY <1>0, <1>1 DEF Forward
<1>2. ASSUME NEW i \in Live, NEW q, Forward(i, q), rows' = [rows EXCEPT ![i] = q] \/ rows' = rows
      PROVE  Forward(j, rows'[j])
  <2>1. CASE rows' = rows
    BY <1>1, <2>1
  <2>2. CASE i # j /\ rows' = [rows EXCEPT ![i] = q]
    BY <1>0, <1>1, <2>2
  <2>3. CASE i = j /\ rows' = [rows EXCEPT ![i] = q]
    <3>1. rows'[j] = q
      BY <1>0, <2>3
    <3> QED
      BY <1>2, <2>3, <3>1
  <2> QED
    BY <1>2, <2>1, <2>2, <2>3
<1>3. ASSUME NEW i \in Ids, Insert(i) PROVE Forward(j, rows'[j])
  <2>1. i # j
    BY <1>3 DEF Insert, DrainInv, Unknown
  <2>2. rows'[j] = rows[j]
    BY <1>3, <2>1 DEF Insert
  <2> QED
    BY <1>1, <2>2
<1>4. ASSUME NEW i \in Ids, IngestStep(i) \/ ServerApply(i) PROVE Forward(j, rows'[j])
  <2>1. CASE InlineMark(i) /\ i \in Live
    BY <1>2, <2>1, InlineForward
  <2>2. CASE InlineMark(i) /\ i \notin Live
    <3>1. rows' = rows
      BY <1>0, <2>2 DEF InlineMark
    <3> QED
      BY <1>1, <3>1
  <2>3. CASE PlaceLocal(i) \/ InlinePost(i) \/ ServerApply(i)
    <3>1. rows' = rows
      BY <2>3 DEF PlaceLocal, InlinePost, ServerApply
    <3> QED
      BY <1>1, <3>1
  <2> QED
    BY <1>4, <2>1, <2>2, <2>3 DEF IngestStep
<1>5. ASSUME NEW i \in Ids, DrainPostMark(i) \/ CopyMark(i) \/ DrainRebaseMark(i)
      PROVE  Forward(j, rows'[j])
  <2>1. i \in Live
    BY <1>5 DEF DrainPostMark, CopyMark, DrainRebaseMark, First, DrainInv, SnapshotFresh
  <2>2. \E q : Forward(i, q) /\ (rows' = [rows EXCEPT ![i] = q] \/ rows' = rows)
    BY <1>5, PostMarkForward, CopyMarkForward, RebaseMarkForward DEF Mark
  <2> QED
    BY <1>2, <2>1, <2>2
<1>6. CASE PassStep
  <2>1. CASE StartPass \/ StartCopies \/ StartRebases \/ StartSweep \/ EndSweep \/ AbortPass
    <3>1. rows' = rows
      BY <2>1 DEF StartPass, StartCopies, StartRebases, StartSweep, EndSweep, AbortPass
    <3> QED
      BY <1>1, <3>1
  <2>2. ASSUME NEW i \in Ids, \/ DrainPost(i) \/ CopyExamine(i) \/ CopyPlace(i) \/ CopyVerify(i)
                              \/ DrainRebase(i)
        PROVE  Forward(j, rows'[j])
    <3>1. rows' = rows
      BY <2>2 DEF DrainPost, CopyExamine, CopyPlace, CopyVerify, DrainRebase
    <3> QED
      BY <1>1, <3>1
  <2>3. ASSUME NEW i \in Ids, Collect(i) PROVE Forward(j, rows'[j])
    <3>1. rows'[j] = rows[j]
      BY <1>0, <2>3 DEF Collect, Live
    <3> QED
      BY <1>1, <3>1
  <2> QED
    BY <1>5, <1>6, <2>1, <2>2, <2>3 DEF PassStep
<1>7. CASE PeopleStep
  <2>1. ASSUME NEW i \in Ids, \/ ResumeLocalCopy(i) \/ UserTouchesLocal(i) \/ FileAppears(i)
                              \/ OperatorMovesAside(i) \/ OperatorRestoresLocal(i)
        PROVE  Forward(j, rows'[j])
    <3>1. rows' = rows
      BY <2>1 DEF ResumeLocalCopy, UserTouchesLocal, FileAppears, OperatorMovesAside, OperatorRestoresLocal
    <3> QED
      BY <1>1, <3>1
  <2>2. Ids \in SUBSET Ids /\ \A i \in Ids : {i} \in SUBSET Ids
    OBVIOUS
  <2> QED
    BY <1>7, <2>1, <2>2 DEF PeopleStep
<1>8. CASE Crash \/ Tick \/ UNCHANGED vars
  <2>1. rows' = rows
    BY <1>8 DEF Crash, Tick, vars
  <2> QED
    BY <1>1, <2>1
<1> QED
  BY <1>3, <1>4, <1>6, <1>7, <1>8 DEF Next

\* What a reset does to one row.
LEMMA ResetRow ==
    ASSUME DrainInv, NEW which \in SUBSET Ids, ResetFailed(which), NEW j \in Live
    PROVE  /\ rows'[j] = rows[j] \/ rows'[j] = resetFailed(rows[j])
           /\ rows[j] \in Row
           /\ Live' = Live
           /\ meddle' < meddle
           /\ UNCHANGED <<now, pc, nowT, todo, acceptedAt, node>>
BY DEF ResetFailed, Meddle, DrainInv, TypeOK, Live, serverVars, passVars

\* Done stays done and failed stays failed until it is reset, although Drain
\* writes from snapshots taken at the start of the pass.
THEOREM RegressionSafety == Spec => NoRegression
<1> DEFINE A == \A i \in Live \cap Live' :
                    /\ rows[i].nodeCreated = "SUBMITTED" => rows'[i].nodeCreated = "SUBMITTED"
                    /\ rows[i].archiveCopy = "DONE" => rows'[i].archiveCopy = "DONE"
                    /\ rows[i].rebase = "DONE" => rows'[i].rebase = "DONE"
                    /\ Failed(rows[i]) => Failed(rows'[i]) \/ meddle' < meddle
<1>1. ASSUME DrainInv, [Next]_vars PROVE A
  <2> SUFFICES ASSUME NEW i \in Live, i \in Live'
               PROVE  /\ rows[i].nodeCreated = "SUBMITTED" => rows'[i].nodeCreated = "SUBMITTED"
                      /\ rows[i].archiveCopy = "DONE" => rows'[i].archiveCopy = "DONE"
                      /\ rows[i].rebase = "DONE" => rows'[i].rebase = "DONE"
                      /\ Failed(rows[i]) => Failed(rows'[i]) \/ meddle' < meddle
    OBVIOUS
  <2>1. CASE Forward(i, rows'[i])
    BY <2>1 DEF Forward, Failed
  <2>2. ASSUME NEW which \in SUBSET Ids, ResetFailed(which)
        PROVE  /\ rows[i].nodeCreated = "SUBMITTED" => rows'[i].nodeCreated = "SUBMITTED"
               /\ rows[i].archiveCopy = "DONE" => rows'[i].archiveCopy = "DONE"
               /\ rows[i].rebase = "DONE" => rows'[i].rebase = "DONE"
               /\ meddle' < meddle
    <3>1. /\ rows'[i] = rows[i] \/ rows'[i] = resetFailed(rows[i])
          /\ rows[i] \in Row /\ meddle' < meddle
      BY <1>1, <2>2, ResetRow
    <3>2. CASE rows'[i] = rows[i]
      BY <3>1, <3>2
    <3>3. CASE rows'[i] = resetFailed(rows[i])
      BY <3>1, <3>3, ResetFields
    <3> QED
      BY <3>1, <3>2, <3>3
  <2> QED
    BY <1>1, <2>1, <2>2, RowsForward
<1>2. DrainInv /\ [Next]_vars => [A]_vars
  BY <1>1
<1> QED
  BY <1>2, DrainInvariant, PTL DEF Spec, NoRegression

-----------------------------------------------------------------------------
(* The dwell *)

\* Only Insert adds a row.
LEMMA NoInsertNoRow ==
    ASSUME DrainInv, [Next]_vars, ~ \E i \in Ids : Insert(i)
    PROVE  Live' \subseteq Live
<1>0. rows \in [Live -> Row] /\ Live \subseteq Ids
  BY DEF DrainInv, TypeOK, Live
<1>1. ASSUME rows' = rows PROVE Live' \subseteq Live
  BY <1>1 DEF Live
<1>2. ASSUME NEW i \in Ids, IngestStep(i) \/ ServerApply(i) PROVE Live' \subseteq Live
  BY <1>2 DEF IngestStep, PlaceLocal, InlinePost, InlineMark, ServerApply, Live
<1>3. CASE PassStep
  <2>1. CASE StartPass \/ StartCopies \/ StartRebases \/ StartSweep \/ EndSweep \/ AbortPass
    BY <2>1 DEF StartPass, StartCopies, StartRebases, StartSweep, EndSweep, AbortPass, Live
  <2>2. ASSUME NEW i \in Ids, \/ DrainPost(i) \/ CopyExamine(i) \/ CopyPlace(i) \/ CopyVerify(i)
                              \/ DrainRebase(i)
        PROVE  Live' \subseteq Live
    BY <2>2 DEF DrainPost, CopyExamine, CopyPlace, CopyVerify, DrainRebase, Live
  <2>3. ASSUME NEW i \in Ids, DrainPostMark(i) \/ CopyMark(i) \/ DrainRebaseMark(i)
        PROVE  Live' \subseteq Live
    <3>1. \E q : rows' = [rows EXCEPT ![i] = q] \/ rows' = rows
      BY <2>3, PostMarkForward, CopyMarkForward, RebaseMarkForward DEF Mark
    <3> QED
      BY <3>1 DEF Live
  <2>4. ASSUME NEW i \in Ids, Collect(i) PROVE Live' \subseteq Live
    BY <2>4 DEF Collect, Live
  <2> QED
    BY <1>3, <2>1, <2>2, <2>3, <2>4 DEF PassStep
<1>4. CASE PeopleStep
  <2>1. ASSUME NEW i \in Ids, \/ ResumeLocalCopy(i) \/ UserTouchesLocal(i) \/ FileAppears(i)
                              \/ OperatorMovesAside(i) \/ OperatorRestoresLocal(i)
        PROVE  Live' \subseteq Live
    BY <2>1 DEF ResumeLocalCopy, UserTouchesLocal, FileAppears, OperatorMovesAside,
                OperatorRestoresLocal, Live
  <2>2. ASSUME NEW which \in SUBSET Ids, ResetFailed(which) PROVE Live' \subseteq Live
    BY <2>2 DEF ResetFailed, Live
  <2> QED
    BY <1>4, <2>1, <2>2 DEF PeopleStep
<1>5. CASE Crash \/ Tick \/ UNCHANGED vars
  BY <1>5 DEF Crash, Tick, vars, Live
<1> QED
  BY <1>2, <1>3, <1>4, <1>5 DEF Next

\* What the row updates of a step do to the submission times.
LEMMA SubmittedStep ==
    ASSUME DrainInv, InTime, SubmittedInPass, [Next]_vars,
           \A i \in Ids : acceptedAt[i] # Never => acceptedAt'[i] = acceptedAt[i]
    PROVE  SubmittedInPass'
<1> SUFFICES ASSUME NEW j \in Live', rows'[j].nodeCreated = "SUBMITTED"
             PROVE  acceptedAt'[j] <= rows'[j].submittedAt + MaxPass
  BY DEF SubmittedInPass
<1>0. /\ Live \subseteq Ids /\ now \in Nat /\ nowT \in Nat /\ MaxPass \in Nat
      /\ \A i \in Ids : acceptedAt[i] \in Nat \cup {Never}
      /\ \A i \in Live : rows[i] \in Row
  BY DrainAssumption DEF DrainInv, TypeOK, Live
<1>1. CASE j \in Live
  <2>1. acceptedAt[j] \in Nat \cup {Never} /\ rows[j].submittedAt \in Nat
    BY <1>0, <1>1 DEF Row
  <2>2. rows[j].nodeCreated = "SUBMITTED" =>
          acceptedAt'[j] = acceptedAt[j] /\ acceptedAt[j] <= rows[j].submittedAt + MaxPass
    BY <1>0, <1>1 DEF SubmittedInPass, DrainInv, SubmittedWasAccepted
  <2>3. CASE Forward(j, rows'[j])
    BY <1>0, <1>1, <2>1, <2>2, <2>3 DEF Forward, InTime
  <2>4. ASSUME NEW which \in SUBSET Ids, ResetFailed(which)
        PROVE  acceptedAt'[j] <= rows'[j].submittedAt + MaxPass
    <3>1. rows'[j] = rows[j] \/ rows'[j] = resetFailed(rows[j])
      BY <1>1, <2>4, ResetRow
    <3>2. /\ resetFailed(rows[j]).nodeCreated = rows[j].nodeCreated
          /\ resetFailed(rows[j]).submittedAt = rows[j].submittedAt
      BY <1>0, <1>1, ResetFields
    <3> QED
      BY <2>2, <3>1, <3>2
  <2> QED
    BY <1>1, <2>3, <2>4, RowsForward
<1>2. CASE j \notin Live
  <2>1. PICK i \in Ids : Insert(i)
    <3>1. ASSUME ~ \E i \in Ids : Insert(i) PROVE Live' \subseteq Live
      BY <3>1, NoInsertNoRow
    <3> QED
      BY <1>2, <3>1
  <2>2. rows'[j] = InsertPending(shape[j][1], shape[j][2], now)
    BY <1>2, <2>1 DEF Insert, Live
  <2>3. rows'[j].nodeCreated # "SUBMITTED"
    BY <2>2 DEF InsertPending
  <2> QED
    BY <2>3
<1> QED
  BY <1>1, <1>2

\* What DwellInv says besides the submission times, and what a step has to
\* keep for them.
DwellKept ==
    /\ InTime' /\ AppliedBeforeRebase' /\ NoBareNode'
    /\ \A i \in Ids : acceptedAt[i] # Never => acceptedAt'[i] = acceptedAt[i]

\* A step that leaves clock and server alone and does not begin phase 3.
LEMMA QuietKeeps ==
    ASSUME DwellInv, UNCHANGED <<now, acceptedAt, node>>,
           pc' = "idle" \/ (pc # "idle" /\ nowT' = nowT),
           pc' \in {"rebasing", "answered"} => pc \in {"rebasing", "answered"} /\ todo' \subseteq todo
    PROVE  DwellKept
BY DEF DwellInv, DwellKept, InTime, AppliedBeforeRebase, NoBareNode, Unapplied

\* The event is accepted now, or was before.
LEMMA PostKeeps ==
    ASSUME DrainInv, DwellInv, NEW k \in Ids, NEW a \in {"ok", "err"}, PostNodeCreated(k, a),
           UNCHANGED <<now, nowT, node, todo>>, pc' = pc \/ (pc = "creating" /\ pc' = "posted")
    PROVE  DwellKept
<1>1. /\ now \in Nat /\ ServerLag \in Nat /\ acceptedAt \in [Ids -> Nat \cup {Never}]
  BY DrainAssumption DEF DrainInv, TypeOK
<1>2. \A i \in Ids : \/ acceptedAt'[i] = acceptedAt[i]
                     \/ acceptedAt[i] = Never /\ acceptedAt'[i] = now
  BY <1>1 DEF PostNodeCreated
<1>3. InTime'
  BY <1>1, <1>2 DEF DwellInv, InTime, Unapplied
<1> QED
  BY <1>2, <1>3 DEF DwellInv, DwellKept, AppliedBeforeRebase, NoBareNode

\* StartRebases: what is past its dwell by the pass's clock was accepted more
\* than the server's lag ago, so the server has applied it.
LEMMA StartRebasesKeeps ==
    ASSUME MaxPass + ServerLag < Dwell, DrainInv, DwellInv, StartRebases
    PROVE  DwellKept
<1>1. /\ {now, nowT, Dwell, MaxPass, ServerLag} \subseteq Nat
      /\ Live \subseteq Ids /\ \A i \in Live : rows[i] \in Row
      /\ acceptedAt \in [Ids -> Nat \cup {Never}]
  BY DrainAssumption DEF DrainInv, TypeOK, Live
<1>2. /\ UNCHANGED <<now, nowT, acceptedAt, node>> /\ pc = "copying" /\ pc' = "rebasing"
      /\ todo' = {i \in Pending : RebaseDue(rows[i], nowT)}
  BY DEF StartRebases, serverVars
<1>3. InTime' /\ NoBareNode'
  BY <1>2 DEF DwellInv, InTime, NoBareNode, Unapplied
<1>4. ASSUME NEW i \in todo' PROVE node[i] # "none"
  <2>1. /\ i \in Live /\ i \in Ids /\ rows[i].nodeCreated = "SUBMITTED"
        /\ nowT - rows[i].submittedAt >= Dwell
    BY <1>1, <1>2, <1>4 DEF Pending, RebaseDue
  <2>2. rows[i].submittedAt \in Nat /\ acceptedAt[i] \in Nat
    BY <1>1, <2>1 DEF Row, DrainInv, SubmittedWasAccepted
  <2>3. nowT <= now /\ acceptedAt[i] <= rows[i].submittedAt + MaxPass
    BY <1>2, <2>1 DEF DwellInv, InTime, SubmittedInPass
  <2>4. acceptedAt[i] + ServerLag < now
    BY <1>1, <2>1, <2>2, <2>3
  <2>5. ~ Unapplied(i)
    BY <1>1, <2>1, <2>2, <2>4 DEF DwellInv, InTime
  <2> QED
    BY <2>2, <2>5 DEF Unapplied, Never
<1>5. AppliedBeforeRebase'
  BY <1>2, <1>4 DEF AppliedBeforeRebase
<1> QED
  BY <1>2, <1>3, <1>5 DEF DwellKept

LEMMA DwellStep ==
    ASSUME MaxPass + ServerLag < Dwell, DrainInv, DwellInv, [Next]_vars
    PROVE  DwellInv'
<1> USE DEF serverVars, passVars
<1>0. /\ now \in Nat /\ nowT \in Nat /\ {MaxPass, ServerLag} \subseteq Nat
      /\ node \in [Ids -> {"none", "tier0", "tier3", "bare"}]
      /\ acceptedAt \in [Ids -> Nat \cup {Never}]
  BY DrainAssumption DEF DrainInv, TypeOK
<1>1. ASSUME UNCHANGED <<now, acceptedAt, node, pc, nowT, todo>> PROVE DwellKept
  BY <1>1 DEF DwellInv, DwellKept, InTime, AppliedBeforeRebase, NoBareNode, Unapplied
<1>2. ASSUME NEW i \in Ids, Insert(i) \/ IngestStep(i) \/ ServerApply(i) PROVE DwellKept
  <2>1. CASE Insert(i) \/ PlaceLocal(i) \/ InlineMark(i)
    BY <1>1, <2>1 DEF Insert, PlaceLocal, InlineMark
  <2>2. CASE InlinePost(i)
    BY <2>2, PostKeeps DEF InlinePost
  <2>3. CASE ServerApply(i)
    <3>1. \A j \in Ids : node'[j] = node[j] \/ node'[j] \in {"tier0", "tier3"}
      BY <1>0, <2>3 DEF ServerApply
    <3>2. UNCHANGED <<now, acceptedAt, pc, nowT, todo>>
      BY <2>3 DEF ServerApply
    <3>3. \A j \in Ids : Unapplied(j)' => Unapplied(j)
      BY <3>1, <3>2 DEF Unapplied
    <3>4. InTime' /\ NoBareNode'
      BY <3>1, <3>2, <3>3 DEF DwellInv, InTime, NoBareNode
    <3>5. AppliedBeforeRebase'
      <4>1. todo \subseteq Ids
        BY DEF DrainInv, TypeOK
      <4> QED
        BY <3>1, <3>2, <4>1 DEF DwellInv, AppliedBeforeRebase
    <3> QED
      BY <3>2, <3>4, <3>5 DEF DwellKept
  <2> QED
    BY <1>2, <2>1, <2>2, <2>3 DEF IngestStep
<1>3. ASSUME StartPass PROVE DwellKept
  <2>1. UNCHANGED <<now, acceptedAt, node>> /\ nowT' = now /\ pc' = "creating"
    BY <1>3 DEF StartPass
  <2> QED
    BY <1>0, <2>1 DEF DwellInv, DwellKept, InTime, AppliedBeforeRebase, NoBareNode, Unapplied
<1>4. ASSUME NEW i \in Ids, DrainRebase(i) PROVE DwellKept
  <2>1. /\ UNCHANGED <<now, nowT, acceptedAt, todo>> /\ pc = "rebasing" /\ pc' = "answered"
        /\ i \in todo /\ todo \subseteq Ids
    BY <1>4 DEF DrainRebase, First, DrainInv, TypeOK
  <2>2. node[i] # "none" /\ node[i] # "bare"
    BY <2>1 DEF DwellInv, AppliedBeforeRebase, NoBareNode
  <2>3. \A j \in Ids : node'[j] = node[j] \/ node'[j] = "tier3"
    BY <1>0, <1>4, <2>2 DEF DrainRebase, Rebase
  <2>4. \A j \in Ids : Unapplied(j)' => Unapplied(j)
    BY <2>1, <2>3 DEF Unapplied
  <2>5. InTime' /\ NoBareNode'
    BY <2>1, <2>3, <2>4 DEF DwellInv, InTime, NoBareNode
  <2>6. AppliedBeforeRebase'
    BY <2>1, <2>3 DEF DwellInv, AppliedBeforeRebase
  <2> QED
    BY <2>1, <2>5, <2>6 DEF DwellKept
<1>5. ASSUME StartCopies \/ StartSweep \/ EndSweep \/ AbortPass \/ Crash PROVE DwellKept
  BY <1>5, QuietKeeps DEF StartCopies, StartSweep, EndSweep, AbortPass, Crash, PassOver
<1>6. ASSUME NEW i \in Ids, DrainPost(i) PROVE DwellKept
  BY <1>6, PostKeeps DEF DrainPost
<1>7. ASSUME NEW i \in Ids, CopyExamine(i) \/ CopyPlace(i) \/ CopyVerify(i) PROVE DwellKept
  <2>1. /\ UNCHANGED <<now, acceptedAt, node, nowT>>
        /\ pc \in {"copying", "staged", "placed"} /\ pc' \in {"staged", "placed", "copied"}
    BY <1>7 DEF CopyExamine, ExamineExisting, Stage, CopyPlace, CopyVerify
  <2> QED
    BY <2>1, QuietKeeps
<1>8. ASSUME NEW i \in Ids, DrainPostMark(i) \/ CopyMark(i) \/ DrainRebaseMark(i) PROVE DwellKept
  <2>1. /\ UNCHANGED <<now, acceptedAt, node, nowT>> /\ todo' \subseteq todo
        /\ \/ pc = "posted" /\ pc' = "creating"
           \/ pc = "copied" /\ pc' = "copying"
           \/ pc = "answered" /\ pc' = "rebasing"
    BY <1>8 DEF DrainPostMark, CopyMark, DrainRebaseMark, Mark
  <2> QED
    BY <2>1, QuietKeeps
<1>9. ASSUME NEW i \in Ids, Collect(i) PROVE DwellKept
  BY <1>9, QuietKeeps DEF Collect
<1>10. ASSUME PassStep PROVE DwellKept
  BY <1>3, <1>4, <1>5, <1>6, <1>7, <1>8, <1>9, <1>10, StartRebasesKeeps DEF PassStep
<1>11. ASSUME PeopleStep PROVE DwellKept
  <2>1. ASSUME NEW i \in Ids, \/ ResumeLocalCopy(i) \/ UserTouchesLocal(i) \/ FileAppears(i)
                              \/ OperatorMovesAside(i) \/ OperatorRestoresLocal(i)
        PROVE  DwellKept
    BY <1>1, <2>1 DEF ResumeLocalCopy, UserTouchesLocal, FileAppears, OperatorMovesAside,
                      OperatorRestoresLocal
  <2>2. ASSUME NEW which \in SUBSET Ids, ResetFailed(which) PROVE DwellKept
    BY <1>1, <2>2 DEF ResetFailed
  <2> QED
    BY <1>11, <2>1, <2>2 DEF PeopleStep
<1>12. ASSUME Tick PROVE DwellKept
  <2>1. /\ now' = now + 1 /\ UNCHANGED <<acceptedAt, node, pc, nowT, todo>>
        /\ pc # "idle" => now < nowT + MaxPass
        /\ \A i \in Ids : Unapplied(i) => now < acceptedAt[i] + ServerLag
    BY <1>12 DEF Tick
  <2>2. \A i \in Ids : acceptedAt[i] \in Nat \cup {Never}
    BY <1>0
  <2>3. InTime'
    <3>1. \A i \in Ids : acceptedAt[i] <= now + 1
      BY <1>0, <2>2 DEF DwellInv, InTime, Never
    <3>2. \A i \in Ids : Unapplied(i) => now + 1 <= acceptedAt[i] + ServerLag
      BY <1>0, <2>1, <2>2 DEF Never
    <3>3. pc # "idle" => nowT <= now + 1 /\ now + 1 <= nowT + MaxPass
      BY <1>0, <2>1 DEF DwellInv, InTime
    <3>4. \A i \in Ids : Unapplied(i)' <=> Unapplied(i)
      BY <2>1 DEF Unapplied
    <3> QED
      BY <2>1, <3>1, <3>2, <3>3, <3>4 DEF InTime
  <2> QED
    BY <2>1, <2>3 DEF DwellInv, DwellKept, AppliedBeforeRebase, NoBareNode
<1>13. ASSUME UNCHANGED vars PROVE DwellKept
  BY <1>1, <1>13 DEF vars
<1>14. DwellKept
  BY <1>2, <1>5, <1>10, <1>11, <1>12, <1>13 DEF Next
<1> QED
  BY <1>14, SubmittedStep DEF DwellInv, DwellKept

\* MinRebaseDwell is long enough when it is longer than a pass and the
\* server's lag together: no rebase overtakes its EVENT_NODE_CREATED.
THEOREM DwellSafety == MaxPass + ServerLag < Dwell => (Spec => []NoBareNode)
<1> SUFFICES ASSUME MaxPass + ServerLag < Dwell PROVE Spec => []NoBareNode
  OBVIOUS
<1>1. Init => DwellInv
  <2> SUFFICES ASSUME Init PROVE DwellInv
    OBVIOUS
  <2>1. Live = {} /\ pc = "idle" /\ now = 0
        /\ \A i \in Ids : acceptedAt[i] = Never /\ node[i] = "none"
    BY DEF Init, Live
  <2> QED
    BY <2>1 DEF DwellInv, InTime, SubmittedInPass, AppliedBeforeRebase, NoBareNode, Unapplied, Never
<1>2. DrainInv /\ DwellInv /\ [Next]_vars => DwellInv'
  BY DwellStep
<1>3. DwellInv => NoBareNode
  BY DEF DwellInv
<1> QED
  BY <1>1, <1>2, <1>3, DrainInvariant, PTL DEF Spec


-----------------------------------------------------------------------------
(* One fault, and nobody meddling *)

\* What the lemmas below assume of a step: calm before and after it, so
\* that nobody meddled and at most the one fault was spent on it.
CalmStep ==
    /\ DrainInv /\ OwnFiles /\ OneTrace /\ NoneFailed
    /\ meddle' = meddle
    /\ faults \in Nat /\ MaxFaults \in Nat /\ faults <= MaxFaults
    /\ faults' = faults \/ (faults' = faults - 1 /\ faults = MaxFaults)

StillCalm == OwnFiles' /\ OneTrace' /\ NoneFailed'

\* A step that leaves the files alone, records no mismatch and no failure,
\* and has no bad news in hand that it did not have before.
LEMMA CalmKeeps ==
    ASSUME CalmStep, UNCHANGED fileVars,
           \A i \in Ids : worker'[i] = "new" => worker[i] = "new",
           OnRecord' => OnRecord,
           NoneFailed',
           pc' = "staged" => pc = "staged" /\ UNCHANGED todo,
           pc = "placed" => UNCHANGED <<pc, todo>>,
           res' \in {"mismatch", "fatal"} => UNCHANGED <<pc, res>>
    PROVE  StillCalm
<1>1. OwnFiles'
  BY DEF CalmStep, OwnFiles, First, fileVars
<1>2. faults' = MaxFaults => faults = MaxFaults
  BY DEF CalmStep
<1>3. Stored("bad")' <=> Stored("bad")
  BY DEF Stored, fileVars
<1>4. OneTrace'
  BY <1>2, <1>3 DEF CalmStep, OneTrace, First, fileVars
<1> QED
  BY <1>1, <1>4 DEF StillCalm

\* Rows that keep what is known of their archive copies.
LEMMA SameCopies ==
    ASSUME NoneFailed, DOMAIN rows' \subseteq DOMAIN rows,
           \A i \in DOMAIN rows' : /\ rows'[i].acMismatch = rows[i].acMismatch
                                   /\ rows'[i].archiveCopy = rows[i].archiveCopy,
           UNCHANGED snap
    PROVE  (OnRecord' => OnRecord) /\ NoneFailed'
BY DEF OnRecord, NoneFailed, Live

\* ... one of which is written anew.
LEMMA SameCopy ==
    ASSUME NoneFailed, NEW i, NEW q, rows' = [rows EXCEPT ![i] = q] \/ rows' = rows,
           i \in Live => q.acMismatch = rows[i].acMismatch /\ q.archiveCopy = rows[i].archiveCopy,
           UNCHANGED snap
    PROVE  (OnRecord' => OnRecord) /\ NoneFailed'
<1>1. CASE rows' = rows
  BY <1>1, SameCopies
<1>2. CASE rows' = [rows EXCEPT ![i] = q]
  <2>1. DOMAIN rows' = DOMAIN rows
    BY <1>2
  <2>2. \A j \in DOMAIN rows : rows'[j] = IF j = i THEN q ELSE rows[j]
    BY <1>2
  <2>3. \A j \in DOMAIN rows' : /\ rows'[j].acMismatch = rows[j].acMismatch
                                /\ rows'[j].archiveCopy = rows[j].archiveCopy
    BY <2>1, <2>2 DEF Live
  <2> QED
    BY <2>1, <2>3, SameCopies
<1> QED
  BY <1>1, <1>2

LEMMA CalmIngest ==
    ASSUME CalmStep, NEW i \in Ids, Insert(i) \/ IngestStep(i) \/ ServerApply(i)
    PROVE  StillCalm
<1>0. USE DEF passVars
<1>1. CASE Insert(i)
  <2>1. /\ UNCHANGED <<pc, nowT, snap, todo, res, faults>> /\ Live' = Live \cup {i}
        /\ i \notin Live /\ worker[i] = "new" /\ worker'[i] # "new"
        /\ \A j \in Ids : j # i => worker'[j] = worker[j]
        /\ todo \subseteq Live
    BY <1>1 DEF Insert, Live, CalmStep, DrainInv, TypeOK, Unknown, SnapshotFresh
  <2>2. \A j \in Live : rows'[j] = rows[j]
    BY <1>1, <2>1 DEF Insert, Live
  <2>3. rows'[i].acMismatch = FALSE /\ rows'[i].archiveCopy # "FAILED"
    <3>1. rows'[i] = InsertPending(shape[i][1], shape[i][2], now)
      BY <1>1 DEF Insert
    <3> QED
      BY <3>1 DEF InsertPending
  <2>4. OnRecord' => OnRecord
    BY <2>1, <2>2, <2>3 DEF OnRecord
  <2>5. NoneFailed'
    BY <2>1, <2>2, <2>3 DEF CalmStep, NoneFailed
  <2>6. /\ local'[i] \in {"temp", "good"} /\ archive'[i] \in {"none", "good"}
        /\ archive'[i] # "none" => local'[i] = "good"
        /\ \A j \in Ids : j # i => local'[j] = local[j] /\ archive'[j] = archive[j]
    BY <1>1, <2>1 DEF Insert, CalmStep, DrainInv, TypeOK, OwnFiles
  <2>7. ~ First(i) /\ \A j \in Ids : First(j)' <=> First(j)
    BY <2>1 DEF First
  <2>8. OwnFiles'
    BY <2>1, <2>6, <2>7 DEF CalmStep, OwnFiles
  <2>9. \A j \in Ids : archive'[j] = "bad" => archive[j] = "bad"
    BY <2>6
  <2>10. OneTrace'
    BY <2>1, <2>4, <2>7, <2>9 DEF CalmStep, OneTrace, Stored
  <2> QED
    BY <2>5, <2>8, <2>10 DEF StillCalm
<1>2. CASE PlaceLocal(i)
  <2>1. /\ UNCHANGED <<pc, nowT, snap, todo, res, rows, archive>>
        /\ \A j \in Ids : worker'[j] = "new" => worker[j] = "new"
        /\ \A j \in Ids : local'[j] = local[j] \/ local'[j] = "good"
    BY <1>2 DEF PlaceLocal, CalmStep, DrainInv, TypeOK
  <2>2. OwnFiles'
    BY <2>1 DEF CalmStep, OwnFiles, First
  <2>3. OneTrace' /\ NoneFailed'
    BY <2>1 DEF CalmStep, OneTrace, NoneFailed, Stored, OnRecord, Live, First
  <2> QED
    BY <2>2, <2>3 DEF StillCalm
<1>3. CASE InlinePost(i)
  <2>1. /\ UNCHANGED <<pc, snap, todo, res, rows, fileVars>>
        /\ \A j \in Ids : worker'[j] = "new" => worker[j] = "new"
    BY <1>3 DEF InlinePost, CalmStep, DrainInv, TypeOK
  <2> QED
    BY <2>1, CalmKeeps DEF CalmStep, NoneFailed, OnRecord, Live
<1>4. CASE InlineMark(i)
  <2>1. /\ UNCHANGED <<pc, snap, todo, res, fileVars>>
        /\ \A j \in Ids : worker'[j] = "new" => worker[j] = "new"
    BY <1>4 DEF InlineMark, CalmStep, DrainInv, TypeOK
  <2> DEFINE q == IF worker[i] = "accepted" THEN MarkNodeCreatedSubmitted(rows[i], now)
                  ELSE IF shape[i][2] = "ONLINE" THEN MarkNodeCreatedAttempt(rows[i], backoffFor(1, now))
                  ELSE rows[i]
  <2>2. rows' = [rows EXCEPT ![i] = q] \/ rows' = rows
    BY <1>4 DEF InlineMark
  <2>3. i \in Live => q.acMismatch = rows[i].acMismatch /\ q.archiveCopy = rows[i].archiveCopy
    <3>1. i \in Live => rows[i] \in Row
      BY DEF CalmStep, DrainInv, TypeOK, Live
    <3> QED
      BY <3>1 DEF MarkNodeCreatedSubmitted, MarkNodeCreatedAttempt, Row
  <2> HIDE DEF q
  <2>4. (OnRecord' => OnRecord) /\ NoneFailed'
    BY <2>1, <2>2, <2>3, SameCopy DEF CalmStep
  <2> QED
    BY <2>1, <2>4, CalmKeeps
<1>5. CASE ServerApply(i)
  BY <1>5, CalmKeeps DEF ServerApply, CalmStep, NoneFailed, OnRecord, Live
<1> QED
  BY <1>1, <1>2, <1>3, <1>4, <1>5 DEF IngestStep

\* A mark that leaves the archive copy of its row as it is.
LEMMA CalmMark ==
    ASSUME CalmStep, NEW i \in Ids, NEW q, NEW next \in {"creating", "rebasing"}, Mark(i, q, next),
           pc \in {"posted", "answered"},
           i \in Live => q.acMismatch = rows[i].acMismatch /\ q.archiveCopy = rows[i].archiveCopy
    PROVE  StillCalm
<1>1. /\ UNCHANGED <<snap, fileVars, worker>> /\ pc' = next /\ res' = "none"
      /\ rows' = [rows EXCEPT ![i] = q] \/ rows' = rows
  BY DEF Mark
<1>2. (OnRecord' => OnRecord) /\ NoneFailed'
  BY <1>1, SameCopy DEF CalmStep
<1> QED
  BY <1>1, <1>2, CalmKeeps

\* What CopyToArchive finds at the archive path: the bytes it queued, or,
\* after a fault, something that reads as a mismatch of the same size.
LEMMA CalmExamine ==
    ASSUME CalmStep, NEW i \in Ids, CopyExamine(i)
    PROVE  StillCalm
<1>1. /\ UNCHANGED <<rows, fileVars, worker, snap, todo>> /\ pc = "copying" /\ First(i)
      /\ i \in Live
  BY DEF CopyExamine, First, CalmStep, DrainInv, SnapshotFresh
<1>2. ~Stored("bad") /\ (OnRecord' <=> OnRecord) /\ ~Stored("bad")' /\ NoneFailed'
  BY <1>1 DEF CalmStep, OneTrace, Stored, OnRecord, NoneFailed, Live, fileVars
<1>3. \A j \in Ids : First(j) => j = i
  BY <1>1, FirstUnique
<1>4. CASE archive[i] = "none"
  <2>1. /\ res' \in {res, "err"} /\ res' # "mismatch" /\ res' # "fatal"
        /\ pc' = "staged" => local[i] = "good"
    BY <1>1, <1>4 DEF CopyExamine, ExamineExisting, Stage, CalmStep, OwnFiles, OneTrace
  <2>2. OwnFiles'
    BY <1>1, <1>3, <2>1 DEF CalmStep, OwnFiles, First, fileVars
  <2>3. OneTrace'
    BY <1>1, <1>2, <2>1 DEF CalmStep, OneTrace, Stored
  <2> QED
    BY <1>2, <2>2, <2>3 DEF StillCalm
<1>5. CASE archive[i] # "none"
  <2>1. archive[i] = "good" /\ local[i] = "good"
    BY <1>2, <1>5 DEF CalmStep, OwnFiles, Stored
  <2>2. pc' = "copied" /\ (res' \in {"ok", "err"} \/ (res' = "mismatch" /\ Fault))
    BY <1>1, <2>1 DEF CopyExamine, ExamineExisting, Stage, Unequal
  <2>3. OwnFiles'
    BY <1>1, <2>2 DEF CalmStep, OwnFiles, fileVars
  <2>4. OneTrace'
    <3>1. CASE res' \in {"ok", "err"}
      BY <1>1, <1>2, <2>2, <3>1 DEF CalmStep, OneTrace, Stored
    <3>2. CASE res' = "mismatch" /\ Fault
      <4>1. faults' # MaxFaults /\ faults = MaxFaults
        BY <3>2 DEF CalmStep, Fault
      <4>2. ~OnRecord'
        BY <1>2, <4>1 DEF CalmStep, OneTrace
      <4> QED
        BY <1>2, <2>2, <3>2, <4>1, <4>2 DEF OneTrace, Stored
    <3> QED
      BY <2>2, <3>1, <3>2
  <2> QED
    BY <1>2, <2>3, <2>4 DEF StillCalm
<1> QED
  BY <1>4, <1>5

\* A copy that is stored wrong costs the fault, and is about to be read back.
LEMMA CalmPlace ==
    ASSUME CalmStep, NEW i \in Ids, CopyPlace(i)
    PROVE  StillCalm
<1>1. /\ UNCHANGED <<rows, local, worker, snap, todo>> /\ pc = "staged" /\ First(i)
      /\ i \in Live
  BY DEF CopyPlace, First, CalmStep, DrainInv, SnapshotFresh
<1>2. worker[i] # "new" /\ local[i] = "good"
  BY <1>1 DEF CalmStep, DrainInv, Unknown, OwnFiles
<1>3. (OnRecord' <=> OnRecord) /\ NoneFailed' /\ ~Stored("bad") /\ res \notin {"mismatch", "fatal"}
  BY <1>1 DEF CalmStep, OneTrace, OnRecord, NoneFailed, Live, Stored
<1>4. CASE UNCHANGED archive /\ pc' \in {"copied", "placed"} /\ res' \in {"err", res}
  <2>1. OwnFiles'
    BY <1>1, <1>4 DEF CalmStep, OwnFiles
  <2>2. OneTrace'
    BY <1>1, <1>3, <1>4 DEF CalmStep, OneTrace, Stored
  <2> QED
    BY <1>3, <2>1, <2>2 DEF StillCalm
<1>5. ASSUME NEW f \in {"good", "bad"}, archive' = [archive EXCEPT ![i] = f], pc' = "placed", UNCHANGED res,
             f = "bad" => Fault
      PROVE  StillCalm
  <2>0. \A j \in Ids : archive'[j] = IF j = i THEN f ELSE archive[j]
    BY <1>5 DEF CalmStep, DrainInv, TypeOK
  <2>1. OwnFiles'
    BY <1>1, <1>2, <1>5, <2>0 DEF CalmStep, OwnFiles
  <2>2. \A j \in Ids : archive'[j] = "bad" => j = i /\ f = "bad"
    BY <1>3, <2>0 DEF Stored
  <2>3. First(i)'
    BY <1>1 DEF First
  <2>4. OneTrace'
    <3>1. CASE f = "good"
      BY <1>3, <1>5, <2>2, <3>1 DEF CalmStep, OneTrace, Stored
    <3>2. CASE f = "bad"
      <4>1. faults' # MaxFaults /\ faults = MaxFaults
        BY <1>5, <3>2 DEF CalmStep, Fault
      <4>2. ~OnRecord'
        BY <1>3, <4>1 DEF CalmStep, OneTrace
      <4> QED
        BY <1>3, <1>5, <2>2, <2>3, <4>1, <4>2 DEF OneTrace, Stored
    <3> QED
      BY <3>1, <3>2
  <2> QED
    BY <1>3, <2>1, <2>4 DEF StillCalm
<1> QED
  BY <1>4, <1>5 DEF CopyPlace

\* The read-back turns a bad copy, or the fault, into a mismatch in hand,
\* and nothing bad stays behind.
LEMMA CalmVerify ==
    ASSUME CalmStep, NEW i \in Ids, CopyVerify(i)
    PROVE  StillCalm
<1>1. /\ UNCHANGED <<rows, local, worker, snap, todo>> /\ pc = "placed" /\ pc' = "copied" /\ First(i)
      /\ res \notin {"mismatch", "fatal"}
  BY DEF CopyVerify, CalmStep, OneTrace
<1>2. (OnRecord' <=> OnRecord) /\ NoneFailed'
  BY <1>1 DEF CalmStep, OnRecord, NoneFailed, Live
<1>3. \A j \in Ids : archive[j] = "bad" => j = i
  BY <1>1, FirstUnique DEF CalmStep, OneTrace
<1>4. \A j \in Ids : archive'[j] = archive[j] \/ archive'[j] = "none"
  BY DEF CopyVerify, CalmStep, DrainInv, TypeOK
<1>5. OwnFiles'
  BY <1>1, <1>4 DEF CalmStep, OwnFiles
<1>6. Fault => faults' # MaxFaults /\ faults = MaxFaults /\ ~OnRecord /\ ~Stored("bad")
  BY DEF CalmStep, Fault, OneTrace
<1>7. archive[i] = "bad" => ~OnRecord /\ faults # MaxFaults
  BY DEF CalmStep, OneTrace, Stored
<1>8. archive'[i] # "bad"
  BY <1>6 DEF CopyVerify, Stored, CalmStep, DrainInv, TypeOK
<1>9. ~Stored("bad")'
  BY <1>3, <1>4, <1>8 DEF Stored
<1>10. /\ res' \in {"ok", "err", "mismatch"}
       /\ res' = "mismatch" => ~OnRecord /\ faults' # MaxFaults
  BY <1>6, <1>7 DEF CopyVerify, CalmStep, NoFault
<1>11. faults' = MaxFaults => faults = MaxFaults
  BY DEF CalmStep
<1>12. OneTrace'
  BY <1>1, <1>2, <1>9, <1>10, <1>11 DEF CalmStep, OneTrace, Stored
<1> QED
  BY <1>2, <1>5, <1>12 DEF StillCalm

\* A mismatch is recorded as an attempt, for there is none on record yet.
LEMMA CalmCopyMark ==
    ASSUME CalmStep, NEW i \in Ids, CopyMark(i)
    PROVE  StillCalm
<1> DEFINE q == IF res = "ok" THEN MarkArchiveCopyDone(rows[i])
                ELSE MarkArchiveCopyAttempt(rows[i], res = "mismatch", backoffFor(snap[i].acTries + 1, nowT))
<1>1. /\ UNCHANGED <<snap, local, archive, worker>> /\ pc = "copied" /\ pc' = "copying" /\ res' = "none"
      /\ First(i) /\ i \in todo /\ todo \subseteq Live /\ todo \subseteq DOMAIN snap
  BY DEF CopyMark, Mark, First, CalmStep, DrainInv, SnapshotFresh, fileVars
<1>2. res # "fatal" /\ ~Stored("bad")
  BY <1>1 DEF CalmStep, OneTrace, Stored
<1>3. ~repeatMismatch(snap[i])
  BY <1>1 DEF CalmStep, OneTrace, repeatMismatch, OnRecord
<1>4. (rows' = [rows EXCEPT ![i] = q]) \/ rows' = rows
  BY <1>2, <1>3 DEF CopyMark, Mark
<1>5. rows[i] \in Row
  BY <1>1 DEF CalmStep, DrainInv, TypeOK, Live
<1>6. /\ q.archiveCopy # "FAILED"
      /\ q.acMismatch => rows[i].acMismatch \/ res = "mismatch"
  <2>1. rows[i].archiveCopy # "FAILED"
    BY <1>1 DEF CalmStep, NoneFailed
  <2>2. q.archiveCopy \in {"DONE", rows[i].archiveCopy}
    BY <1>5 DEF MarkArchiveCopyDone, MarkArchiveCopyAttempt, Row
  <2>3. q.acMismatch \in {rows[i].acMismatch, res = "mismatch"}
    BY <1>5 DEF MarkArchiveCopyDone, MarkArchiveCopyAttempt, Row
  <2> QED
    BY <2>1, <2>2, <2>3
<1> HIDE DEF q
<1>7. /\ DOMAIN rows' = DOMAIN rows
      /\ \A j \in Live : rows'[j] \in {rows[j], q} /\ (j # i => rows'[j] = rows[j])
  BY <1>4 DEF Live
<1>8. NoneFailed'
  BY <1>6, <1>7 DEF CalmStep, NoneFailed, Live
<1>9. OnRecord' => OnRecord \/ res = "mismatch"
  <2>1. ASSUME NEW j \in Live, rows'[j].acMismatch PROVE rows[j].acMismatch \/ res = "mismatch"
    BY <1>6, <1>7, <2>1
  <2> QED
    BY <1>1, <1>7, <2>1 DEF OnRecord, Live
<1>10. OwnFiles'
  BY <1>1 DEF CalmStep, OwnFiles
<1>11. faults' = MaxFaults => faults = MaxFaults
  BY DEF CalmStep
<1>12. OneTrace'
  BY <1>1, <1>2, <1>9, <1>11 DEF CalmStep, OneTrace, Stored
<1> QED
  BY <1>8, <1>10, <1>12 DEF StillCalm

LEMMA CalmPass ==
    ASSUME CalmStep, PassStep
    PROVE  StillCalm
<1>0. /\ DOMAIN snap \subseteq Ids /\ rows \in [Live -> Row]
      /\ NoneFailed /\ (UNCHANGED <<rows, snap>> => NoneFailed' /\ (OnRecord' => OnRecord))
  BY DEF CalmStep, DrainInv, TypeOK, Live, OnRecord, NoneFailed
<1>1. CASE StartPass \/ StartRebases
  <2>1. /\ UNCHANGED <<rows, fileVars, worker, res>> /\ snap' = [j \in Pending |-> rows[j]] /\ Pending \subseteq Live
        /\ pc \in {"idle", "copying"} /\ pc' \in {"creating", "rebasing"}
    BY <1>1 DEF StartPass, StartRebases, Pending
  <2>2. OnRecord' => OnRecord
    BY <2>1 DEF OnRecord, Live
  <2>3. res' \notin {"mismatch", "fatal"}
    BY <2>1 DEF CalmStep, OneTrace
  <2>4. NoneFailed'
    BY <1>0, <2>1 DEF NoneFailed, Live
  <2> QED
    BY <2>1, <2>2, <2>3, <2>4, CalmKeeps
<1>2. CASE StartCopies
  BY <1>0, <1>2, CalmKeeps DEF StartCopies, CalmStep, OneTrace
<1>3. CASE StartSweep \/ EndSweep \/ AbortPass
  <2>1. CASE PassOver
    <3>1. /\ UNCHANGED <<rows, fileVars, worker>> /\ DOMAIN snap' = {} /\ res' = "none" /\ pc' = "idle"
          /\ pc # "placed"
      BY <1>3, <2>1 DEF StartSweep, EndSweep, AbortPass, PassOver
    <3>2. (OnRecord' => OnRecord) /\ NoneFailed'
      BY <1>0, <3>1 DEF OnRecord, NoneFailed, Live
    <3> QED
      BY <3>1, <3>2, CalmKeeps
  <2>2. CASE StartSweep /\ ~PassOver
    <3>1. UNCHANGED <<rows, snap, fileVars, worker, res>> /\ pc' = "collecting" /\ pc = "rebasing"
      BY <2>2 DEF StartSweep
    <3> QED
      BY <1>0, <3>1, CalmKeeps DEF CalmStep, OneTrace
  <2> QED
    BY <1>3, <2>1, <2>2 DEF EndSweep, AbortPass
<1>4. ASSUME NEW i \in Ids, DrainPost(i) PROVE StillCalm
  BY <1>0, <1>4, CalmKeeps DEF DrainPost
<1>5. ASSUME NEW i \in Ids, DrainPostMark(i) PROVE StillCalm
  <2> DEFINE q == IF res = "ok" THEN MarkNodeCreatedSubmitted(rows[i], nowT)
                  ELSE MarkNodeCreatedAttempt(rows[i], backoffFor(snap[i].ncTries + 1, nowT))
  <2>1. i \in Live => q.acMismatch = rows[i].acMismatch /\ q.archiveCopy = rows[i].archiveCopy
    BY <1>0 DEF MarkNodeCreatedSubmitted, MarkNodeCreatedAttempt, Row
  <2>2. Mark(i, q, "creating") /\ pc = "posted"
    BY <1>5 DEF DrainPostMark
  <2> HIDE DEF q
  <2> QED
    BY <2>1, <2>2, CalmMark
<1>6. ASSUME NEW i \in Ids, DrainRebaseMark(i) PROVE StillCalm
  <2> DEFINE q == IF res = "ok" THEN MarkRebaseDone(rows[i])
                  ELSE IF res = "fatal" THEN MarkRebaseFailed(rows[i])
                  ELSE MarkRebaseAttempt(rows[i], backoffFor(snap[i].rbTries + 1, nowT))
  <2>1. i \in Live => q.acMismatch = rows[i].acMismatch /\ q.archiveCopy = rows[i].archiveCopy
    BY <1>0 DEF MarkRebaseDone, MarkRebaseFailed, MarkRebaseAttempt, Row
  <2>2. Mark(i, q, "rebasing") /\ pc = "answered"
    BY <1>6 DEF DrainRebaseMark
  <2> HIDE DEF q
  <2> QED
    BY <2>1, <2>2, CalmMark
<1>7. ASSUME NEW i \in Ids, DrainRebase(i) PROVE StillCalm
  <2>1. /\ UNCHANGED <<rows, snap, fileVars, worker, todo>> /\ pc = "rebasing" /\ pc' = "answered"
        /\ res' \in {"ok", "err", "fatal"} /\ (res' = "fatal" => Fault)
    BY <1>7 DEF DrainRebase, Rebase
  <2>2. OwnFiles' /\ NoneFailed' /\ (OnRecord' <=> OnRecord) /\ ~Stored("bad") /\ ~Stored("bad")'
    BY <2>1 DEF CalmStep, OwnFiles, OneTrace, NoneFailed, OnRecord, Live, Stored, fileVars
  <2>3. Fault => faults' # MaxFaults
    BY DEF CalmStep, Fault
  <2>4. faults' = MaxFaults => faults = MaxFaults
    BY DEF CalmStep
  <2>5. OneTrace'
    BY <2>1, <2>2, <2>3, <2>4 DEF CalmStep, OneTrace, Stored
  <2> QED
    BY <2>2, <2>5 DEF StillCalm
<1>8. ASSUME NEW i \in Ids, Collect(i) PROVE StillCalm
  <2>1. /\ UNCHANGED <<snap, fileVars, worker, pc, res>> /\ pc = "collecting"
        /\ rows' = rows \/ rows' = [j \in Live \ {i} |-> rows[j]]
    BY <1>8 DEF Collect
  <2>2. DOMAIN rows' \subseteq DOMAIN rows /\ \A j \in DOMAIN rows' : rows'[j] = rows[j]
    BY <2>1 DEF Live
  <2>3. (OnRecord' => OnRecord) /\ NoneFailed'
    BY <1>0, <2>1, <2>2, SameCopies
  <2> QED
    BY <2>1, <2>3, CalmKeeps
<1> QED
  BY <1>1, <1>2, <1>3, <1>4, <1>5, <1>6, <1>7, <1>8, CalmExamine, CalmPlace, CalmVerify, CalmCopyMark
     DEF PassStep

LEMMA CalmCrash ==
    ASSUME CalmStep, Crash
    PROVE  StillCalm
<1>1. /\ UNCHANGED <<rows, fileVars>> /\ DOMAIN snap' = {} /\ res' = "none" /\ pc' = "idle" /\ Fault
      /\ \A i \in Ids : worker'[i] = "new" => worker[i] = "new"
  BY DEF Crash, PassOver
<1>2. (OnRecord' => OnRecord) /\ NoneFailed'
  BY <1>1 DEF CalmStep, OnRecord, NoneFailed, Live
<1>3. faults = MaxFaults /\ ~Stored("bad")
  BY <1>1 DEF CalmStep, Fault, OneTrace
<1>4. OwnFiles' /\ ~Stored("bad")'
  BY <1>1, <1>3 DEF CalmStep, OwnFiles, Stored, fileVars
<1>5. OneTrace'
  BY <1>1, <1>2, <1>3, <1>4 DEF CalmStep, OneTrace, Stored, Fault
<1> QED
  BY <1>2, <1>4, <1>5 DEF StillCalm

\* Faults and interventions are only ever spent.
LEMMA Spending ==
    ASSUME DrainInv, [Next]_vars
    PROVE  /\ meddle' = meddle \/ meddle' = meddle - 1
           /\ faults' = faults \/ faults' = faults - 1
           /\ PeopleStep => meddle' = meddle - 1
<1> USE DEF Fault, NoFault, Meddle
<1>1. ASSUME PeopleStep PROVE meddle' = meddle - 1 /\ faults' = faults
  BY <1>1 DEF PeopleStep, ResumeLocalCopy, UserTouchesLocal, FileAppears, OperatorMovesAside,
              OperatorRestoresLocal, ResetFailed
<1>2. ASSUME NEW i \in Ids, Insert(i) \/ IngestStep(i) \/ ServerApply(i)
      PROVE  meddle' = meddle /\ (faults' = faults \/ faults' = faults - 1)
  <2>1. CASE InlinePost(i)
    BY <2>1 DEF InlinePost, PostNodeCreated
  <2> QED
    BY <1>2, <2>1 DEF Insert, IngestStep, PlaceLocal, InlineMark, ServerApply
<1>3. ASSUME PassStep PROVE meddle' = meddle /\ (faults' = faults \/ faults' = faults - 1)
  <2>1. ASSUME StartPass \/ StartCopies \/ StartRebases \/ StartSweep \/ EndSweep \/ AbortPass
        PROVE  meddle' = meddle /\ (faults' = faults \/ faults' = faults - 1)
    BY <2>1 DEF StartPass, StartCopies, StartRebases, StartSweep, EndSweep, AbortPass
  <2>2. ASSUME NEW i \in Ids, DrainPost(i) \/ DrainPostMark(i) \/ DrainRebase(i) \/ DrainRebaseMark(i) \/ Collect(i)
        PROVE  meddle' = meddle /\ (faults' = faults \/ faults' = faults - 1)
    BY <2>2 DEF DrainPost, PostNodeCreated, DrainPostMark, Mark, DrainRebase, Rebase, DrainRebaseMark, Collect
  <2>3. ASSUME NEW i \in Ids, CopyExamine(i) \/ CopyPlace(i) \/ CopyVerify(i) \/ CopyMark(i)
        PROVE  meddle' = meddle /\ (faults' = faults \/ faults' = faults - 1)
    BY <2>3 DEF CopyExamine, ExamineExisting, Stage, CopyPlace, CopyVerify, CopyMark, Mark
  <2> QED
    BY <1>3, <2>1, <2>2, <2>3 DEF PassStep
<1>4. ASSUME Crash \/ Tick \/ UNCHANGED vars
      PROVE  meddle' = meddle /\ (faults' = faults \/ faults' = faults - 1)
  BY <1>4 DEF Crash, Tick, vars
<1>5. ASSUME PeopleStep PROVE meddle' # meddle
  BY <1>1, <1>5 DEF DrainInv, TypeOK
<1> QED
  BY <1>1, <1>2, <1>3, <1>4 DEF Next

LEMMA OneFaultStep ==
    ASSUME DrainInv, OneFaultInv, [Next]_vars
    PROVE  OneFaultInv'
<1>0. /\ meddle \in Nat /\ faults \in Nat /\ MaxMeddle \in Nat /\ MaxFaults \in Nat
      /\ meddle <= MaxMeddle /\ faults <= MaxFaults
  BY DrainAssumption DEF DrainInv, TypeOK, OneFaultInv
<1>1. meddle' <= MaxMeddle /\ faults' <= MaxFaults
  BY <1>0, Spending
<1>2. ASSUME Calm' PROVE StillCalm
  <2>1. Calm /\ meddle' = meddle /\ (faults' = faults \/ (faults' = faults - 1 /\ faults = MaxFaults))
    BY <1>0, <1>2, Spending DEF Calm
  <2>2. CalmStep
    BY <1>0, <2>1 DEF CalmStep, OneFaultInv
  <2>3. ~PeopleStep
    BY <1>0, <2>1, Spending
  <2>4. CASE Tick \/ UNCHANGED vars
    BY <2>2, <2>4, CalmKeeps DEF Tick, vars, passVars, CalmStep, NoneFailed, OnRecord, Live
  <2> QED
    BY <2>2, <2>3, <2>4, CalmIngest, CalmPass, CalmCrash DEF Next
<1> QED
  BY <1>1, <1>2 DEF OneFaultInv, StillCalm

\* The grace retry after a read-back mismatch, and the classification of
\* errors, are enough for one fault: with nobody meddling and a single
\* failing call, no archive copy is given up.
THEOREM OneFaultSafety == Spec => []OneFaultIsSurvived
<1>1. Init => OneFaultInv
  <2> SUFFICES ASSUME Init PROVE OneFaultInv
    OBVIOUS
  <2>1. /\ Live = {} /\ DOMAIN snap = {} /\ pc = "idle" /\ res = "none"
        /\ \A i \in Ids : local[i] = "none" /\ archive[i] = "none"
    BY DEF Init, Live
  <2>2. meddle <= MaxMeddle /\ faults <= MaxFaults
    BY DrainAssumption DEF Init
  <2> QED
    BY <2>1, <2>2 DEF OneFaultInv, OwnFiles, OneTrace, NoneFailed, Stored, OnRecord
<1>2. DrainInv /\ OneFaultInv /\ [Next]_vars => OneFaultInv'
  BY OneFaultStep
<1>3. DrainInv /\ OneFaultInv => OneFaultIsSurvived
  <2>1. DrainInv => faults \in Nat /\ MaxFaults \in Nat
    BY DrainAssumption DEF DrainInv, TypeOK
  <2> QED
    BY <2>1 DEF OneFaultInv, OneFaultIsSurvived, Calm, NoneFailed
<1> QED
  BY <1>1, <1>2, <1>3, DrainInvariant, PTL DEF Spec

-----------------------------------------------------------------------------
(* The copy that Drain takes as a few steps, with its temp file: one system *)
(* call at a time, by processes of their own.                               *)

CONSTANT Copiers

VARIABLES copyLocal, copyTmp, copyFinal, copyStatus, copyMismatch, copyPc, copyRes, copySeen, copySrc, copyFaults, copyMeddle

Copy == INSTANCE ArchiveCopy WITH
            local <- copyLocal, tmp <- copyTmp, final <- copyFinal, status <- copyStatus, mismatch <- copyMismatch,
            pc <- copyPc, res <- copyRes, seen <- copySeen, src <- copySrc, faults <- copyFaults, meddle <- copyMeddle

\* No process is called like the state of a file.
CopiersApart == Copiers \cap Copy!File = {}

OneCopier == \E c : c \notin Copy!File /\ Copiers = {c}

(* Every action of Next keeps the type invariant, with any number of       *)
(* processes.                                                              *)
LEMMA CopyTypeStep ==
    ASSUME CopiersApart, Copy!TypeOK, [Copy!Next]_(Copy!vars)
    PROVE  Copy!TypeOK'
<1> USE DrainAssumption DEF CopiersApart, Copy!TypeOK, Copy!File, Copy!rowVars
<1>1. ASSUME NEW p \in Copiers, Copy!List(p) PROVE Copy!TypeOK'
  BY <1>1 DEF Copy!List, Copy!Step
<1>2. ASSUME NEW p \in Copiers, Copy!Examine(p) PROVE Copy!TypeOK'
  BY <1>2 DEF Copy!Examine, Copy!Differs, Copy!Step, Copy!Result, Copy!Fault, Copy!NoFault
<1>3. ASSUME NEW p \in Copiers, Copy!Clean(p) PROVE Copy!TypeOK'
  BY <1>3 DEF Copy!Clean, Copy!Step, Copy!Result
<1>4. ASSUME NEW p \in Copiers, Copy!Create(p) PROVE Copy!TypeOK'
  BY <1>4 DEF Copy!Create, Copy!Step, Copy!Result
<1>5. ASSUME NEW p \in Copiers, Copy!Write(p) PROVE Copy!TypeOK'
  BY <1>5 DEF Copy!Write, Copy!Step, Copy!Result, Copy!Written, Copy!Orphaned, Copy!Fault, Copy!NoFault
<1>6. ASSUME NEW p \in Copiers, Copy!HashCheck(p) PROVE Copy!TypeOK'
  BY <1>6 DEF Copy!HashCheck, Copy!HashMatches, Copy!Step, Copy!Result
<1>7. ASSUME NEW p \in Copiers, Copy!Rename(p) PROVE Copy!TypeOK'
  BY <1>7 DEF Copy!Rename, Copy!Refuse, Copy!Step, Copy!Result
<1>8. ASSUME NEW p \in Copiers, Copy!Move(p) PROVE Copy!TypeOK'
  BY <1>8 DEF Copy!Move, Copy!Step, Copy!Result, Copy!Fault, Copy!NoFault
<1>9. ASSUME NEW p \in Copiers, Copy!Verify(p) PROVE Copy!TypeOK'
  BY <1>9 DEF Copy!Verify, Copy!Step, Copy!Result, Copy!Fault, Copy!NoFault
<1>10. ASSUME NEW p \in Copiers, Copy!Undo(p) PROVE Copy!TypeOK'
  BY <1>10 DEF Copy!Undo, Copy!Result
<1>11. ASSUME NEW p \in Copiers, Copy!Mark(p) PROVE Copy!TypeOK'
  BY <1>11 DEF Copy!Mark, Copy!Step
<1>12. ASSUME NEW p \in Copiers, Copy!Crash(p) PROVE Copy!TypeOK'
  BY <1>12 DEF Copy!Crash, Copy!Step, Copy!Orphaned, Copy!Fault
<1>13. CASE Copy!ResetFailed
  BY <1>13 DEF Copy!ResetFailed
<1>14. CASE Copy!EditLocal
  BY <1>14 DEF Copy!EditLocal, Copy!Meddle
<1>15. CASE Copy!ForeignFile
  BY <1>15 DEF Copy!ForeignFile, Copy!Meddle
<1>16. CASE UNCHANGED Copy!vars
  BY <1>16 DEF Copy!vars
<1>17. QED
  BY <1>1, <1>2, <1>3, <1>4, <1>5, <1>6, <1>7, <1>8, <1>9, <1>10, <1>11, <1>12,
     <1>13, <1>14, <1>15, <1>16 DEF Copy!Next

(* With one process every action keeps CopyInv: no other process can take  *)
(* its temp file, and nobody makes its row anything but PENDING.           *)
LEMMA CopyStep ==
    ASSUME OneCopier, Copy!TypeOK, Copy!CopyInv, [Copy!Next]_(Copy!vars)
    PROVE  Copy!CopyInv'
<1>0. PICK c : c \notin Copy!File /\ Copiers = {c}
  BY DEF OneCopier
<1> USE <1>0, DrainAssumption DEF Copy!TypeOK, Copy!CopyInv, Copy!File, Copy!rowVars
<1>1. CASE Copy!List(c)
  BY <1>1 DEF Copy!List, Copy!Step
<1>2. CASE Copy!Examine(c)
  BY <1>2 DEF Copy!Examine, Copy!Differs, Copy!Step, Copy!Result
<1>3. CASE Copy!Clean(c)
  BY <1>3 DEF Copy!Clean, Copy!Step, Copy!Result
<1>4. CASE Copy!Create(c)
  BY <1>4 DEF Copy!Create, Copy!Step, Copy!Result
<1>5. CASE Copy!Write(c)
  BY <1>5 DEF Copy!Write, Copy!Step, Copy!Result, Copy!Written, Copy!Orphaned
<1>6. CASE Copy!HashCheck(c)
  BY <1>6 DEF Copy!HashCheck, Copy!HashMatches, Copy!Step, Copy!Result
<1>7. CASE Copy!Rename(c)
  BY <1>7 DEF Copy!Rename, Copy!Refuse, Copy!Step, Copy!Result
<1>8. CASE Copy!Move(c)
  BY <1>8 DEF Copy!Move, Copy!Step, Copy!Result
<1>9. CASE Copy!Verify(c)
  BY <1>9 DEF Copy!Verify, Copy!Step, Copy!Result
<1>10. CASE Copy!Undo(c)
  BY <1>10 DEF Copy!Undo, Copy!Result
<1>11. CASE Copy!Mark(c)
  BY <1>11 DEF Copy!Mark, Copy!Step
<1>12. CASE Copy!Crash(c)
  BY <1>12 DEF Copy!Crash, Copy!Step, Copy!Orphaned
<1>13. CASE Copy!ResetFailed
  BY <1>13 DEF Copy!ResetFailed
<1>14. CASE Copy!EditLocal
  BY <1>14 DEF Copy!EditLocal
<1>15. CASE Copy!ForeignFile
  BY <1>15 DEF Copy!ForeignFile
<1>16. CASE UNCHANGED Copy!vars
  BY <1>16 DEF Copy!vars
<1>17. QED
  BY <1>1, <1>2, <1>3, <1>4, <1>5, <1>6, <1>7, <1>8, <1>9, <1>10, <1>11, <1>12, <1>13, <1>14, <1>15, <1>16 DEF Copy!Next

(* TypeOK is an invariant with any number of processes.                    *)
THEOREM CopyTypeCorrect ==
    ASSUME CopiersApart
    PROVE  Copy!Spec => []Copy!TypeOK
<1>1. Copy!Init => Copy!TypeOK
  <2> SUFFICES ASSUME Copy!Init PROVE Copy!TypeOK
    OBVIOUS
  <2>1. {copyTmp, copyFinal} \subseteq Copy!File
    BY DEF Copy!Init, Copy!File
  <2>2. /\ copyPc \in [Copiers -> {"idle"}] /\ copyRes \in [Copiers -> {"err"}]
        /\ copySrc \in [Copiers -> {"good"}]
    BY DEF Copy!Init
  <2>3. copySeen \in [Copiers -> BOOLEAN] /\ copyMismatch \in BOOLEAN
    BY Zenon DEF Copy!Init
  <2>4. copyFaults = MaxFaults /\ copyMeddle = MaxMeddle /\ copyLocal = "good" /\ copyStatus = "PENDING"
    BY Zenon DEF Copy!Init
  <2>5. copyFaults \in 0..MaxFaults /\ copyMeddle \in 0..MaxMeddle
    BY <2>4, DrainAssumption
  <2>6. QED
    BY <2>1, <2>2, <2>3, <2>4, <2>5 DEF Copy!TypeOK
<1>2. Copy!TypeOK /\ [Copy!Next]_(Copy!vars) => Copy!TypeOK'
  BY CopyTypeStep
<1>3. QED
  BY <1>1, <1>2, PTL DEF Copy!Spec

(* With one process CopyInv is an invariant: a row is DONE only with its   *)
(* bytes at the archive name.                                              *)
THEOREM CopyCorrect ==
    ASSUME OneCopier
    PROVE  Copy!Spec => []Copy!CopyInv
<1>1. Copy!Init => Copy!CopyInv
  BY DrainAssumption DEF Copy!Init, Copy!CopyInv, Copy!File
<1>2. Copy!TypeOK /\ Copy!CopyInv /\ [Copy!Next]_(Copy!vars) => Copy!CopyInv'
  BY CopyStep
<1>3. Copy!Spec => []Copy!TypeOK
  BY CopyTypeCorrect DEF OneCopier, CopiersApart
<1>4. QED
  BY <1>1, <1>2, <1>3, PTL DEF Copy!Spec

(* Every step of one process is a step of ArchiveSlot or leaves it alone.  *)
LEMMA CopySlotStep ==
    ASSUME OneCopier, Copy!TypeOK, Copy!CopyInv, [Copy!Next]_(Copy!vars)
    PROVE  [Copy!Slot!Next]_<<Copy!slotOf, copyStatus>>
<1>0. PICK c : c \notin Copy!File /\ Copiers = {c}
  BY DEF OneCopier
<1> USE <1>0, DrainAssumption DEF Copy!TypeOK, Copy!CopyInv, Copy!File, Copy!rowVars, Copy!slotOf
<1>1. CASE Copy!List(c)
  BY <1>1 DEF Copy!List, Copy!Step
<1>2. CASE Copy!Examine(c)
  BY <1>2 DEF Copy!Examine, Copy!Differs, Copy!Step, Copy!Result
<1>3. CASE Copy!Clean(c)
  BY <1>3 DEF Copy!Clean, Copy!Step, Copy!Result
<1>4. CASE Copy!Create(c)
  BY <1>4 DEF Copy!Create, Copy!Step, Copy!Result
<1>5. CASE Copy!Write(c)
  BY <1>5 DEF Copy!Write, Copy!Step, Copy!Result, Copy!Written, Copy!Orphaned
<1>6. CASE Copy!HashCheck(c)
  BY <1>6 DEF Copy!HashCheck, Copy!HashMatches, Copy!Step, Copy!Result
<1>7. CASE Copy!Rename(c)
  BY <1>7 DEF Copy!Rename, Copy!Refuse, Copy!Step, Copy!Result
<1>8. CASE Copy!Move(c)
  BY <1>8 DEF Copy!Move, Copy!Step, Copy!Result, Copy!Slot!Next, Copy!Slot!Place, Copy!Slot!Foreign
<1>9. CASE Copy!Verify(c)
  BY <1>9 DEF Copy!Verify, Copy!Step, Copy!Result
<1>10. CASE Copy!Undo(c)
  BY <1>10 DEF Copy!Undo, Copy!Result, Copy!Slot!Next, Copy!Slot!TakeBack, Copy!Slot!Cleared
<1>11. CASE Copy!Mark(c)
  BY <1>11 DEF Copy!Mark, Copy!Step, Copy!Slot!Next, Copy!Slot!Finish, Copy!Slot!GiveUp
<1>12. CASE Copy!Crash(c)
  BY <1>12 DEF Copy!Crash, Copy!Step, Copy!Orphaned
<1>13. CASE Copy!ResetFailed
  BY <1>13 DEF Copy!ResetFailed, Copy!Slot!Next, Copy!Slot!Retry
<1>14. CASE Copy!EditLocal
  BY <1>14 DEF Copy!EditLocal
<1>15. CASE Copy!ForeignFile
  BY <1>15 DEF Copy!ForeignFile, Copy!Slot!Next, Copy!Slot!Foreign, Copy!Slot!Cleared
<1>16. CASE UNCHANGED Copy!vars
  BY <1>16 DEF Copy!vars
<1>17. QED
  BY <1>1, <1>2, <1>3, <1>4, <1>5, <1>6, <1>7, <1>8, <1>9, <1>10, <1>11, <1>12, <1>13, <1>14, <1>15, <1>16 DEF Copy!Next

(* CopyToArchive and Drain implement ArchiveSlot, whatever fails, as long  *)
(* as one process drains the queue.                                        *)
THEOREM CopyKeepsSlot ==
    ASSUME OneCopier
    PROVE  Copy!Spec => Copy!KeepsSlot
<1>1. Copy!Init => Copy!Slot!Init
  BY DEF Copy!Init, Copy!Slot!Init, Copy!slotOf
<1>2. Copy!TypeOK /\ Copy!CopyInv /\ [Copy!Next]_(Copy!vars) => [Copy!Slot!Next]_<<Copy!slotOf, copyStatus>>
  BY CopySlotStep
<1>3. Copy!Spec => []Copy!TypeOK
  BY CopyTypeCorrect DEF OneCopier, CopiersApart
<1>4. QED
  BY <1>1, <1>2, <1>3, CopyCorrect, PTL DEF Copy!Spec, Copy!KeepsSlot, Copy!Slot!Spec
=============================================================================
