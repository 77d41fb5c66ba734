-------------------------- MODULE SelfUpdateProofs --------------------------
(* Theorems about the self-update, for any number of programs, releases,    *)
(* faults, crashes and clicks.                                              *)
EXTENDS SelfUpdate, WellFoundedInduction, TLAPS

-----------------------------------------------------------------------------
(* Constants and choices *)

LEMMA Bounds ==
    /\ NTargets \in Nat /\ NTargets >= 1 /\ MaxVersion \in Nat /\ MaxVersion >= 1
    /\ MaxFaults \in Nat /\ MaxCrashes \in Nat /\ MaxOps \in Nat /\ Bundle \in BOOLEAN
    /\ Primary \in Targets /\ Targets \subseteq Nat /\ 1 \in Versions
    /\ None \notin Versions /\ None \notin Bad /\ Versions \cap Bad = {}
BY UpdateAssumption DEF Primary, Targets, Versions, None, Bad

\* A set of targets has a smallest element.
LEMMA MinIn ==
    ASSUME NEW S, S \subseteq Nat, S # {}
    PROVE  Min(S) \in S /\ \A y \in S : Min(S) <= y
<1>1. PICK x \in S : \A y \in S : ~(<<y, x>> \in OpToRel(<, Nat))
  BY NatLessThanWellFounded, WFMin
<1>2. \A y \in S : ~(y < x)
  BY <1>1 DEF OpToRel
<1>3. \A y \in S : x <= y
  BY <1>2
<1> QED
  BY <1>3 DEF Min

\* A set of targets has a greatest element.
LEMMA MaxIn ==
    ASSUME NEW S, S \subseteq Targets, S # {}
    PROVE  Max(S) \in S
<1> DEFINE T == {NTargets - j : j \in S}
<1>1. T # {}
  OBVIOUS
<1>0. T \subseteq Nat
  <2> SUFFICES ASSUME NEW j \in S PROVE NTargets - j \in Nat
    OBVIOUS
  <2> QED
    BY Bounds DEF Targets
<1>2. PICK x \in T : \A y \in T : x <= y
  BY <1>0, <1>1, MinIn
<1>3. PICK i \in S : x = NTargets - i
  OBVIOUS
<1>4. \A j \in S : i >= j
  <2> TAKE j \in S
  <2>1. NTargets - i <= NTargets - j
    BY <1>2, <1>3
  <2> QED
    BY <2>1, Bounds DEF Targets
<1> QED
  BY <1>4 DEF Max

\* The target at work is one that is left; the running program comes last.
LEMMA TargetIn ==
    ASSUME op \in Ops, Primary \in op.todo
    PROVE  /\ Target \in op.todo /\ Target \in Targets
           /\ Target # Primary => Primary \in op.todo \ {Target}
           /\ Target = Primary => op.todo = {Primary}
<1>1. op.todo \subseteq Targets /\ op.todo # {}
  BY DEF Ops
<1>2. Target \in op.todo /\ \A y \in op.todo : Target <= y
  BY <1>1, Bounds, MinIn DEF Target
<1>3. Target = Primary => \A y \in op.todo : y = Primary
  BY <1>1, <1>2, Bounds DEF Primary, Targets
<1> QED
  BY <1>1, <1>2, <1>3

-----------------------------------------------------------------------------
(* Operations *)

LEMMA NoOpIn == NoOp \in Ops
BY DEF NoOp, Ops, Steps

\* The fields of an operation that begins.
LEMMA BeganOp ==
    ASSUME NEW kind \in {"apply", "rollback"}, NEW by \in {"menu", "window"}, Began(kind, by), leaving \in BOOLEAN
    PROVE  /\ op' \in Ops /\ op'.kind = kind /\ op'.by = by /\ op'.late = leaving /\ op'.step = "begin" /\ op'.todo = Layout
           /\ op'.left = {} /\ op'.prior = None /\ gate' = "op"
<1>1. Layout \subseteq Targets
  BY DEF Layout
<1> QED
  BY <1>1 DEF Began, NoOp, Ops, Steps

\* The fields of an operation that goes on.
LEMMA GoOp ==
    ASSUME op \in Ops, NEW s \in Steps, Go(s)
    PROVE  /\ op' \in Ops /\ op'.kind = op.kind /\ op'.by = op.by /\ op'.late = op.late /\ op'.step = s /\ op'.todo = op.todo
           /\ op'.rel = op.rel /\ op'.new = op.new /\ op'.cached = op.cached /\ op'.prior = op.prior
           /\ op'.left = op.left /\ Target' = Target
<1>1. /\ op' \in Ops /\ op'.kind = op.kind /\ op'.by = op.by /\ op'.late = op.late /\ op'.step = s /\ op'.todo = op.todo
      /\ op'.rel = op.rel /\ op'.new = op.new /\ op'.cached = op.cached /\ op'.prior = op.prior
      /\ op'.left = op.left
  BY DEF Go, Ops
<1> QED
  BY <1>1 DEF Target

\* The next target.
LEMMA SwappedOp ==
    ASSUME op \in Ops, Target \in Targets, Swapped
    PROVE  /\ op' \in Ops /\ op'.kind = op.kind /\ op'.by = op.by /\ op'.late = op.late /\ op'.todo = op.todo \ {Target}
           /\ op'.step = IF Target = Primary THEN "label" ELSE "fetch"
           /\ op'.rel = op.rel /\ op'.prior = op.prior /\ op'.cached = op.cached
           /\ op'.left = op.left \cup {Target}
BY DEF Swapped, Ops, Steps

\* The release or the label is read.
LEMMA OpRel ==
    ASSUME op \in Ops, NEW s \in Steps, NEW rel \in {None} \cup Versions,
           op' = [op EXCEPT !.step = s, !.rel = rel]
    PROVE  /\ op' \in Ops /\ op'.kind = op.kind /\ op'.by = op.by /\ op'.late = op.late
           /\ op'.step = s /\ op'.todo = op.todo /\ op'.rel = rel /\ op'.prior = op.prior /\ op'.left = op.left
BY DEF Ops

\* The attestation is there.
LEMMA OpCached ==
    ASSUME op \in Ops, NEW s \in Steps,
           op' = [op EXCEPT !.step = s, !.cached = TRUE]
    PROVE  /\ op' \in Ops /\ op'.kind = op.kind /\ op'.by = op.by /\ op'.late = op.late
           /\ op'.step = s /\ op'.todo = op.todo /\ op'.rel = op.rel /\ op'.cached /\ op'.prior = op.prior /\ op'.left = op.left
BY DEF Ops

\* The label is remembered.
LEMMA OpPrior ==
    ASSUME op \in Ops, NEW s \in Steps, NEW v \in {None} \cup Versions,
           op' = [op EXCEPT !.step = s, !.prior = v]
    PROVE  /\ op' \in Ops /\ op'.kind = op.kind /\ op'.by = op.by /\ op'.late = op.late
           /\ op'.step = s /\ op'.todo = op.todo /\ op'.rel = op.rel /\ op'.cached = op.cached /\ op'.prior = v /\ op'.left = op.left
BY DEF Ops

\* An archive is there.
LEMMA OpNew ==
    ASSUME op \in Ops, NEW s \in Steps, NEW a \in {None} \cup Bad \cup Versions,
           op' = [op EXCEPT !.new = a, !.step = s]
    PROVE  /\ op' \in Ops /\ op'.kind = op.kind /\ op'.by = op.by /\ op'.late = op.late
           /\ op'.step = s /\ op'.todo = op.todo /\ op'.rel = op.rel /\ op'.new = a /\ op'.cached = op.cached
           /\ op'.prior = op.prior /\ op'.left = op.left
BY DEF Ops

\* A target is restored by an apply that failed.
LEMMA OpUnwound ==
    ASSUME op \in Ops, NEW t,
           op' = [op EXCEPT !.left = @ \ {t}]
    PROVE  /\ op' \in Ops /\ op'.kind = op.kind /\ op'.by = op.by /\ op'.late = op.late
           /\ op'.step = op.step /\ op'.todo = op.todo /\ op'.rel = op.rel /\ op'.prior = op.prior /\ op'.left = op.left \ {t}
BY DEF Ops

\* A target is restored by a rollback.
LEMMA OpVisited ==
    ASSUME op \in Ops, NEW s \in Steps, NEW t,
           op' = [op EXCEPT !.todo = @ \ {t}, !.step = s]
    PROVE  /\ op' \in Ops /\ op'.kind = op.kind /\ op'.by = op.by /\ op'.late = op.late
           /\ op'.step = s /\ op'.todo = op.todo \ {t} /\ op'.rel = op.rel /\ op'.prior = op.prior /\ op'.left = op.left
BY DEF Ops

\* The target that a step works on.
LEMMA AtTarget ==
    ASSUME UpdateInv, op.kind # "none",
           op.step \in {"begin", "preflight", "withdraw", "fetch", "clear", "aside", "in", "failed", "reinstate", "restore"}
    PROVE  /\ op \in Ops /\ Primary \in op.todo /\ Target \in op.todo /\ Target \in Targets
           /\ Target # Primary => Primary \in op.todo \ {Target}
           /\ Target = Primary => op.todo = {Primary}
BY TargetIn DEF UpdateInv, TypeOK, TargetLeft

LEMMA OpEnded == (Released \/ OpFails) => op' \in Ops
BY NoOpIn DEF Released, OpFails

\* An operation stays one.
LEMMA OpTyped ==
    ASSUME UpdateInv, [Next]_vars
    PROVE  op' \in Ops
<1>0. /\ op \in Ops /\ latest \in Versions /\ label \in {None} \cup Versions
      /\ (op.kind # "none" => op.rel \in {None} \cup Versions)
  BY DEF UpdateInv, TypeOK, Ops
<1> USE OpEnded
<1>1. CASE UNCHANGED op
  BY <1>0, <1>1
<1>2. CASE WindowStarts \/ MenuApply \/ MenuRollback
  <2>1. click \in {"none", "apply", "rollback"} /\ leaving \in BOOLEAN
    BY DEF UpdateInv, TypeOK
  <2>2. CASE WindowStarts
    BY <1>0, <2>1, <2>2, BeganOp DEF WindowStarts
  <2>3. CASE MenuApply \/ MenuRollback
    BY <1>0, <2>1, <2>3, BeganOp DEF MenuApply, MenuRollback
  <2> QED
    BY <1>2, <2>2, <2>3
<1>3. CASE ApplyBegin
  BY <1>0, <1>3, OpRel DEF ApplyBegin, Steps
<1>4. CASE Preflight
  BY <1>0, <1>4, OpCached DEF Preflight, Steps
<1>5. CASE Withdraw
  BY <1>0, <1>5, OpPrior DEF Withdraw, Steps
<1>6. CASE Fetch
  <2>1. op.rel \in {None} \cup Bad \cup Versions
    BY <1>0 DEF Ops
  <2>2. PICK archive \in {op.rel} \cup (IF faults > 0 THEN Bad ELSE {}) :
          op' = [op EXCEPT !.new = archive, !.step = IF Validate(archive, op.cached) THEN "clear" ELSE "failed"]
    BY <1>6 DEF Fetch
  <2>3. archive \in {None} \cup Bad \cup Versions
    BY <2>1, <2>2
  <2> QED
    BY <1>0, <2>2, <2>3, OpNew DEF Steps
<1>7. CASE ClearBackup \/ MoveAside \/ TargetFailed \/ WriteLabel \/ Forget
  BY <1>0, <1>7, GoOp DEF ClearBackup, MoveAside, TargetFailed, WriteLabel, Forget, Steps
<1>8. CASE MoveIn
  <2>1. Target \in Targets
    BY <1>8, AtTarget DEF MoveIn, At
  <2> QED
    BY <1>0, <1>8, <2>1, GoOp, SwappedOp DEF MoveIn, Steps
<1>9. CASE Reinstate
  BY <1>9 DEF Reinstate
<1>10. CASE Unwind
  <2>1. CASE OpFails
    BY <2>1
  <2>2. CASE \E t : op' = [op EXCEPT !.left = @ \ {t}]
    BY <1>0, <2>2, OpUnwound
  <2> QED
    BY <1>10, <2>1, <2>2 DEF Unwind
<1>11. CASE ApplyPlist \/ RollbackPlist
  BY <1>0, <1>11, GoOp DEF ApplyPlist, RollbackPlist, Steps
<1>12. CASE RollbackBegin
  BY <1>0, <1>12, OpRel DEF RollbackBegin, Steps
<1>13. CASE Restore
  BY <1>0, <1>13, OpVisited DEF Restore, Restored, Steps
<1>14. CASE OpEnds \/ Exit \/ Crash \/ Start
  BY <1>14, NoOpIn DEF OpEnds, Exit, Crash, Dies, Start
<1>15. CASE Publish \/ CheckStart \/ CheckEnd \/ (\E kind \in {"apply", "rollback"} : WindowReads(kind))
            \/ IngestStart \/ IngestEnd \/ Quit \/ Tick \/ RestartNow \/ Shutdown \/ UNCHANGED vars
  BY <1>1, <1>15 DEF Publish, CheckStart, CheckEnd, WindowReads, IngestStart, IngestEnd, Quit, Tick, RestartNow, Shutdown, Leaves, vars
<1> QED
  BY <1>2, <1>3, <1>4, <1>5, <1>6, <1>7, <1>8, <1>9, <1>10, <1>11, <1>12, <1>13, <1>14, <1>15 DEF Next

LEMMA FaultTyped == ASSUME faults \in 0..MaxFaults, Fault \/ NoFault PROVE faults' \in 0..MaxFaults /\ faults' <= faults
BY Bounds DEF Fault, NoFault

Places == {None} \cup Versions \cup Bad

\* A step of an operation that leaves latest, process and clicks alone.
LEMMA UntouchedType ==
    ASSUME TypeOK, op' \in Ops, Elsewhere, labelled' \in [Targets -> Places], leaving' \in BOOLEAN, phase' \in Phases, gate' \in {"free", "ingest", "op"},
           applyMu' \in {"free", "check", "op"}, faults' \in 0..MaxFaults,
           bin' \in [Targets -> Places], prev' \in [Targets -> Places],
           label' \in {None} \cup Versions, plist' \in Versions
    PROVE  TypeOK'
BY DEF TypeOK, Untouched, Elsewhere, proc, life, Places

LEMMA FailsType ==
    ASSUME TypeOK, OpFails
    PROVE  /\ phase' \in Phases /\ leaving' \in BOOLEAN
           /\ gate' \in {"free", "ingest", "op"} /\ applyMu' \in {"free", "check", "op"}
BY DEF TypeOK, OpFails, Released, Phases

LEMMA RestoreTyped ==
    ASSUME TypeOK, NEW t \in Targets, RestoreOne(t) \/ (RestoreFails(t) /\ UNCHANGED prev)
    PROVE  /\ bin' \in [Targets -> Places] /\ prev' \in [Targets -> Places]
           /\ faults' \in 0..MaxFaults /\ faults' <= faults
<1>1. bin \in [Targets -> Places] /\ prev \in [Targets -> Places] /\ faults \in 0..MaxFaults
  BY DEF TypeOK, Places
<1>2. bin' \in [Targets -> Places] /\ prev' \in [Targets -> Places]
  BY <1>1 DEF RestoreOne, RestoreFails, DropBackup, Places
<1>3. faults' \in 0..MaxFaults /\ faults' <= faults
  BY <1>1, Bounds DEF RestoreOne, RestoreFails, Fault, NoFault
<1> QED
  BY <1>2, <1>3

\* What a death in the middle of a restore may leave at a target.
LEMMA DiesBin ==
    ASSUME TypeOK, Dies
    PROVE  /\ bin' \in [Targets -> Places]
           /\ \A t \in Targets : bin'[t] = bin[t] \/ (prev[t] # None /\ bin'[t] \in {None, prev[t]})
<1>1. bin \in [Targets -> Places] /\ prev \in [Targets -> Places] /\ None \in Places
  BY DEF TypeOK, Places
<1>2. \A t \in Restoring : t \in Targets /\ prev[t] # None
  BY DEF Restoring
<1>3. CASE bin' = bin
  BY <1>1, <1>3
<1>4. ASSUME NEW t \in Restoring, NEW b \in {None, prev[t]}, bin' = [bin EXCEPT ![t] = b]
      PROVE  /\ bin' \in [Targets -> Places]
             /\ \A u \in Targets : bin'[u] = bin[u] \/ (prev[u] # None /\ bin'[u] \in {None, prev[u]})
  BY <1>1, <1>2, <1>4
<1> QED
  BY <1>3, <1>4 DEF Dies

\* Types are kept.
LEMMA Typed ==
    ASSUME UpdateInv, [Next]_vars
    PROVE  TypeOK'
<1>0. /\ TypeOK /\ op' \in Ops /\ op \in Ops /\ op.todo \subseteq Targets /\ op.left \subseteq Targets
      /\ bin \in [Targets -> Places] /\ prev \in [Targets -> Places]
      /\ label \in {None} \cup Versions /\ plist \in Versions /\ running \in Versions
      /\ phase \in Phases /\ gate \in {"free", "ingest", "op"} /\ applyMu \in {"free", "check", "op"}
      /\ faults \in 0..MaxFaults /\ op.prior \in {None} \cup Versions /\ op.new \in {None} \cup Versions \cup Bad
      /\ leaving \in BOOLEAN /\ labelled \in [Targets -> Places]
      /\ Untouched => Elsewhere /\ labelled' \in [Targets -> Places]
  BY OpTyped DEF UpdateInv, TypeOK, Ops, Places, Untouched
<1>1. CASE Publish
  BY <1>0, <1>1, Bounds DEF Publish, TypeOK, files, proc, life, status, locks, ended, bounds, history, Versions
<1>2. CASE CheckStart \/ CheckEnd
  <2>1. faults' \in 0..MaxFaults
    BY <1>0, <1>2, FaultTyped DEF CheckStart, CheckEnd, bounds, history
  <2>2. phase' \in Phases /\ found' \in BOOLEAN
    <3>1. CASE CheckStart
      BY <1>0, <3>1 DEF CheckStart, Phases, TypeOK
    <3>2. CASE CheckEnd
      <4>1. found' \in BOOLEAN
        <5>1. CASE found' = (latest > running)
          <6>1. (latest > running) = TRUE \/ (latest > running) = FALSE
            OBVIOUS
          <6> QED
            BY <5>1, <6>1
        <5>2. CASE UNCHANGED found
          BY <1>0, <5>2 DEF TypeOK
        <5> QED
          BY <3>2, <5>1, <5>2 DEF CheckEnd
      <4>2. phase' \in Phases
        BY <3>2 DEF CheckEnd, Phases
      <4> QED
        BY <4>1, <4>2
    <3> QED
      BY <1>2, <3>1, <3>2
  <2> QED
    BY <1>0, <1>2, <2>1, <2>2 DEF CheckStart, CheckEnd, TypeOK, files, proc, life, status, locks, ended, bounds, history
<1>3. CASE (\E kind \in {"apply", "rollback"} : WindowReads(kind)) \/ MenuApply \/ MenuRollback
  <2>1. Clicked => ops' \in 0..MaxOps
    BY <1>0, Bounds DEF Clicked, TypeOK
  <2> QED
    <3>1. CASE \E kind \in {"apply", "rollback"} : WindowReads(kind)
      BY <1>0, <2>1, <3>1 DEF WindowReads, TypeOK, files, proc, life, status, locks, ended, bounds, history
    <3>2. CASE MenuApply
      BY <1>0, <2>1, <3>2 DEF MenuApply, Began, TypeOK, files, proc, life, status, locks, ended, bounds, history, Phases
    <3>3. CASE MenuRollback
      BY <1>0, <2>1, <3>3 DEF MenuRollback, Began, TypeOK, files, proc, life, status, locks, ended, bounds, history
    <3> QED
      BY <1>3, <3>1, <3>2, <3>3
<1>4. CASE WindowStarts
  BY <1>0, <1>4 DEF WindowStarts, Began, TypeOK, files, proc, life, status, locks, ended, bounds, history, Phases
<1>5. CASE OpEnds
  BY <1>0, <1>5 DEF OpEnds, Released, TypeOK, files, proc, life, status, locks, ended, bounds, history, Phases
<1>6. CASE ApplyBegin
  <2>1. phase' \in Phases /\ gate' \in {"free", "ingest", "op"} /\ applyMu' \in {"free", "check", "op"}
    BY <1>0, <1>6, FailsType DEF ApplyBegin, locks, ended, Phases
  <2>2. faults' \in 0..MaxFaults /\ clean' \in BOOLEAN
    BY <1>0, <1>6, FaultTyped DEF ApplyBegin
  <2>3. leaving' \in BOOLEAN
    BY <1>0, <1>6, FailsType DEF ApplyBegin
  <2> QED
    BY <1>0, <1>6, <2>1, <2>2, <2>3 DEF ApplyBegin, TypeOK, files, proc, life
<1>7. CASE Preflight \/ RollbackBegin
  BY <1>0, <1>7, FailsType, FaultTyped, UntouchedType DEF Preflight, RollbackBegin, files, locks, ended
<1>8. CASE Withdraw
  BY <1>0, <1>8, FailsType, FaultTyped, UntouchedType DEF Withdraw, locks, ended
<1>9. CASE Fetch
  <2>1. faults' \in 0..MaxFaults
    <3>1. PICK archive \in {op.rel} \cup (IF faults > 0 THEN Bad ELSE {}) :
            faults' = IF archive \in Bad THEN faults - 1 ELSE faults
      BY <1>9 DEF Fetch
    <3>2. op.rel \in Versions
      BY <1>9 DEF Fetch, At, UpdateInv, Swappable, Applying, Steps
    <3>3. archive \in Bad => faults > 0
      BY <3>1, <3>2, Bounds
    <3> QED
      BY <1>0, <3>1, <3>3, Bounds
  <2> QED
    BY <1>0, <1>9, <2>1, UntouchedType DEF Fetch, files, locks, ended
<1>10. CASE ClearBackup \/ MoveAside
  <2>1. Target \in Targets
    BY <1>10, AtTarget DEF ClearBackup, MoveAside, At
  <2>2. bin' \in [Targets -> Places] /\ prev' \in [Targets -> Places]
    BY <1>0, <1>10, <2>1 DEF ClearBackup, MoveAside, Places
  <2> QED
    BY <1>0, <1>10, <2>2, FaultTyped, UntouchedType DEF ClearBackup, MoveAside, locks, ended
<1>11. CASE MoveIn
  <2>1. Target \in Targets
    BY <1>11, AtTarget DEF MoveIn, At
  <2>2. bin' \in [Targets -> Places] /\ prev' \in [Targets -> Places]
    BY <1>0, <1>11, <2>1 DEF MoveIn, Places
  <2>3. faults' \in 0..MaxFaults
    BY <1>0, <1>11, FaultTyped, Bounds DEF MoveIn
  <2> QED
    BY <1>0, <1>11, <2>2, <2>3, UntouchedType DEF MoveIn, locks, ended
<1>12. CASE TargetFailed
  <2>1. Target \in Targets
    BY <1>12, AtTarget DEF TargetFailed, At
  <2>2. bin' \in [Targets -> Places] /\ prev' \in [Targets -> Places]
    BY <1>0, <1>12, <2>1 DEF TargetFailed, RecoverFailedSwap, Places
  <2> QED
    BY <1>0, <1>12, <2>2, FaultTyped, UntouchedType DEF TargetFailed, locks, ended
<1>13. CASE Reinstate
  BY <1>0, <1>13, FailsType, FaultTyped, UntouchedType DEF Reinstate
<1>14. CASE Unwind
  <2>1. CASE OpFails /\ NoFault /\ UNCHANGED <<bin, prev>>
    BY <1>0, <1>14, <2>1, FailsType, FaultTyped, UntouchedType DEF Unwind
  <2>2. ASSUME NEW t, t = Max(op.left), op.left # {}, RestoreOne(t) \/ (RestoreFails(t) /\ UNCHANGED prev),
               UNCHANGED ended
        PROVE  TypeOK'
    <3>1. t \in Targets
      BY <1>0, <2>2, MaxIn
    <3> QED
      BY <1>0, <1>14, <2>2, <3>1, RestoreTyped, UntouchedType DEF Unwind, locks, ended
  <2> QED
    BY <1>14, <2>1, <2>2 DEF Unwind, ToRestore
<1>15. CASE WriteLabel \/ Forget
  <2>1. Elsewhere /\ labelled' \in [Targets -> Places]
    BY <1>0, <1>15 DEF WriteLabel, Forget
  <2> QED
    BY <1>0, <1>15, <2>1, FaultTyped, UntouchedType DEF WriteLabel, Forget, locks, ended
<1>16. CASE ApplyPlist \/ RollbackPlist
  <2>1. op.rel \in Versions
    BY <1>16 DEF ApplyPlist, RollbackPlist, At, UpdateInv, Swappable, Applying, RollingBack, Steps
  <2> QED
    BY <1>0, <1>16, <2>1, FailsType, FaultTyped, UntouchedType DEF ApplyPlist, RollbackPlist, locks, ended
<1>17. CASE Restore
  <2>1. Target \in Targets
    BY <1>17, AtTarget DEF Restore, At
  <2>2. RestoreOne(Target) \/ (RestoreFails(Target) /\ UNCHANGED prev)
    BY <1>17 DEF Restore
  <2> QED
    BY <1>0, <1>17, <2>1, <2>2, FailsType, RestoreTyped, UntouchedType DEF Restore, locks, ended
<1>18. CASE IngestStart \/ IngestEnd \/ Quit \/ Tick \/ RestartNow \/ Shutdown \/ Exit \/ Crash \/ Start
  <2>1. CASE IngestStart \/ IngestEnd
    BY <1>0, <2>1 DEF IngestStart, IngestEnd, TypeOK, files, proc, life, status, locks, bounds, history
  <2>2. CASE Quit \/ Tick \/ RestartNow \/ Shutdown
    BY <1>0, <2>2 DEF Quit, Tick, RestartNow, Shutdown, Leaves, TypeOK, files, proc, life, status, locks, bounds, history
  <2>3. CASE Exit \/ Crash
    <3>1. crashes' \in 0..MaxCrashes /\ cut' \in BOOLEAN
      BY <1>0, <2>3, Bounds DEF Exit, Crash, TypeOK
    <3>2. Dies
      BY <2>3 DEF Exit, Crash
    <3>3. bin' \in [Targets -> Places]
      BY <1>0, <3>2, DiesBin
    <3> QED
      BY <1>0, <3>1, <3>2, <3>3 DEF Dies, TypeOK, Places, files, status, locks
  <2>4. CASE Start
    BY <1>0, <2>4 DEF Start, TypeOK, files, proc, life, status, locks, bounds, history, Phases
  <2> QED
    BY <1>18, <2>1, <2>2, <2>3, <2>4
<1>19. CASE UNCHANGED vars
  BY <1>0, <1>19 DEF vars, TypeOK, files, proc, life, status, locks, ended, bounds, history
<1> QED
  BY <1>1, <1>2, <1>3, <1>4, <1>5, <1>6, <1>7, <1>8, <1>9, <1>10, <1>11, <1>12, <1>13, <1>14, <1>15, <1>16, <1>17,
     <1>18, <1>19 DEF Next

-----------------------------------------------------------------------------
(* Locks *)

LEMMA HeldEnds == op' = NoOp => OpHeld'
BY DEF OpHeld, NoOp

LEMMA HeldGoes ==
    ASSUME UpdateInv, op.kind # "none", op'.kind = op.kind, op'.by = op.by, op'.late = op.late,
           UNCHANGED <<alive, leaving, gate, applyMu>>,
           phase' = phase \/ phase' = "verifying"
    PROVE  OpHeld'
BY DEF UpdateInv, OpHeld

\* An operation runs under its locks, and nobody else changes its phase.
LEMMA Held ==
    ASSUME UpdateInv, [Next]_vars
    PROVE  OpHeld'
<1>0. /\ op \in Ops /\ OpHeld /\ op.kind \in {"none", "apply", "rollback"} /\ op.by \in {"none", "menu", "window"}
      /\ latest \in Versions /\ label \in {None} \cup Versions
      /\ leaving \in BOOLEAN
  BY DEF UpdateInv, TypeOK, Ops
<1>1. CASE OpFails \/ OpEnds \/ Exit \/ Crash \/ Start \/ Reinstate
  BY <1>1, HeldEnds DEF OpFails, OpEnds, Released, Exit, Crash, Dies, Start, Reinstate
<1>2. CASE WindowStarts
  <2>1. click \in {"none", "apply", "rollback"} /\ leaving \in BOOLEAN
    BY DEF UpdateInv, TypeOK
  <2>2. CASE UNCHANGED <<locks, phase, op>>
    BY <1>0, <1>2, <2>2 DEF WindowStarts, OpHeld, locks, ended, proc, life
  <2>3. CASE /\ Began(click, "window") /\ click # "none" /\ applyMu' = "op"
             /\ phase' = IF click = "apply" THEN "downloading" ELSE "rolling back"
    <3>1. alive'
      BY <1>2 DEF WindowStarts, proc, life
    <3>2. op'.kind # "none" /\ op'.by = "window" /\ op'.late = leaving /\ UNCHANGED leaving /\ gate' = "op"
      BY <1>2, <2>1, <2>3, BeganOp DEF WindowStarts, proc
    <3> QED
      BY <2>3, <3>1, <3>2 DEF OpHeld
  <2> QED
    BY <1>2, <2>2, <2>3 DEF WindowStarts
<1>3. CASE MenuApply \/ MenuRollback
  <2>2. CASE UNCHANGED <<locks, phase, op>>
    BY <1>0, <1>3, <2>2 DEF MenuApply, MenuRollback, OpHeld, locks, ended, proc, life
  <2>3. CASE Began("apply", "menu") \/ Began("rollback", "menu")
    <3>1. alive'
      BY <1>3 DEF MenuApply, MenuRollback, proc, life
    <3>2. op'.kind # "none" /\ op'.by = "menu" /\ op'.late = leaving /\ UNCHANGED leaving /\ gate' = "op"
      BY <1>0, <1>3, <2>3, BeganOp DEF MenuApply, MenuRollback, proc
    <3> QED
      BY <3>1, <3>2 DEF OpHeld
  <2> QED
    BY <1>3, <2>2, <2>3 DEF MenuApply, MenuRollback
<1>4. CASE ApplyBegin \/ Preflight \/ Withdraw \/ RollbackBegin
  <2>1. CASE OpFails
    BY <1>1, <2>1
  <2>2. CASE ~OpFails
    <3>1. op.kind # "none" /\ UNCHANGED <<alive, leaving, gate, applyMu>> /\ (phase' = phase \/ phase' = "verifying")
      BY <1>4, <2>2 DEF ApplyBegin, Preflight, Withdraw, RollbackBegin, At, Untouched, Elsewhere, proc, life, locks, ended
    <3>2. op'.kind = op.kind /\ op'.by = op.by /\ op'.late = op.late
      BY <1>0, <1>4, <2>2, OpRel, OpCached, OpPrior DEF ApplyBegin, Preflight, Withdraw, RollbackBegin, Steps
    <3> QED
      BY <3>1, <3>2, HeldGoes
  <2> QED
    BY <2>1, <2>2
<1>5. CASE Fetch
  <2>1. op'.kind = op.kind /\ op'.by = op.by /\ op'.late = op.late
    BY <1>0, <1>5 DEF Fetch, Ops
  <2> QED
    BY <1>5, <2>1, HeldGoes DEF Fetch, At, Untouched, Elsewhere, proc, life, locks, ended
<1>6. CASE ClearBackup \/ MoveAside \/ TargetFailed \/ WriteLabel \/ Forget
  <2>1. op'.kind = op.kind /\ op'.by = op.by /\ op'.late = op.late
    BY <1>0, <1>6, GoOp DEF ClearBackup, MoveAside, TargetFailed, WriteLabel, Forget, Steps
  <2> QED
    BY <1>6, <2>1, HeldGoes DEF ClearBackup, MoveAside, TargetFailed, WriteLabel, Forget, At, Untouched, Elsewhere, proc, life, locks, ended
<1>7. CASE MoveIn
  <2>0. Target \in Targets
    BY <1>7, AtTarget DEF MoveIn, At
  <2>1. op'.kind = op.kind /\ op'.by = op.by /\ op'.late = op.late
    BY <1>0, <1>7, <2>0, GoOp, SwappedOp DEF MoveIn, Steps
  <2> QED
    BY <1>7, <2>1, HeldGoes DEF MoveIn, At, Untouched, Elsewhere, proc, life, locks, ended
<1>8. CASE Unwind
  <2>1. CASE OpFails
    BY <1>1, <2>1
  <2>2. CASE \E t : op' = [op EXCEPT !.left = @ \ {t}] /\ UNCHANGED ended
    BY <1>0, <1>8, <2>2, OpUnwound, HeldGoes DEF Unwind, At, Untouched, Elsewhere, proc, life, locks, ended
  <2> QED
    BY <1>8, <2>1, <2>2 DEF Unwind
<1>9. CASE ApplyPlist \/ RollbackPlist
  <2>1. CASE OpFails
    BY <1>1, <2>1
  <2>2. CASE (Go("end") \/ Go("forget")) /\ UNCHANGED ended
    BY <1>0, <1>9, <2>2, GoOp, HeldGoes DEF ApplyPlist, RollbackPlist, At, Untouched, Elsewhere, proc, life, locks, ended, Steps
  <2> QED
    BY <1>9, <2>1, <2>2 DEF ApplyPlist, RollbackPlist
<1>10. CASE Restore
  <2>1. CASE OpFails
    BY <1>1, <2>1
  <2>2. CASE Restored /\ UNCHANGED ended
    BY <1>0, <1>10, <2>2, OpVisited, HeldGoes DEF Restore, Restored, At, Untouched, Elsewhere, proc, life, locks, ended, Steps
  <2> QED
    BY <1>10, <2>1, <2>2 DEF Restore
<1>11. CASE Publish \/ CheckStart \/ CheckEnd \/ (\E kind \in {"apply", "rollback"} : WindowReads(kind))
            \/ IngestStart \/ IngestEnd \/ UNCHANGED vars
  <2>1. /\ UNCHANGED <<alive, leaving, op>>
        /\ UNCHANGED gate \/ op.kind = "none"
        /\ UNCHANGED <<applyMu, phase>> \/ op.by # "window"
    BY <1>0, <1>11 DEF Publish, CheckStart, CheckMayRun, CheckEnd, WindowReads, IngestStart, IngestEnd, vars, proc, life, locks, status, OpHeld
  <2> QED
    BY <1>0, <2>1 DEF OpHeld, NoOp
<1>12. CASE Quit \/ Tick \/ RestartNow \/ Shutdown
  <2>1. UNCHANGED <<alive, op, gate, applyMu, phase>>
    BY <1>12 DEF Quit, Tick, RestartNow, Shutdown, Leaves, life, locks, status
  <2>2. CASE UNCHANGED leaving
    BY <1>0, <2>1, <2>2 DEF OpHeld
  <2>3. CASE ~UNCHANGED leaving
    <3>1. ~QuitBlocked \/ (phase = "restarting" /\ op.by # "menu") \/ gate = "free"
      BY <1>12, <2>3 DEF Quit, Tick, RestartNow, Shutdown
    <3>2. op.kind = "none"
      BY <1>0, <3>1 DEF QuitBlocked, OpHeld
    <3> QED
      BY <1>0, <2>1, <3>2, HeldEnds DEF OpHeld
  <2> QED
    BY <2>2, <2>3
<1> QED
  BY <1>1, <1>2, <1>3, <1>4, <1>5, <1>6, <1>7, <1>8, <1>9, <1>10, <1>11, <1>12 DEF Next

-----------------------------------------------------------------------------
(* Files *)

FileInv == TargetLeft /\ Swappable /\ Recoverable /\ Withdrawn /\ LabelKept /\ LabelNamed /\ Halfway /\ Undone
Sound   == (\A t \in Targets : bin[t] # None) /\ (Same \/ RollbackInfo)
Kept    == /\ TwoFaults /\ label # None => AsLabelled
           /\ clean /\ label # None => \A t \in Targets : labelled[t] = label

LEMMA Parts == UpdateInv <=> TypeOK /\ OpHeld /\ FileInv
BY DEF UpdateInv, FileInv

LEMMA Count ==
    ASSUME NEW m \in Nat, NEW n \in Nat, NEW f \in Nat, NEW g \in Nat, g <= f, NEW c \in 0..n, NEW d \in 0..n, d <= c
    PROVE  /\ m - g <= 2 => m - f <= 2
           /\ m - g <= 1 => m - f <= 1
           /\ m - f <= 1 => m - f <= 2
           /\ d = n => c = n
           /\ f < m => g < m
           /\ f + 2 <= m => g + 2 <= m
OBVIOUS

\* Faults and crashes only make the premises fewer.
LEMMA Fewer ==
    ASSUME TypeOK, TypeOK', faults' <= faults, crashes' <= crashes, clean' => clean, cut => cut'
    PROVE  /\ TwoFaults' => TwoFaults
           /\ OneFault' => OneFault
           /\ OneFault => TwoFaults
           /\ faults < MaxFaults => faults' < MaxFaults
           /\ faults + 2 <= MaxFaults => faults' + 2 <= MaxFaults
<1>1. /\ faults \in Nat /\ faults' \in Nat /\ crashes \in 0..MaxCrashes /\ crashes' \in 0..MaxCrashes
      /\ MaxFaults \in Nat /\ MaxCrashes \in Nat
  BY Bounds DEF TypeOK
<1> QED
  <2>1. /\ MaxFaults - faults' <= 2 => MaxFaults - faults <= 2
        /\ MaxFaults - faults' <= 1 => MaxFaults - faults <= 1
        /\ MaxFaults - faults <= 1 => MaxFaults - faults <= 2
        /\ crashes' = MaxCrashes => crashes = MaxCrashes
        /\ faults < MaxFaults => faults' < MaxFaults
        /\ faults + 2 <= MaxFaults => faults' + 2 <= MaxFaults
    BY <1>1, Count
  <2> QED
    BY <2>1 DEF TwoFaults, OneFault

\* A step that is not about files or the operation.
LEMMA FilesFrame ==
    ASSUME UpdateInv, TypeOK', UNCHANGED <<bin, prev, label, op, running, clean, cut, labelled>>, faults' <= faults, crashes' <= crashes
    PROVE  FileInv'
<1>0. TypeOK /\ Target' = Target
  BY DEF UpdateInv, Target
<1>1. TargetLeft'
  BY <1>0, Fewer DEF UpdateInv, TargetLeft, Layout, Applying
<1>2. Swappable'
  BY <1>0, Fewer DEF UpdateInv, Swappable, Applying, RollingBack
<1>3. Recoverable' /\ Withdrawn'
  BY DEF UpdateInv, Recoverable, Withdrawn, Applying
<1>4. LabelKept' /\ LabelNamed'
  BY <1>0, Fewer DEF UpdateInv, LabelKept, LabelNamed, Applying, AsLabelled
<1>5. Halfway'
  BY <1>0 DEF UpdateInv, Halfway, Applying, Old, New
<1>6. Undone'
  BY <1>0, Fewer DEF UpdateInv, Undone, Applying, RollingBack, Same, RollbackInfo, LayoutFound
<1> QED
  BY <1>1, <1>2, <1>3, <1>4, <1>5, <1>6 DEF FileInv

\* The end of an operation.
LEMMA FilesEnd ==
    ASSUME UpdateInv, TypeOK', op' = NoOp, Recoverable', Kept', OneFault' => Sound'
    PROVE  FileInv'
<1>1. op'.kind = "none" /\ op'.todo = {}
  BY DEF NoOp
<1> QED
  BY <1>1 DEF FileInv, TargetLeft, Swappable, Withdrawn, Kept, LabelKept, LabelNamed, Halfway, Undone, Sound, Applying, RollingBack

\* The end of an operation in a step that leaves the files alone.
LEMMA FilesEndFrame ==
    ASSUME UpdateInv, TypeOK', op' = NoOp, UNCHANGED <<bin, prev, label, labelled>>, clean' => clean, cut => cut',
           faults' <= faults, crashes' <= crashes, OneFault /\ OneFault' => Sound
    PROVE  FileInv'
<1>0. TypeOK
  BY DEF UpdateInv
<1>1. Recoverable'
  BY DEF UpdateInv, Recoverable
<1>2. Kept'
  BY <1>0, Fewer DEF UpdateInv, LabelKept, LabelNamed, Kept, AsLabelled
<1>3. OneFault' => Sound'
  BY <1>0, Fewer DEF Sound, Same, RollbackInfo, LayoutFound
<1> QED
  BY <1>1, <1>2, <1>3, FilesEnd

\* An operation begins.
LEMMA FilesBegin ==
    ASSUME UpdateInv, TypeOK', op.kind = "none", op'.kind \in {"apply", "rollback"}, op'.step = "begin", op'.todo = Layout,
           op'.left = {}, UNCHANGED <<bin, prev, label, running, clean, cut, labelled, faults, crashes>>
    PROVE  FileInv'
<1>0. TypeOK /\ Layout' = Layout /\ Primary \in Layout
  BY Bounds DEF UpdateInv, Layout
<1>1. TargetLeft'
  BY <1>0 DEF TargetLeft, Applying
<1>2. Swappable' /\ Withdrawn' /\ Halfway'
  BY DEF Swappable, Withdrawn, Halfway, Applying, RollingBack
<1>3. Recoverable'
  BY DEF UpdateInv, Recoverable
<1>4. LabelKept' /\ LabelNamed'
  BY DEF UpdateInv, LabelKept, LabelNamed, TwoFaults, Applying, AsLabelled
<1>5. Undone'
  BY DEF UpdateInv, Undone, OneFault, Applying, RollingBack, Same, RollbackInfo, LayoutFound
<1> QED
  BY <1>1, <1>2, <1>3, <1>4, <1>5 DEF FileInv

\* Before the first file is touched, a failure changes nothing.
LEMMA EarlyFails ==
    ASSUME UpdateInv, TypeOK', op.kind # "none", op.step \in {"begin", "preflight", "withdraw"}, OpFails,
           UNCHANGED <<bin, prev, label, labelled, cut>>, clean' => clean, faults' <= faults, crashes' <= crashes
    PROVE  FileInv'
<1>1. op' = NoOp
  BY DEF OpFails, Released
<1>2. OneFault => Sound
  BY DEF UpdateInv, Undone, Sound
<1> QED
  BY <1>1, <1>2, FilesEndFrame

LEMMA ApplyBeginFiles ==
    ASSUME UpdateInv, TypeOK', ApplyBegin
    PROVE  FileInv'
<1>0. /\ TypeOK /\ op \in Ops /\ op.kind = "apply" /\ op.step = "begin" /\ UNCHANGED <<bin, prev, label, labelled, cut, running, crashes>>
      /\ latest \in Versions /\ running \in Versions /\ faults \in 0..MaxFaults
      /\ op.todo = Layout /\ op.left = {} /\ Primary \in op.todo
  BY DEF ApplyBegin, At, UpdateInv, TypeOK, TargetLeft, files, proc, life
<1>1. clean' => clean /\ \A t \in Targets : bin[t] = running
  BY DEF ApplyBegin
<1>2. CASE OpFails
  <2>1. faults' <= faults
    BY <1>0, <1>2, FaultTyped DEF ApplyBegin
  <2> QED
    BY <1>0, <1>1, <1>2, <2>1, EarlyFails, Bounds DEF TypeOK
<1>3. CASE NoFault /\ LayoutFound /\ op' = [op EXCEPT !.step = "preflight", !.rel = latest]
  <2>1. /\ op'.kind = "apply" /\ op'.step = "preflight" /\ op'.todo = op.todo /\ op'.rel = latest /\ op'.left = {}
        /\ faults' = faults
    BY <1>0, <1>3, OpRel DEF Steps, NoFault
  <2>2. \A t \in op.todo : bin[t] # None
    BY <1>0, <1>3 DEF Layout, LayoutFound
  <2>3. TargetLeft'
    BY <1>0, <2>1 DEF TargetLeft, Applying
  <2>4. Swappable'
    BY <1>0, <2>1, <2>2 DEF Swappable, Applying, RollingBack
  <2>5. Recoverable' /\ Withdrawn'
    BY <1>0, <2>1 DEF UpdateInv, Recoverable, Withdrawn, Applying
  <2>6. LabelKept' /\ LabelNamed'
    <3>1. TwoFaults' <=> TwoFaults
      BY <2>1 DEF TwoFaults
    <3> QED
      BY <1>0, <1>1, <2>1, <3>1 DEF UpdateInv, LabelKept, LabelNamed, Applying, AsLabelled
  <2>7. Halfway'
    <3>1. clean' => \A t \in Targets : t \in Layout
      BY <1>0, <1>1, Bounds DEF Layout
    <3> QED
      BY <1>0, <1>1, <2>1, <3>1 DEF Halfway, Applying, Old
  <2>8. Undone'
    <3>1. OneFault' => OneFault
      BY <1>0, <1>1, <2>1 DEF OneFault
    <3> QED
      BY <1>0, <2>1, <3>1 DEF UpdateInv, Undone, Applying, RollingBack, Same, RollbackInfo, LayoutFound
  <2> QED
    BY <2>3, <2>4, <2>5, <2>6, <2>7, <2>8 DEF FileInv
<1> QED
  BY <1>2, <1>3 DEF ApplyBegin

\* What a step of an operation leaves alone.
LEMMA ElsewhereFacts ==
    ASSUME UpdateInv, Elsewhere
    PROVE  /\ TypeOK /\ op \in Ops /\ UNCHANGED <<running, clean, cut, crashes>> /\ crashes' <= crashes /\ (clean' => clean) /\ (cut => cut')
           /\ running \in Versions /\ faults \in 0..MaxFaults /\ bin \in [Targets -> Places] /\ prev \in [Targets -> Places]
           /\ op.todo \subseteq Targets /\ op.left \subseteq Targets
<1>1. crashes \in Nat /\ UNCHANGED crashes
  BY Bounds DEF UpdateInv, TypeOK, Elsewhere
<1>2. crashes' <= crashes
  BY <1>1
<1> QED
  BY <1>2 DEF UpdateInv, TypeOK, Elsewhere, life, Ops, Places

LEMMA StepFacts ==
    ASSUME UpdateInv, Untouched
    PROVE  /\ TypeOK /\ op \in Ops /\ UNCHANGED <<running, clean, cut, labelled, crashes>> /\ crashes' <= crashes /\ (clean' => clean) /\ (cut => cut')
           /\ running \in Versions /\ faults \in 0..MaxFaults /\ bin \in [Targets -> Places] /\ prev \in [Targets -> Places]
           /\ op.todo \subseteq Targets /\ op.left \subseteq Targets
BY ElsewhereFacts DEF Untouched

\* The withdrawn label goes on naming what it named.
LEMMA NamedGoes ==
    ASSUME UpdateInv, op.kind = "apply", op.step \in {"fetch", "clear", "aside", "in", "failed", "reinstate"},
           op'.prior = op.prior, UNCHANGED <<clean, labelled, label>>
    PROVE  LabelNamed'
<1>1. label' = None
  BY DEF UpdateInv, Withdrawn, Applying
<1>2. clean' /\ op'.prior # None => \A t \in Targets : labelled'[t] = op'.prior
  BY DEF UpdateInv, LabelNamed, Applying
<1> QED
  BY <1>1, <1>2 DEF LabelNamed

LEMMA PreflightFiles ==
    ASSUME UpdateInv, TypeOK', Preflight
    PROVE  FileInv'
<1>0. At("apply", "preflight") /\ UNCHANGED <<bin, prev, label>> /\ Untouched
  BY DEF Preflight, files
<1> USE <1>0, StepFacts
<1>1. CASE OpFails
  <2>1. faults' <= faults
    BY FaultTyped DEF Preflight
  <2> QED
    BY <1>1, <2>1, EarlyFails DEF At
<1>2. CASE NoFault /\ op' = [op EXCEPT !.step = "withdraw", !.cached = TRUE]
  <2>1. /\ op'.kind = "apply" /\ op'.step = "withdraw" /\ op'.todo = op.todo /\ op'.rel = op.rel /\ op'.left = op.left
        /\ op'.cached /\ op'.prior = op.prior /\ faults' = faults /\ op.kind = "apply" /\ op.step = "preflight"
    BY <1>2, OpCached DEF Steps, NoFault, At
  <2>2. TargetLeft'
    BY <2>1 DEF UpdateInv, TargetLeft, Applying
  <2>3. Swappable'
    BY <2>1 DEF UpdateInv, Swappable, Applying, RollingBack, Steps
  <2>4. Recoverable' /\ Withdrawn'
    BY <2>1 DEF UpdateInv, Recoverable, Withdrawn, Applying
  <2>5. LabelKept' /\ LabelNamed'
    BY <2>1 DEF UpdateInv, LabelKept, LabelNamed, TwoFaults, Applying, AsLabelled
  <2>6. Halfway'
    BY <2>1 DEF UpdateInv, Halfway, Applying, Old
  <2>7. Undone'
    BY <2>1 DEF UpdateInv, Undone, OneFault, Applying, RollingBack, Same, RollbackInfo, LayoutFound
  <2> QED
    BY <2>2, <2>3, <2>4, <2>5, <2>6, <2>7 DEF FileInv
<1> QED
  BY <1>1, <1>2 DEF Preflight

LEMMA WithdrawFiles ==
    ASSUME UpdateInv, TypeOK', Withdraw
    PROVE  FileInv'
<1>0. At("apply", "withdraw") /\ UNCHANGED <<bin, prev>> /\ Untouched
  BY DEF Withdraw
<1> USE <1>0, StepFacts
<1>1. CASE OpFails /\ UNCHANGED label
  <2>1. faults' <= faults
    BY FaultTyped DEF Withdraw
  <2> QED
    BY <1>1, <2>1, EarlyFails DEF At
<1>2. CASE NoFault /\ label' = None /\ op' = [op EXCEPT !.step = "fetch", !.prior = label]
  <2>0. label \in {None} \cup Versions
    BY DEF TypeOK
  <2>1. /\ op'.kind = "apply" /\ op'.step = "fetch" /\ op'.todo = op.todo /\ op'.rel = op.rel /\ op'.left = op.left
        /\ op'.cached = op.cached /\ op'.prior = label /\ faults' = faults /\ op.kind = "apply" /\ op.step = "withdraw"
    BY <1>2, <2>0, OpPrior DEF Steps, NoFault, At
  <2>2. TargetLeft'
    BY <2>1 DEF UpdateInv, TargetLeft, Applying
  <2>3. Swappable'
    BY <2>1 DEF UpdateInv, Swappable, Applying, RollingBack, Steps
  <2>4. Recoverable' /\ Withdrawn'
    BY <1>2, <2>1 DEF UpdateInv, Recoverable, Withdrawn
  <2>5. LabelKept' /\ LabelNamed'
    BY <1>2, <2>1 DEF UpdateInv, LabelKept, LabelNamed, TwoFaults, Applying, AsLabelled
  <2>6. Halfway'
    BY <2>1 DEF UpdateInv, Halfway, Applying, Old
  <2>7. Undone'
    BY <2>1 DEF Undone, Applying, RollingBack
  <2> QED
    BY <2>2, <2>3, <2>4, <2>5, <2>6, <2>7 DEF FileInv
<1> QED
  BY <1>1, <1>2 DEF Withdraw

\* An archive that passes the validator is the release's.
LEMMA FetchFiles ==
    ASSUME UpdateInv, TypeOK', Fetch
    PROVE  FileInv'
<1>0. At("apply", "fetch") /\ UNCHANGED <<bin, prev, label>> /\ Untouched
  BY DEF Fetch, files
<1> USE <1>0, StepFacts
<1>1. PICK archive \in {op.rel} \cup (IF faults > 0 THEN Bad ELSE {}) :
        /\ faults' = IF archive \in Bad THEN faults - 1 ELSE faults
        /\ op' = [op EXCEPT !.new = archive, !.step = IF Validate(archive, op.cached) THEN "clear" ELSE "failed"]
  BY DEF Fetch
<1>2. op.rel \in Versions /\ op.cached /\ op.kind = "apply" /\ op.step = "fetch"
  BY DEF At, UpdateInv, Swappable, Applying, Steps
<1>3. archive \in {None} \cup Bad \cup Versions /\ (archive \in Bad => faults > 0)
  BY <1>1, <1>2, Bounds
<1>4. /\ op'.kind = "apply" /\ op'.step = (IF Validate(archive, op.cached) THEN "clear" ELSE "failed") /\ op'.todo = op.todo
      /\ op'.rel = op.rel /\ op'.new = archive /\ op'.left = op.left /\ op'.prior = op.prior /\ op'.cached = op.cached
  BY <1>1, <1>2, <1>3, OpNew, ZenonT(30) DEF Steps
<1>5. Validate(archive, op.cached) <=> archive = op.rel
  <2>1. archive \in Bad => archive \in {-1, -2, -3, -4}
    BY DEF Bad
  <2>2. archive = op.rel => archive \notin {-1, -2, -3, -4}
    BY <1>2, Bounds DEF Versions
  <2>3. archive \in Bad \/ archive = op.rel
    BY <1>1
  <2> QED
    BY <1>2, <2>1, <2>2, <2>3 DEF Validate, ChecksumMatches, ChainsToFulcio, WorkflowIdentity, SignatureMatches
<1>6. /\ archive \in Bad => op'.step = "failed" /\ faults' < MaxFaults
      /\ archive \notin Bad => op'.step = "clear" /\ archive = op.rel /\ faults' = faults
      /\ faults' <= faults
  <2>1. archive = op.rel => archive \notin Bad
    BY <1>2, Bounds
  <2>2. archive \in Bad => faults' < MaxFaults /\ faults' <= faults
    BY <1>1, <1>3, Bounds
  <2>3. archive \notin Bad => faults' <= faults
    BY <1>1, Bounds
  <2> QED
    BY <1>1, <1>4, <1>5, <2>1, <2>2, <2>3
<1>7. Target' = Target /\ Target \in op.todo /\ Target \in Targets
  BY <1>2, <1>4, AtTarget DEF Target
<1>8. \A t \in op.todo : bin[t] # None
  BY <1>2 DEF UpdateInv, Swappable, Applying
<1>9. TargetLeft'
  BY <1>2, <1>4, <1>6 DEF UpdateInv, TargetLeft, Applying
<1>10. Swappable'
  BY <1>2, <1>4, <1>6, <1>7, <1>8 DEF UpdateInv, Swappable, Applying, RollingBack, Steps
<1>11. Recoverable' /\ Withdrawn'
  BY <1>2, <1>4 DEF UpdateInv, Recoverable, Withdrawn, Applying
<1>12. LabelKept' /\ LabelNamed'
  BY <1>2, <1>4, <1>6, <1>7, Fewer, ZenonT(30) DEF UpdateInv, LabelKept, LabelNamed, Applying, AsLabelled
<1>13. Halfway'
  BY <1>2, <1>4, <1>6, <1>7 DEF UpdateInv, Halfway, Applying, Old, New
<1>14. Undone'
  BY <1>4, <1>6 DEF Undone, Applying, RollingBack
<1> QED
  BY <1>9, <1>10, <1>11, <1>12, <1>13, <1>14 DEF FileInv

LEMMA ClearFiles ==
    ASSUME UpdateInv, TypeOK', ClearBackup
    PROVE  FileInv'
<1>0. /\ At("apply", "clear") /\ UNCHANGED <<bin, label>> /\ Untouched
      /\ prev' = [prev EXCEPT ![Target] = None] /\ Go("aside") /\ faults' = faults
  BY DEF ClearBackup, NoFault
<1> USE <1>0, StepFacts
<1>1. op.kind = "apply" /\ op.step = "clear" /\ Target \in op.todo /\ Target \in Targets
  BY AtTarget DEF At
<1>2. /\ op'.kind = "apply" /\ op'.step = "aside" /\ op'.todo = op.todo /\ op'.rel = op.rel /\ op'.new = op.new
      /\ op'.cached = op.cached /\ op'.left = op.left /\ op'.prior = op.prior /\ Target' = Target
  BY <1>1, GoOp DEF Steps
<1>3. bin[Target] # None /\ prev'[Target] = None /\ \A t \in Targets \ {Target} : prev'[t] = prev[t]
  BY <1>1 DEF UpdateInv, Swappable, Applying
<1>4. TargetLeft'
  BY <1>1, <1>2 DEF UpdateInv, TargetLeft, Applying
<1>5. Swappable'
  BY <1>1, <1>2, <1>3 DEF UpdateInv, Swappable, Applying, RollingBack, Steps
<1>6. Recoverable'
  BY <1>1, <1>3, Bounds DEF UpdateInv, Recoverable
<1>7. Withdrawn' /\ label' = None
  BY <1>1, <1>2 DEF UpdateInv, Withdrawn, Applying
<1>8. LabelKept' /\ LabelNamed'
  BY <1>1, <1>2, <1>7, NamedGoes DEF LabelKept, Applying
<1>9. Halfway'
  BY <1>1, <1>2, <1>3 DEF UpdateInv, Halfway, Applying, Old, New
<1>10. Undone'
  BY <1>2 DEF Undone, Applying, RollingBack
<1> QED
  BY <1>4, <1>5, <1>6, <1>7, <1>8, <1>9, <1>10 DEF FileInv

LEMMA AsideFiles ==
    ASSUME UpdateInv, TypeOK', MoveAside
    PROVE  FileInv'
<1>0. /\ At("apply", "aside") /\ UNCHANGED label /\ Untouched
  BY DEF MoveAside
<1> USE <1>0, StepFacts
<1>1. op.kind = "apply" /\ op.step = "aside" /\ Target \in op.todo /\ Target \in Targets
  BY AtTarget DEF At
<1>2. bin[Target] # None /\ prev[Target] = None /\ label = None /\ bin[Target] \notin Bad
  BY <1>1 DEF UpdateInv, Swappable, Withdrawn, Recoverable, Applying
<1>3. CASE /\ NoFault /\ prev' = [prev EXCEPT ![Target] = bin[Target]] /\ bin' = [bin EXCEPT ![Target] = None] /\ Go("in")
  <2>1. /\ op'.kind = "apply" /\ op'.step = "in" /\ op'.todo = op.todo /\ op'.rel = op.rel /\ op'.new = op.new
        /\ op'.cached = op.cached /\ op'.left = op.left /\ op'.prior = op.prior /\ Target' = Target /\ faults' = faults
    BY <1>1, <1>3, GoOp DEF Steps, NoFault
  <2>2. /\ prev'[Target] = bin[Target] /\ bin'[Target] = None
        /\ \A t \in Targets \ {Target} : prev'[t] = prev[t] /\ bin'[t] = bin[t]
    BY <1>1, <1>3
  <2>3. TargetLeft'
    BY <1>1, <2>1 DEF UpdateInv, TargetLeft, Applying
  <2>4. Swappable'
    BY <1>1, <1>2, <2>1, <2>2 DEF UpdateInv, Swappable, Applying, RollingBack, Steps
  <2>5. Recoverable'
    BY <1>1, <1>2, <2>2, Bounds DEF UpdateInv, Recoverable
  <2>6. Withdrawn' /\ LabelKept' /\ LabelNamed'
    BY <1>1, <1>2, <2>1, NamedGoes DEF Withdrawn, LabelKept, Applying
  <2>7. Halfway'
    BY <1>1, <2>1, <2>2 DEF UpdateInv, Halfway, Applying, Old, New
  <2>8. Undone'
    BY <2>1 DEF Undone, Applying, RollingBack
  <2> QED
    BY <2>3, <2>4, <2>5, <2>6, <2>7, <2>8 DEF FileInv
<1>4. CASE Fault /\ Go("failed") /\ UNCHANGED <<bin, prev>>
  <2>1. /\ op'.kind = "apply" /\ op'.step = "failed" /\ op'.todo = op.todo /\ op'.rel = op.rel
        /\ op'.left = op.left /\ op'.prior = op.prior /\ Target' = Target
    BY <1>1, <1>4, GoOp DEF Steps
  <2>2. faults' < MaxFaults
    BY <1>4, Bounds DEF Fault
  <2>3. TargetLeft'
    BY <1>1, <2>1, <2>2 DEF UpdateInv, TargetLeft, Applying
  <2>4. Swappable'
    BY <1>1, <1>2, <1>4, <2>1 DEF UpdateInv, Swappable, Applying, RollingBack, Steps
  <2>5. Recoverable'
    BY <1>4 DEF UpdateInv, Recoverable
  <2>6. Withdrawn' /\ LabelKept' /\ LabelNamed'
    BY <1>1, <1>2, <1>4, <2>1, NamedGoes DEF Withdrawn, LabelKept, Applying
  <2>7. Halfway'
    BY <1>1, <1>4, <2>1 DEF UpdateInv, Halfway, Applying, Old, New
  <2>8. Undone'
    BY <2>1 DEF Undone, Applying, RollingBack
  <2> QED
    BY <2>3, <2>4, <2>5, <2>6, <2>7, <2>8 DEF FileInv
<1> QED
  BY <1>3, <1>4 DEF MoveAside

LEMMA InFiles ==
    ASSUME UpdateInv, TypeOK', MoveIn
    PROVE  FileInv'
<1>0. /\ At("apply", "in") /\ UNCHANGED label /\ Untouched
  BY DEF MoveIn
<1> USE <1>0, StepFacts
<1>1. /\ op.kind = "apply" /\ op.step = "in" /\ Target \in op.todo /\ Target \in Targets /\ Primary \in op.todo
      /\ Target # Primary => Primary \in op.todo \ {Target}
      /\ Target = Primary => op.todo = {Primary}
  BY AtTarget DEF At
<1>2. /\ prev[Target] # None /\ label = None /\ prev[Target] \notin Bad /\ op.new = op.rel /\ op.rel \in Versions
      /\ op.todo \cap op.left = {} /\ \A t \in op.todo \ {Target} : bin[t] # None
  BY <1>1 DEF UpdateInv, TargetLeft, Swappable, Withdrawn, Recoverable, Applying, Steps
<1>3. CASE NoFault /\ bin' = [bin EXCEPT ![Target] = op.new] /\ Swapped /\ UNCHANGED prev
  <2>1. /\ op'.kind = "apply" /\ op'.step = (IF Target = Primary THEN "label" ELSE "fetch") /\ op'.todo = op.todo \ {Target}
        /\ op'.rel = op.rel /\ op'.cached = op.cached /\ op'.left = op.left \cup {Target} /\ op'.prior = op.prior /\ faults' = faults
    BY <1>1, <1>3, SwappedOp DEF NoFault
  <2>2. bin'[Target] = op.rel /\ \A t \in Targets \ {Target} : bin'[t] = bin[t]
    BY <1>1, <1>2, <1>3
  <2>3. TargetLeft'
    BY <1>1, <1>2, <2>1 DEF TargetLeft, Applying
  <2>4. Swappable'
    BY <1>1, <1>2, <2>1, <2>2 DEF UpdateInv, Swappable, Applying, RollingBack, Steps
  <2>5. Recoverable'
    BY <1>1, <1>2, <1>3, <2>2, Bounds DEF UpdateInv, Recoverable
  <2>6. Withdrawn' /\ LabelKept' /\ LabelNamed'
    BY <1>1, <1>2, <2>1, NamedGoes DEF Withdrawn, LabelKept, Applying
  <2>7. Halfway'
    BY <1>1, <1>2, <1>3, <2>1, <2>2 DEF UpdateInv, Halfway, Applying, Old, New
  <2>8. Undone'
    BY <2>1 DEF Undone, Applying, RollingBack
  <2> QED
    BY <2>3, <2>4, <2>5, <2>6, <2>7, <2>8 DEF FileInv
<1>4. CASE /\ Go("failed")
           /\ \/ Fault /\ bin' = [bin EXCEPT ![Target] = prev[Target]] /\ prev' = [prev EXCEPT ![Target] = None]
              \/ faults > 1 /\ faults' = faults - 2 /\ UNCHANGED <<bin, prev>>
  <2>1. /\ op'.kind = "apply" /\ op'.step = "failed" /\ op'.todo = op.todo /\ op'.rel = op.rel
        /\ op'.left = op.left /\ op'.prior = op.prior /\ Target' = Target
    BY <1>1, <1>4, GoOp DEF Steps
  <2>2. TargetLeft' /\ Undone' /\ Withdrawn' /\ faults' < MaxFaults
    <3>1. faults' < MaxFaults
      BY <1>4, Bounds DEF Fault
    <3> QED
      BY <1>1, <1>2, <2>1, <3>1 DEF UpdateInv, TargetLeft, Undone, Withdrawn, Applying, RollingBack
  <2>3. CASE bin' = [bin EXCEPT ![Target] = prev[Target]] /\ prev' = [prev EXCEPT ![Target] = None]
    <3>1. /\ bin'[Target] = prev[Target] /\ prev'[Target] = None
          /\ \A t \in Targets \ {Target} : bin'[t] = bin[t] /\ prev'[t] = prev[t]
      BY <1>1, <2>3
    <3>2. Swappable' /\ LabelKept' /\ LabelNamed'
      BY <1>1, <1>2, <2>1, <3>1, NamedGoes DEF Swappable, LabelKept, Applying, RollingBack
    <3>3. Recoverable'
      BY <1>1, <1>2, <3>1, Bounds DEF UpdateInv, Recoverable
    <3>4. Halfway'
      BY <1>1, <1>2, <2>1, <3>1 DEF UpdateInv, Halfway, Applying, Old, New
    <3> QED
      BY <2>2, <3>2, <3>3, <3>4 DEF FileInv
  <2>4. CASE faults > 1 /\ faults' = faults - 2 /\ UNCHANGED <<bin, prev>>
    <3>1. faults' + 2 <= MaxFaults
      BY <2>4, Bounds
    <3>2. Recoverable'
      BY <2>4 DEF UpdateInv, Recoverable
    <3>3. Swappable'
      BY <1>2, <2>1, <3>1 DEF Swappable, Applying, RollingBack
    <3>5. bin[Target] = None
      BY <1>1 DEF UpdateInv, Swappable, Applying
    <3>4. Halfway' /\ LabelKept' /\ LabelNamed'
      BY <1>1, <1>2, <2>1, <2>4, <3>5, NamedGoes DEF Halfway, LabelKept, Applying
    <3> QED
      BY <2>2, <3>2, <3>3, <3>4 DEF FileInv
  <2> QED
    BY <1>4, <2>3, <2>4
<1> QED
  BY <1>3, <1>4 DEF MoveIn

\* Failures that leave the premises.
LEMMA Spent ==
    ASSUME faults \in 0..MaxFaults
    PROVE  /\ faults < MaxFaults /\ Fault => ~OneFault'
           /\ faults + 2 <= MaxFaults /\ Fault => ~TwoFaults'
           /\ faults + 2 <= MaxFaults => ~OneFault
           /\ faults > 1 /\ faults' = faults - 2 => ~OneFault'
<1>1. /\ faults < MaxFaults /\ Fault => ~(MaxFaults - faults' <= 1)
      /\ faults + 2 <= MaxFaults /\ Fault => ~(MaxFaults - faults' <= 2)
      /\ faults + 2 <= MaxFaults => ~(MaxFaults - faults <= 1)
      /\ faults > 1 /\ faults' = faults - 2 => ~(MaxFaults - faults' <= 1)
  BY Bounds DEF Fault
<1> QED
  BY <1>1 DEF OneFault, TwoFaults

LEMMA FailedFiles ==
    ASSUME UpdateInv, TypeOK', TargetFailed
    PROVE  FileInv'
<1>0. /\ At("apply", "failed") /\ UNCHANGED label /\ Untouched /\ Go(IF op.left = {} THEN "reinstate" ELSE "unwind")
  BY DEF TargetFailed
<1> USE <1>0, StepFacts
<1>1. /\ op.kind = "apply" /\ op.step = "failed" /\ Target \in op.todo /\ Target \in Targets /\ Primary \in op.todo
      /\ label = None /\ faults < MaxFaults /\ op.todo \cap op.left = {} /\ op.rel \in Versions
  BY AtTarget DEF At, UpdateInv, Withdrawn, TargetLeft, Applying, Swappable, Steps
<1>2. /\ op'.kind = "apply" /\ op'.step = (IF op.left = {} THEN "reinstate" ELSE "unwind") /\ op'.todo = op.todo
      /\ op'.rel = op.rel /\ op'.left = op.left /\ op'.prior = op.prior /\ Target' = Target
  <2>1. (IF op.left = {} THEN "reinstate" ELSE "unwind") \in Steps
    BY DEF Steps
  <2> QED
    BY <1>1, <2>1, GoOp
<1>3. faults' <= faults /\ faults' < MaxFaults
  <2>1. Fault \/ NoFault
    BY DEF TargetFailed
  <2>2. faults' <= faults
    BY <2>1, FaultTyped
  <2> QED
    BY <1>1, <2>2, Fewer
<1>4. TargetLeft' /\ Swappable' /\ Withdrawn' /\ Halfway'
  BY <1>1, <1>2, <1>3 DEF TargetLeft, Swappable, Withdrawn, Halfway, Applying, RollingBack
<1>5. CASE bin[Target] # None
  <2>1. UNCHANGED <<bin, prev>> /\ NoFault
    BY <1>5 DEF TargetFailed, RecoverFailedSwap
  <2>2. Recoverable'
    BY <2>1 DEF UpdateInv, Recoverable
  <2>3. LabelKept' /\ LabelNamed'
    BY <1>1, <1>2, <1>3, <1>5, <2>1, Fewer DEF UpdateInv, LabelKept, LabelNamed, Applying, AsLabelled
  <2>4. OneFault' => clean /\ \A t \in Targets : Old(t) \/ New(t)
    BY <1>1, <1>5 DEF UpdateInv, Halfway, Applying, OneFault
  <2>5. Undone'
    BY <1>2, <2>1, <2>4 DEF Undone, Applying, RollingBack, Old, New
  <2> QED
    BY <1>4, <2>2, <2>3, <2>5 DEF FileInv
<1>6. CASE bin[Target] = None
  <2>1. faults + 2 <= MaxFaults /\ prev[Target] # None /\ prev[Target] \notin Bad
    BY <1>1, <1>6 DEF UpdateInv, Swappable, Applying, Recoverable
  <2>2. ~OneFault'
    BY <1>3, <2>1, Spent, Fewer
  <2>3. Undone'
    BY <1>2, <2>2 DEF Undone, Applying, RollingBack
  <2>4. CASE NoFault /\ RecoverFailedSwap(Target, bin[Target], prev[Target])
    <3>1. /\ bin'[Target] = prev[Target] /\ prev'[Target] = None
          /\ \A t \in Targets \ {Target} : bin'[t] = bin[t] /\ prev'[t] = prev[t]
      BY <1>1, <1>6, <2>4 DEF RecoverFailedSwap
    <3>2. Recoverable'
      BY <1>1, <2>1, <3>1, Bounds DEF UpdateInv, Recoverable
    <3>3. LabelKept' /\ LabelNamed'
      BY <1>1, <1>2, <3>1 DEF UpdateInv, LabelKept, LabelNamed, Applying
    <3> QED
      BY <1>4, <2>3, <3>2, <3>3 DEF FileInv
  <2>5. CASE Fault /\ UNCHANGED <<bin, prev>>
    <3>1. ~TwoFaults'
      BY <2>1, <2>5, Spent
    <3>2. Recoverable'
      BY <2>5 DEF UpdateInv, Recoverable
    <3>3. LabelKept' /\ LabelNamed'
      BY <1>1, <1>2, <3>1, NamedGoes DEF LabelKept
    <3> QED
      BY <1>4, <2>3, <3>2, <3>3 DEF FileInv
  <2> QED
    BY <2>4, <2>5 DEF TargetFailed
<1> QED
  BY <1>5, <1>6

LEMMA ReinstateFiles ==
    ASSUME UpdateInv, TypeOK', Reinstate
    PROVE  FileInv'
<1>0. At("apply", "reinstate") /\ UNCHANGED <<bin, prev>> /\ Untouched /\ OpFails
  BY DEF Reinstate
<1> USE <1>0, StepFacts
<1>1. op.kind = "apply" /\ op.step = "reinstate" /\ op.left = {} /\ label = None
  BY DEF At, UpdateInv, TargetLeft, Withdrawn, Applying
<1>2. faults' <= faults /\ op' = NoOp
  <2>1. Fault \/ NoFault
    BY DEF Reinstate
  <2> QED
    BY <2>1, FaultTyped DEF OpFails, Released
<1>3. Recoverable'
  BY DEF UpdateInv, Recoverable
<1>4. label' = None \/ (label' = op.prior /\ op.prior # None /\ prev[Target] # None)
  BY <1>1 DEF Reinstate, MayReinstate
<1>5. Kept'
  BY <1>1, <1>2, <1>4, Fewer DEF UpdateInv, LabelKept, LabelNamed, Kept, Applying, AsLabelled
<1>6. OneFault' => Sound'
  BY <1>1, <1>2, Fewer, Bounds DEF UpdateInv, Undone, Applying, Sound, Same
<1> QED
  BY <1>2, <1>3, <1>5, <1>6, FilesEnd

\* A backup swapped in, or not.
LEMMA RestoreKeeps ==
    ASSUME UpdateInv, NEW t \in Targets, RestoreOne(t) \/ (RestoreFails(t) /\ UNCHANGED prev)
    PROVE  /\ Recoverable' /\ \A u \in Targets \ {t} : bin'[u] = bin[u] /\ prev'[u] = prev[u]
           /\ RestoreOne(t) => bin'[t] # None /\ (prev[t] # None => bin'[t] = prev[t]) /\ (prev[t] = None => bin'[t] = bin[t])
           /\ prev[t] = None => prev'[t] = None
           /\ prev'[t] = None \/ prev'[t] = prev[t]
           /\ ~RestoreOne(t) => prev[t] # None /\ prev'[t] = prev[t]
<1>1. bin \in [Targets -> Places] /\ prev \in [Targets -> Places]
  BY DEF UpdateInv, TypeOK, Places
<1>2. /\ \A u \in Targets \ {t} : bin'[u] = bin[u] /\ prev'[u] = prev[u]
      /\ RestoreOne(t) => (prev[t] # None => bin'[t] = prev[t]) /\ (prev[t] = None => bin'[t] = bin[t])
      /\ prev[t] = None => prev'[t] = None
      /\ prev'[t] = None \/ prev'[t] = prev[t]
      /\ ~RestoreOne(t) => prev[t] # None /\ prev'[t] = prev[t] /\ bin'[t] \in {None, bin[t]}
  BY <1>1 DEF RestoreOne, RestoreFails, DropBackup
<1>3. (bin[t] # None \/ prev[t] # None) /\ bin[t] \notin Bad /\ prev[t] \notin Bad
  BY DEF UpdateInv, Recoverable
<1>4. RestoreOne(t) => bin'[t] # None
  BY <1>2, <1>3
<1>5. Recoverable'
  BY <1>2, <1>3, <1>4, Bounds DEF UpdateInv, Recoverable
<1> QED
  BY <1>2, <1>4, <1>5

LEMMA UnwindFiles ==
    ASSUME UpdateInv, TypeOK', Unwind
    PROVE  FileInv'
<1>0. At("apply", "unwind") /\ UNCHANGED label /\ Untouched
  BY DEF Unwind
<1> USE <1>0, StepFacts
<1>1. op.kind = "apply" /\ op.step = "unwind" /\ label = None /\ faults < MaxFaults /\ op.todo \cap op.left = {}
      /\ op.rel \in Versions
  BY DEF At, UpdateInv, TargetLeft, Withdrawn, Applying, Swappable, Steps
<1>2. CASE op.left = {}
  <2>1. op' = NoOp /\ UNCHANGED <<bin, prev, faults>>
    BY <1>2 DEF Unwind, ToRestore, OpFails, Released, NoFault
  <2>2. OneFault => Sound
    BY <1>1, <1>2, Bounds DEF UpdateInv, Undone, Applying, Sound, Same
  <2>3. faults' <= faults
    BY <2>1, Bounds
  <2> QED
    BY <2>1, <2>2, <2>3, FilesEndFrame
<1>3. CASE op.left # {}
  <2> DEFINE t == Max(op.left)
  <2>1. t \in op.left /\ t \in Targets
    BY <1>3, MaxIn
  <2>2. /\ op' = [op EXCEPT !.left = @ \ {t}]
        /\ RestoreOne(t) \/ (RestoreFails(t) /\ UNCHANGED prev)
    BY <1>3 DEF Unwind, ToRestore
  <2> HIDE DEF t
  <2>3. /\ op'.kind = "apply" /\ op'.step = "unwind" /\ op'.todo = op.todo /\ op'.rel = op.rel /\ op'.left = op.left \ {t}
    BY <1>1, <2>2, OpUnwound
  <2>4. faults' <= faults /\ faults' < MaxFaults
    BY <1>1, <2>1, <2>2, RestoreTyped, Fewer
  <2>5. TargetLeft' /\ Swappable' /\ Withdrawn' /\ Halfway' /\ LabelKept' /\ LabelNamed'
    BY <1>1, <2>3, <2>4 DEF TargetLeft, Swappable, Withdrawn, Halfway, LabelKept, LabelNamed, Applying, RollingBack
  <2>6. OneFault' => OneFault /\ RestoreOne(t)
    <3>1. ~RestoreOne(t) => Fault \/ (faults > 1 /\ faults' = faults - 2)
      BY <2>2 DEF RestoreFails
    <3> QED
      BY <1>1, <2>4, <3>1, Spent, Fewer
  <2>7. OneFault' => \A u \in Targets : IF u \in op.left THEN prev[u] = running ELSE bin[u] = running
    BY <1>1, <2>6 DEF UpdateInv, Undone, Applying
  <2>8. Recoverable'
    BY <2>1, <2>2, RestoreKeeps
  <2>9. Undone'
    BY <2>1, <2>2, <2>3, <2>6, <2>7, RestoreKeeps, Bounds DEF Undone, Applying, RollingBack
  <2> QED
    BY <2>5, <2>8, <2>9 DEF FileInv
<1> QED
  BY <1>2, <1>3

LEMMA LabelFiles ==
    ASSUME UpdateInv, TypeOK', WriteLabel
    PROVE  FileInv'
<1>0. At("apply", "label") /\ UNCHANGED <<bin, prev>> /\ Elsewhere
  BY DEF WriteLabel
<1> USE <1>0, ElsewhereFacts
<1>1. op.kind = "apply" /\ op.step = "label" /\ label = None /\ op.rel \in Versions /\ op.todo \cap op.left = {}
  BY DEF At, UpdateInv, TargetLeft, Withdrawn, Applying, Swappable, Steps
<1>2. clean => \A t \in Targets : New(t)
  BY <1>1 DEF UpdateInv, Halfway, Applying
<1>3. Recoverable'
  BY DEF UpdateInv, Recoverable
<1>4. CASE NoFault /\ label' = running /\ labelled' = prev /\ Go(IF Bundle THEN "plist" ELSE "end")
  <2>1. /\ op'.kind = "apply" /\ op'.step \in {"plist", "end"} /\ op'.todo = op.todo
        /\ op'.rel = op.rel /\ op'.left = op.left /\ op'.prior = op.prior
    <3>1. (IF Bundle THEN "plist" ELSE "end") \in Steps /\ (IF Bundle THEN "plist" ELSE "end") \in {"plist", "end"}
      BY DEF Steps
    <3> QED
      BY <1>1, <1>4, <3>1, GoOp
  <2>2. TargetLeft' /\ Swappable' /\ Withdrawn' /\ Undone'
    BY <1>1, <2>1 DEF TargetLeft, Swappable, Withdrawn, Undone, Applying, RollingBack
  <2>3. LabelKept' /\ LabelNamed'
    BY <1>2, <1>4, <2>1 DEF UpdateInv, LabelKept, LabelNamed, TwoFaults, Applying, AsLabelled, New
  <2>4. Halfway'
    BY <1>2, <2>1 DEF Halfway, Applying, New
  <2> QED
    BY <1>3, <2>2, <2>3, <2>4 DEF FileInv
<1>5. CASE Fault /\ Go("unwind") /\ UNCHANGED <<label, labelled>>
  <2>1. /\ op'.kind = "apply" /\ op'.step = "unwind" /\ op'.todo = op.todo /\ op'.rel = op.rel /\ op'.left = op.left
    BY <1>1, <1>5, GoOp DEF Steps
  <2>2. faults' < MaxFaults
    BY <1>5, Bounds DEF Fault
  <2>3. TargetLeft' /\ Swappable' /\ Withdrawn' /\ Halfway' /\ LabelKept' /\ LabelNamed'
    BY <1>1, <1>5, <2>1, <2>2 DEF TargetLeft, Swappable, Withdrawn, Halfway, LabelKept, LabelNamed, Applying, RollingBack
  <2>4. Undone'
    BY <1>2, <2>1 DEF Undone, OneFault, Applying, RollingBack, New
  <2> QED
    BY <1>3, <2>3, <2>4 DEF FileInv
<1> QED
  BY <1>4, <1>5 DEF WriteLabel

\* The steps that write Info.plist, and the end of an operation.
LEMMA LastFiles ==
    ASSUME UpdateInv, TypeOK', ApplyPlist \/ RollbackPlist \/ OpEnds
    PROVE  FileInv'
<1>0. /\ op \in Ops /\ UNCHANGED <<bin, prev, label, labelled, clean, cut, running, crashes>> /\ TypeOK /\ faults' <= faults /\ crashes' <= crashes
      /\ Applying({"plist", "end"}) \/ RollingBack({"plist", "end"})
  <2>1. UNCHANGED <<bin, prev, label, labelled, clean, cut, running, crashes>>
    BY DEF ApplyPlist, RollbackPlist, OpEnds, Untouched, Elsewhere, proc, life, files, bounds, history
  <2>2. /\ TypeOK /\ op \in Ops /\ faults \in 0..MaxFaults /\ crashes \in 0..MaxCrashes
        /\ op.kind \in {"none", "apply", "rollback"}
    BY DEF UpdateInv, TypeOK, Ops
  <2>3. Fault \/ NoFault
    BY DEF ApplyPlist, RollbackPlist, OpEnds, NoFault, bounds, history
  <2>4. faults' <= faults /\ crashes' <= crashes
    BY <2>1, <2>2, <2>3, FaultTyped, Bounds
  <2>5. Applying({"plist", "end"}) \/ RollingBack({"plist", "end"})
    BY <2>2 DEF ApplyPlist, RollbackPlist, OpEnds, At, Applying, RollingBack
  <2> QED
    BY <2>1, <2>2, <2>4, <2>5
<1>1. Applying({"plist", "end"}) => op.rel \in Versions
  BY DEF UpdateInv, Swappable, Applying, Steps
<1>2. OneFault => (\A t \in Targets : bin[t] # None) /\ Same
  <2>1. CASE Applying({"plist", "end"})
    <3>1. OneFault => \A t \in Targets : bin[t] = op.rel
      BY <2>1 DEF UpdateInv, Halfway, OneFault
    <3> QED
      BY <1>1, <2>1, <3>1, Bounds DEF Same
  <2>2. CASE RollingBack({"plist", "end"})
    BY <2>2 DEF UpdateInv, Undone, RollingBack, Same
  <2> QED
    BY <1>0, <2>1, <2>2
<1>3. CASE op' = NoOp
  BY <1>0, <1>2, <1>3, FilesEndFrame DEF Sound
<1>4. CASE op' # NoOp
  <2>1. op.step = "plist" /\ ((op.kind = "apply" /\ Go("end")) \/ (op.kind = "rollback" /\ Go("forget"))) /\ faults' = faults
    BY <1>4 DEF ApplyPlist, RollbackPlist, OpEnds, OpFails, Released, At, NoFault
  <2>2. /\ op'.kind = op.kind /\ op'.todo = op.todo /\ op'.rel = op.rel /\ op'.left = op.left
        /\ op'.step = IF op.kind = "apply" THEN "end" ELSE "forget"
    BY <1>0, <2>1, GoOp DEF Steps
  <2>3. TargetLeft' /\ Swappable' /\ Recoverable' /\ Withdrawn'
    BY <1>0, <1>1, <2>1, <2>2 DEF UpdateInv, TargetLeft, Swappable, Recoverable, Withdrawn, Applying, RollingBack
  <2>4. LabelKept' /\ LabelNamed'
    BY <1>0, <2>1, <2>2, Fewer DEF UpdateInv, LabelKept, LabelNamed, Applying, AsLabelled
  <2>5. Halfway'
    BY <1>0, <2>1, <2>2 DEF UpdateInv, Halfway, Applying
  <2>6. Undone'
    BY <1>0, <1>2, <2>1, <2>2, Fewer, Bounds DEF Undone, Applying, RollingBack, Same
  <2> QED
    BY <2>3, <2>4, <2>5, <2>6 DEF FileInv
<1> QED
  BY <1>3, <1>4

LEMMA RollbackBeginFiles ==
    ASSUME UpdateInv, TypeOK', RollbackBegin
    PROVE  FileInv'
<1>0. At("rollback", "begin") /\ UNCHANGED <<bin, prev, label>> /\ Untouched
  BY DEF RollbackBegin, files
<1> USE <1>0, StepFacts
<1>1. CASE OpFails
  <2>1. faults' <= faults
    BY FaultTyped DEF RollbackBegin
  <2> QED
    BY <1>1, <2>1, EarlyFails DEF At
<1>2. CASE NoFault /\ LayoutFound /\ label # None /\ op' = [op EXCEPT !.step = "restore", !.rel = label]
  <2>0. label \in {None} \cup Versions
    BY DEF TypeOK
  <2>1. /\ op'.kind = "rollback" /\ op'.step = "restore" /\ op'.todo = op.todo /\ op'.rel = label /\ op'.left = {}
        /\ faults' = faults /\ op.kind = "rollback" /\ op.step = "begin" /\ op.todo = Layout /\ Primary \in op.todo
    BY <1>2, <2>0, OpRel DEF Steps, NoFault, At, UpdateInv, TargetLeft
  <2>2. TargetLeft' /\ Swappable' /\ Withdrawn' /\ Halfway'
    BY <1>2, <2>0, <2>1 DEF TargetLeft, Swappable, Withdrawn, Halfway, Applying, RollingBack
  <2>3. Recoverable'
    BY DEF UpdateInv, Recoverable
  <2>4. LabelKept' /\ LabelNamed'
    BY <2>1 DEF UpdateInv, LabelKept, LabelNamed, TwoFaults, Applying, AsLabelled
  <2>5. OneFault => /\ \A t \in Targets : bin[t] # None /\ t \in op.todo
                    /\ Same \/ prev[Primary] # None
    BY <2>1 DEF UpdateInv, Undone, RollbackInfo, Layout
  <2>6. OneFault => Matches(label)
    <3>1. OneFault => TwoFaults
      <4>1. faults' <= faults
        BY <2>1, Bounds
      <4> QED
        BY <4>1, Fewer
    <3> QED
      BY <1>2, <3>1 DEF UpdateInv, LabelKept, LabelNamed, OneFault, AsLabelled, Matches
  <2>7. OneFault => prev[Primary] # None \/ \A t \in Targets : bin[t] = label
    BY <1>2, <2>5, <2>6, Bounds DEF Matches, Same
  <2>8. Undone'
    BY <1>2, <2>1, <2>5, <2>7 DEF Undone, OneFault, Applying, RollingBack
  <2> QED
    BY <2>2, <2>3, <2>4, <2>8 DEF FileInv
<1> QED
  BY <1>1, <1>2 DEF RollbackBegin

LEMMA RestoreFiles ==
    ASSUME UpdateInv, TypeOK', Restore
    PROVE  FileInv'
<1>0. At("rollback", "restore") /\ UNCHANGED label /\ Untouched
  BY DEF Restore
<1> USE <1>0, StepFacts
<1>1. /\ op.kind = "rollback" /\ op.step = "restore" /\ Target \in Targets /\ Primary \in op.todo
      /\ Target # Primary => Primary \in op.todo \ {Target}
      /\ Target = Primary => op.todo = {Primary}
      /\ op.rel \in Versions /\ op.todo \cap op.left = {}
  BY AtTarget DEF At, UpdateInv, Swappable, RollingBack, TargetLeft
<1> DEFINE t == Target
<1>2. RestoreOne(t) \/ (RestoreFails(t) /\ UNCHANGED prev)
  BY DEF Restore
<1>3. faults' <= faults
  BY <1>1, <1>2, RestoreTyped
<1>4. /\ TwoFaults' /\ label # None => AsLabelled
      /\ clean' /\ label # None => \A u \in Targets : labelled[u] = label
  BY <1>3, Fewer DEF UpdateInv, LabelKept, LabelNamed
<1>5. Kept'
  <2>1. AsLabelled => AsLabelled'
    <3> SUFFICES ASSUME AsLabelled
                 PROVE  AsLabelled'
      OBVIOUS
    <3>1. prev'[t] = labelled[t] \/ (prev'[t] = None /\ bin'[t] = labelled[t])
      BY <1>1, <1>2, RestoreKeeps DEF AsLabelled
    <3> QED
      BY <1>1, <1>2, <3>1, RestoreKeeps DEF AsLabelled
  <2> QED
    BY <1>4, <2>1 DEF Kept
<1>6. Recoverable'
  BY <1>1, <1>2, RestoreKeeps
<1>7. OneFault' => /\ OneFault /\ Matches(label) /\ label # None
                   /\ \A u \in Targets : bin[u] # None /\ (u \notin op.todo => bin[u] = label)
                   /\ prev[Primary] # None \/ \A u \in Targets : bin[u] = label
  <2>1. OneFault' => OneFault /\ TwoFaults
    BY <1>3, Fewer
  <2>2. OneFault => label # None
    BY <1>1 DEF UpdateInv, Undone, RollingBack
  <2>3. OneFault /\ TwoFaults => Matches(label)
    BY <2>2 DEF UpdateInv, LabelKept, LabelNamed, OneFault, AsLabelled, Matches
  <2> QED
    BY <1>1, <2>1, <2>2, <2>3 DEF UpdateInv, Undone, RollingBack
<1>8. CASE RestoreOne(t) /\ Restored
  <2>1. /\ op'.kind = "rollback" /\ op'.todo = op.todo \ {t} /\ op'.rel = op.rel /\ op'.left = op.left
        /\ op'.step = IF t # Primary THEN "restore" ELSE IF Bundle THEN "plist" ELSE "forget"
    <3>1. (IF t # Primary THEN "restore" ELSE IF Bundle THEN "plist" ELSE "forget") \in Steps
      BY DEF Steps
    <3> QED
      BY <1>1, <1>8, <3>1, OpVisited DEF Restored
  <2>2. TargetLeft' /\ Swappable' /\ Withdrawn' /\ Halfway'
    BY <1>1, <2>1 DEF TargetLeft, Swappable, Withdrawn, Halfway, Applying, RollingBack
  <2>3. LabelKept' /\ LabelNamed'
    BY <1>5, <2>1 DEF Kept, LabelKept, LabelNamed, Applying
  <2>4. OneFault' => bin'[t] = label
    <3>1. (prev[t] # None => bin'[t] = prev[t]) /\ (prev[t] = None => bin'[t] = bin[t])
      BY <1>1, <1>8, RestoreKeeps
    <3>2. OneFault' => prev[t] = label \/ (prev[t] = None /\ bin[t] = label)
      BY <1>1, <1>7 DEF Matches
    <3> QED
      BY <1>7, <3>1, <3>2
  <2>5. OneFault' => \A u \in Targets : bin'[u] # None /\ (u \notin op.todo \ {t} => bin'[u] = label)
    BY <1>1, <1>2, <1>7, <2>4, RestoreKeeps
  <2>6. OneFault' /\ t # Primary => prev'[Primary] # None \/ \A u \in Targets : bin'[u] = label
    BY <1>1, <1>2, <1>7, <2>4, RestoreKeeps, Bounds
  <2>7. OneFault' /\ t = Primary => \A u \in Targets : bin'[u] = label
    BY <1>1, <2>5
  <2>8. Undone'
    BY <1>1, <1>7, <2>1, <2>5, <2>6, <2>7, Bounds DEF Undone, Applying, RollingBack, Same
  <2> QED
    BY <1>6, <2>2, <2>3, <2>8 DEF FileInv
<1>9. CASE RestoreFails(t) /\ OpFails /\ UNCHANGED prev
  <2>1. op' = NoOp
    BY <1>9 DEF OpFails, Released
  <2>2. OneFault' => UNCHANGED bin
    BY <1>9, Spent DEF RestoreFails
  <2>3. OneFault' => Sound'
    BY <1>7, <1>9, <2>2, Bounds DEF Sound, Same, RollbackInfo, LayoutFound
  <2> QED
    BY <1>5, <1>6, <2>1, <2>3, FilesEnd
<1> QED
  BY <1>8, <1>9 DEF Restore

LEMMA ForgetFiles ==
    ASSUME UpdateInv, TypeOK', Forget
    PROVE  FileInv'
<1>0. At("rollback", "forget") /\ UNCHANGED <<bin, prev>> /\ Untouched /\ Go("end")
  BY DEF Forget
<1> USE <1>0, StepFacts
<1>1. op.kind = "rollback" /\ op.step = "forget" /\ op.todo \cap op.left = {}
  BY DEF At, UpdateInv, TargetLeft
<1>2. op'.kind = "rollback" /\ op'.step = "end" /\ op'.todo = op.todo /\ op'.left = op.left
  BY <1>1, GoOp DEF Steps
<1>3. faults' <= faults /\ (label' = None \/ label' = label)
  <2>1. Fault \/ NoFault
    BY DEF Forget
  <2> QED
    BY <2>1, FaultTyped DEF Forget
<1>4. TargetLeft' /\ Swappable' /\ Withdrawn' /\ Halfway' /\ Recoverable'
  BY <1>1, <1>2 DEF UpdateInv, TargetLeft, Swappable, Withdrawn, Halfway, Recoverable, Applying, RollingBack
<1>5. LabelKept' /\ LabelNamed'
  BY <1>2, <1>3, Fewer DEF UpdateInv, LabelKept, LabelNamed, Applying, AsLabelled
<1>6. Undone'
  BY <1>1, <1>2, <1>3, Fewer DEF UpdateInv, Undone, Applying, RollingBack, Same
<1> QED
  BY <1>4, <1>5, <1>6 DEF FileInv

\* Files are kept through every step.
LEMMA Filed ==
    ASSUME UpdateInv, TypeOK', [Next]_vars
    PROVE  FileInv'
<1>0. /\ TypeOK /\ OpHeld /\ op.kind \in {"none", "apply", "rollback"} /\ faults \in Nat /\ crashes \in Nat
      /\ click \in {"none", "apply", "rollback"} /\ leaving \in BOOLEAN
  BY Bounds DEF UpdateInv, TypeOK, Ops
<1>1. CASE ApplyBegin \/ Preflight \/ Withdraw \/ Fetch \/ ClearBackup \/ MoveAside \/ MoveIn \/ TargetFailed \/ Reinstate
           \/ Unwind \/ WriteLabel \/ ApplyPlist \/ RollbackBegin \/ Restore \/ RollbackPlist \/ Forget \/ OpEnds
  BY <1>1, ApplyBeginFiles, PreflightFiles, WithdrawFiles, FetchFiles, ClearFiles, AsideFiles, InFiles, FailedFiles,
     ReinstateFiles, UnwindFiles, LabelFiles, LastFiles, RollbackBeginFiles, RestoreFiles, ForgetFiles
<1>2. CASE WindowStarts \/ MenuApply \/ MenuRollback
  <2>1. UNCHANGED <<bin, prev, label, running, clean, cut, labelled, faults, crashes>>
    BY <1>2 DEF WindowStarts, MenuApply, MenuRollback, files, proc, life, bounds, history
  <2>2. CASE UNCHANGED op
    BY <1>0, <2>1, <2>2, FilesFrame
  <2>3. CASE /\ gate = "free"
             /\ \E kind \in {"apply", "rollback"}, by \in {"menu", "window"} : Began(kind, by)
    <3>1. op.kind = "none"
      BY <1>0, <2>3 DEF OpHeld
    <3> QED
      BY <1>0, <2>1, <2>3, <3>1, BeganOp, FilesBegin
  <2> QED
    BY <1>0, <1>2, <2>2, <2>3 DEF WindowStarts, MenuApply, MenuRollback
<1>3. CASE Publish \/ CheckStart \/ CheckEnd \/ (\E kind \in {"apply", "rollback"} : WindowReads(kind))
           \/ IngestStart \/ IngestEnd \/ Quit \/ Tick \/ RestartNow \/ Shutdown \/ UNCHANGED vars
  <2>1. UNCHANGED <<bin, prev, label, op, running, clean, cut, labelled, crashes>>
    BY <1>3 DEF Publish, CheckStart, CheckEnd, WindowReads, IngestStart, IngestEnd, Quit, Tick, RestartNow, Shutdown, Leaves, vars, files, proc, life, bounds, history
  <2>2. Fault \/ NoFault
    BY <1>3 DEF Publish, CheckStart, CheckEnd, WindowReads, IngestStart, IngestEnd, Quit, Tick, RestartNow, Shutdown, Leaves, vars, bounds, history, NoFault
  <2>3. faults' <= faults /\ crashes' <= crashes
    BY <1>0, <2>1, <2>2 DEF Fault, NoFault
  <2> QED
    BY <2>1, <2>3, FilesFrame
<1>4. CASE Exit \/ Crash
  <2>1. /\ Dies /\ op' = NoOp /\ UNCHANGED <<prev, label, clean, labelled, faults>>
        /\ (cut => cut') /\ (crashes' = crashes \/ (crashes' = crashes - 1 /\ crashes > 0))
        /\ op # NoOp => cut' \/ crashes' = crashes - 1
    <3>1. cut \in BOOLEAN
      BY DEF UpdateInv, TypeOK
    <3>2. CASE Exit
      BY <3>1, <3>2 DEF Exit, Dies
    <3>3. CASE Crash
      BY <3>3 DEF Crash, Dies
    <3> QED
      BY <1>4, <3>2, <3>3
  <2>2. crashes' <= crashes /\ faults' <= faults /\ (crashes' = crashes - 1 => crashes' # MaxCrashes)
    BY <1>0, <2>1, Bounds DEF UpdateInv, TypeOK
  <2>3. \A t \in Targets : bin'[t] = bin[t] \/ (prev[t] # None /\ bin'[t] \in {None, prev[t]})
    BY <1>0, <2>1, DiesBin
  <2>4. Recoverable'
    BY <2>1, <2>3, Bounds DEF UpdateInv, Recoverable
  <2>5. Kept'
    BY <1>0, <2>1, <2>2, <2>3, Fewer DEF UpdateInv, LabelKept, LabelNamed, Kept, AsLabelled
  <2>6. OneFault' => Sound'
    <3>1. SUFFICES ASSUME OneFault' PROVE Sound'
      OBVIOUS
    <3>2. op = NoOp /\ OneFault
      BY <1>0, <2>1, <2>2, <3>1, Fewer DEF OneFault
    <3>3. bin' = bin
      BY <2>1, <3>2 DEF Dies, Restoring, At, NoOp
    <3> QED
      BY <2>1, <3>2, <3>3 DEF UpdateInv, Undone, Sound, Same, RollbackInfo, LayoutFound, NoOp
  <2> QED
    BY <2>1, <2>4, <2>5, <2>6, FilesEnd
<1>5. CASE Start
  <2>1. op' = NoOp /\ UNCHANGED <<bin, prev, label, clean, cut, labelled, faults, crashes>> /\ ~alive
    BY <1>5 DEF Start, files, bounds, history
  <2>2. faults' <= faults /\ crashes' <= crashes
    BY <1>0, <2>1
  <2>3. OneFault => Sound
    BY <1>0, <2>1 DEF OpHeld, UpdateInv, Undone, Sound
  <2> QED
    BY <2>1, <2>2, <2>3, FilesEndFrame
<1> QED
  BY <1>1, <1>2, <1>3, <1>4, <1>5 DEF Next

-----------------------------------------------------------------------------
(* Theorems *)

LEMMA Begins == Init => UpdateInv
<1> SUFFICES ASSUME Init PROVE UpdateInv
  OBVIOUS
<1>1. TypeOK
  <2>1. bin \in [Targets -> {None} \cup Versions \cup Bad] /\ prev \in [Targets -> {None} \cup Versions \cup Bad]
    BY Bounds DEF Init
  <2>2. faults \in 0..MaxFaults /\ crashes \in 0..MaxCrashes /\ ops \in 0..MaxOps
    BY Bounds DEF Init
  <2> QED
    BY <2>1, <2>2, Bounds, NoOpIn DEF Init, TypeOK, Phases
<1>2. op = NoOp /\ op.kind = "none" /\ op.by = "none" /\ op.todo = {} /\ label = None /\ \A t \in Targets : bin[t] = 1 /\ prev[t] = None
  BY DEF Init, NoOp
<1>3. OpHeld /\ TargetLeft /\ Swappable /\ Withdrawn /\ LabelKept /\ LabelNamed /\ Halfway
  BY <1>2 DEF OpHeld, TargetLeft, Swappable, Withdrawn, LabelKept, LabelNamed, Halfway, Applying, RollingBack
<1>4. Recoverable /\ Undone
  BY <1>2, Bounds DEF Recoverable, Undone, Same, Applying, RollingBack
<1> QED
  BY <1>1, <1>3, <1>4 DEF UpdateInv

(* UpdateInv, the description of what every step of applyAllTargets,       *)
(* restoreSwapped and Rollback has done to the programs, their backups and *)
(* the label so far, holds however operations, failures, deaths, checks,   *)
(* ingests and quits interleave.                                           *)
THEOREM UpdateInvariant == Spec => []UpdateInv
<1>1. UpdateInv /\ [Next]_vars => UpdateInv'
  BY Typed, Held, Filed DEF UpdateInv, FileInv
<1> QED
  BY Begins, <1>1, PTL DEF Spec

(* trayQuitBlocked: for any number of clicks, quits and restarts the menu  *)
(* loop never decides to leave while an apply or a rollback is under way;  *)
(* whatever is under way once it has decided began after the decision.     *)
(* That such a late operation is cut short is not excluded: QuitNeverMixes *)
(* is false.                                                               *)
THEOREM QuitSafety == Spec => []QuitSafe
<1>1. UpdateInv => QuitSafe
  BY DEF UpdateInv, OpHeld, QuitSafe
<1> QED
  BY UpdateInvariant, <1>1, PTL

(* go-selfupdate's renames, recoverFailedSwap, restoreSwapped: for any     *)
(* number of programs, failures and deaths, each program that was          *)
(* validated stays at its path or at its backup.                           *)
THEOREM Recoverability == Spec => []Recoverable
<1>1. UpdateInv => Recoverable
  BY DEF UpdateInv
<1> QED
  BY UpdateInvariant, <1>1, PTL

(* applyAllTargets, restoreSwapped, Rollback: for any number of programs,  *)
(* one failing file operation or request never leaves two versions side by *)
(* side without a rollback on offer, nor a program missing.                *)
THEOREM UndoneSafety == Spec => []OneFaultIsUndone
<1>1. UpdateInv => OneFaultIsUndone
  BY DEF UpdateInv, Undone, OneFaultIsUndone, OneFault, NoOp
<1> QED
  BY UpdateInvariant, <1>1, PTL

(* withdrawRollback, reinstateRollback and applyAllTargets: as long as no  *)
(* more than two file operations or requests have failed, whatever the     *)
(* number of programs, deaths and operations and whatever versions the     *)
(* programs had, a rollback on offer comes with the very backups that its  *)
(* label was written for.  That the label names their version is not said: *)
(* LabelNamesBackups is false.                                             *)
THEOREM LabelSafety == Spec => [](MaxFaults - faults <= 2 => LabelMatches)
<1>1. UpdateInv => (MaxFaults - faults <= 2 => LabelMatches)
  BY DEF UpdateInv, LabelKept, TwoFaults, LabelMatches, RollbackInfo
<1> QED
  BY UpdateInvariant, <1>1, PTL
=============================================================================
