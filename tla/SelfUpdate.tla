----------------------------- MODULE SelfUpdate -----------------------------
(***************************************************************************)
(* The tray's self-update (internal/selfupdate, cmd selfupdateagent.go,    *)
(* the menu loop of internal/tray/run_supported.go).  One release archive  *)
(* replaces several programs: the siblings first, the running one last.    *)
(* Each replacement leaves the old program under ".previous"; a label      *)
(* file says which version those backups are and is what makes a rollback  *)
(* available.  The library go-selfupdate does a replacement in four file   *)
(* operations; any of them may fail, and the process may die between two.  *)
(*                                                                         *)
(* Checks (timer, "Check for updates"), applies and rollbacks (menu and    *)
(* window), ingests and Quit meet in Runner.gate, in applyMu and in the    *)
(* phase the status shows.  Versions are numbers; Bad holds archives that  *)
(* are not the one the release workflow signed.                            *)
(***************************************************************************)
EXTENDS Integers, FiniteSetsExt

CONSTANTS
    NTargets,    \* programs replaced by one update, the running one last
    MaxVersion,  \* bound: releases
    Bundle,      \* a macOS bundle: Info.plist follows the version
    MaxFaults,   \* bound: file operations and requests that fail
    MaxCrashes,  \* bound: deaths of the process
    MaxOps       \* bound: clicks on Install and Roll back

ASSUME UpdateAssumption ==
    /\ NTargets \in Nat \ {0} /\ MaxVersion \in Nat \ {0} /\ Bundle \in BOOLEAN
    /\ {MaxFaults, MaxCrashes, MaxOps} \subseteq Nat

None     == 0
Bad      == -4..-1
Targets  == 1..NTargets
Primary  == NTargets
Versions == 1..MaxVersion
Phases   == {"idle", "checking", "available", "downloading", "verifying", "restarting",
             "failed", "rolling back"}
Steps    == {"begin", "preflight", "withdraw", "fetch", "clear", "aside", "in", "failed", "reinstate",
             "unwind", "label", "plist", "end", "restore", "forget"}

VARIABLES
    bin, prev,  \* of every target the program and its ".previous"
    label,      \* the version sidecar, or None
    plist,      \* the version in Info.plist
    latest,     \* the newest release
    alive, running,     \* the tray process and its version
    leaving,    \* the menu loop has decided to quit or restart
    serving,    \* the status server takes requests of the window
    phase, found,       \* of the status: Phase, UpdateFound
    gate, applyMu,      \* who holds the locks
    click,      \* a request of the window that has read the status
    op,         \* the apply or rollback under way
    quitRequested,
    clean,      \* history: every apply began with all targets at the running version
    cut,        \* history: a quit or restart has ended the process in the middle of an operation
    labelled,   \* history: the backups that were there when the label was last written
    faults, crashes, ops   \* what is left of the bounds

files  == <<bin, prev, label, plist>>
status == <<phase, found>>
locks  == <<gate, applyMu>>
life   == <<alive, running, quitRequested, serving>>
proc   == <<life, leaving>>
ended  == <<phase, leaving, locks>>    \* what the end of an operation changes
history == <<clean, cut, labelled>>
bounds == <<faults, crashes, ops>>
vars == <<files, latest, proc, status, locks, click, op, history, bounds>>

\* late: it began after the menu loop had decided to leave.
NoOp == [kind |-> "none", by |-> "none", late |-> FALSE, step |-> "end", todo |-> {}, rel |-> None, new |-> None,
         cached |-> FALSE, prior |-> None, left |-> {}]

Ops == [kind : {"none", "apply", "rollback"}, by : {"none", "menu", "window"}, late : BOOLEAN,
        step : Steps, todo : SUBSET Targets,
        rel : {None} \cup Versions, new : {None} \cup Bad \cup Versions, cached : BOOLEAN,
        prior : {None} \cup Versions, left : SUBSET Targets]

TypeOK ==
    /\ bin \in [Targets -> {None} \cup Versions \cup Bad] /\ prev \in [Targets -> {None} \cup Versions \cup Bad]
    /\ label \in {None} \cup Versions /\ plist \in Versions /\ latest \in Versions
    /\ alive \in BOOLEAN /\ running \in Versions /\ {quitRequested, leaving, serving} \subseteq BOOLEAN
    /\ phase \in Phases /\ found \in BOOLEAN
    /\ gate \in {"free", "ingest", "op"} /\ applyMu \in {"free", "check", "op"}
    /\ click \in {"none", "apply", "rollback"}
    /\ op \in Ops /\ {clean, cut} \subseteq BOOLEAN /\ labelled \in [Targets -> {None} \cup Versions \cup Bad]
    /\ faults \in 0..MaxFaults /\ crashes \in 0..MaxCrashes /\ ops \in 0..MaxOps

Init ==
    /\ bin = [t \in Targets |-> 1] /\ prev = [t \in Targets |-> None] /\ label = None /\ plist = 1
    /\ latest = 1 /\ alive = TRUE /\ running = 1 /\ quitRequested = FALSE /\ leaving = FALSE /\ serving = TRUE
    /\ phase = "idle" /\ found = FALSE /\ gate = "free" /\ applyMu = "free" /\ click = "none"
    /\ op = NoOp /\ clean = TRUE /\ cut = FALSE /\ labelled = [t \in Targets |-> None]
    /\ faults = MaxFaults /\ crashes = MaxCrashes /\ ops = MaxOps

Fault == faults > 0 /\ faults' = faults - 1
NoFault == UNCHANGED faults
Publish ==
    /\ latest < MaxVersion /\ latest' = latest + 1
    /\ UNCHANGED <<files, proc, status, locks, click, op, history, bounds>>

-----------------------------------------------------------------------------
(* Check: the ticker's and the window's *)

\* checkOnce: TryLock of applyMu, then of checkMu.
CheckMayRun == applyMu = "free"

CheckStart ==
    /\ alive /\ CheckMayRun /\ applyMu' = "check" /\ phase' = "checking"
    /\ UNCHANGED <<files, latest, proc, found, gate, click, op, history, bounds>>

CheckEnd ==
    /\ alive /\ applyMu = "check" /\ applyMu' = "free"
    /\ \/ /\ NoFault /\ found' = (latest > running)
          /\ phase' = IF found' THEN "available" ELSE "idle"
       \/ Fault /\ phase' = "failed" /\ UNCHANGED found
    /\ UNCHANGED <<files, latest, proc, gate, click, op, history, crashes, ops>>

-----------------------------------------------------------------------------
(* Starting an apply or a rollback *)

Clicked == ops > 0 /\ ops' = ops - 1

PhaseBusy == phase \in {"checking", "downloading", "verifying", "restarting", "rolling back"}

\* DetectLayout resolves the running program's own path.
LayoutFound == bin[Primary] # None

\* RollbackInfo: the primary's backup and the label.
RollbackInfo == LayoutFound /\ prev[Primary] # None /\ label # None

\* The handlers of the window read the status first and lock afterwards.
WindowReads(kind) ==
    /\ alive /\ serving /\ click = "none" /\ Clicked /\ ~PhaseBusy /\ click' = kind
    /\ IF kind = "apply" THEN found ELSE RollbackInfo
    /\ UNCHANGED <<files, latest, proc, status, locks, op, history, faults, crashes>>

\* DetectLayout, asked again by every operation: siblings that are not there
\* do not belong to it.
Layout == {t \in Targets : t = Primary \/ bin[t] # None}

Began(kind, by) ==
    /\ op' = [NoOp EXCEPT !.kind = kind, !.by = by, !.late = leaving, !.step = "begin", !.todo = Layout]
    /\ gate' = "op"

\* StartApply, StartRollback: both locks and the phase, or a refusal.  Neither
\* asks whether the menu loop is about to leave.
WindowStarts ==
    /\ alive /\ click # "none" /\ click' = "none"
    /\ \/ /\ gate = "free" /\ applyMu = "free" /\ Began(click, "window") /\ applyMu' = "op"
          /\ phase' = IF click = "apply" THEN "downloading" ELSE "rolling back"
       \/ /\ ~(gate = "free" /\ applyMu = "free")
          /\ UNCHANGED <<locks, phase, op>>
    /\ UNCHANGED <<files, latest, proc, found, history, bounds>>

\* The menu: it holds the gate for the whole call.  ApplyLatest tries
\* applyMu in addition; Rollback does not.
MenuApply ==
    /\ alive /\ ~leaving /\ gate = "free" /\ found /\ Clicked
    /\ \/ applyMu = "free" /\ Began("apply", "menu") /\ applyMu' = "op" /\ phase' = "downloading"
       \/ applyMu # "free" /\ UNCHANGED <<locks, phase, op>>
    /\ UNCHANGED <<files, latest, proc, found, click, history, faults, crashes>>

MenuRollback ==
    /\ alive /\ ~leaving /\ gate = "free" /\ RollbackInfo /\ Clicked /\ Began("rollback", "menu")
    /\ UNCHANGED <<files, latest, proc, status, applyMu, click, history, faults, crashes>>

-----------------------------------------------------------------------------
(* The end of an operation *)

\* applyMu and the gate are released.
Released ==
    /\ gate' = "free" /\ applyMu' = IF applyMu = "op" THEN "free" ELSE applyMu
    /\ op' = NoOp

\* recordApplyError; a rollback of the menu records nothing.  The menu's
\* handler carries out a quit that was put off.
OpFails ==
    /\ Released /\ leaving' = (leaving \/ (op.by = "menu" /\ quitRequested))
    /\ phase' = IF op.kind = "rollback" /\ op.by = "menu" THEN phase ELSE "failed"

Go(step)      == op' = [op EXCEPT !.step = step]
At(kind, step) == alive /\ op.kind = kind /\ op.step = step
Elsewhere     == UNCHANGED <<latest, life, found, click, clean, cut, crashes, ops>>
Untouched     == Elsewhere /\ UNCHANGED labelled

\* The window's worker leaves the phase "restarting" to the ticker, the
\* menu's handler decides on the restart at once.
OpEnds ==
    /\ alive /\ op.kind # "none" /\ op.step = "end" /\ Released
    /\ phase' = IF op.kind = "rollback" /\ op.by = "menu" THEN phase ELSE "restarting"
    /\ leaving' = (leaving \/ op.by = "menu")
    /\ UNCHANGED <<files, latest, life, found, click, history, bounds>>

-----------------------------------------------------------------------------
(* Apply *)

\* Writability and DetectLatest: nothing has been touched.
ApplyBegin ==
    /\ At("apply", "begin") /\ clean' = (clean /\ \A t \in Targets : bin[t] = running)
    /\ \/ /\ NoFault /\ LayoutFound /\ latest > running /\ phase' = "verifying"
          /\ op' = [op EXCEPT !.step = "preflight", !.rel = latest]
          /\ UNCHANGED <<leaving, locks>>
       \/ (Fault \/ (NoFault /\ ~(LayoutFound /\ latest > running))) /\ OpFails
    /\ UNCHANGED <<files, latest, life, found, click, cut, labelled, crashes, ops>>

\* sigstorePreflight: signature and certificate are fetched once for all
\* targets, still before anything is touched.
Preflight ==
    /\ At("apply", "preflight")
    /\ \/ NoFault /\ op' = [op EXCEPT !.step = "withdraw", !.cached = TRUE] /\ UNCHANGED ended
       \/ Fault /\ OpFails
    /\ UNCHANGED files /\ Untouched

\* withdrawRollback.
Withdraw ==
    /\ At("apply", "withdraw")
    /\ \/ NoFault /\ label' = None /\ op' = [op EXCEPT !.step = "fetch", !.prior = label] /\ UNCHANGED ended
       \/ label # None /\ Fault /\ OpFails /\ UNCHANGED label
    /\ UNCHANGED <<bin, prev, plist>> /\ Untouched

\* orderedTargets: siblings first, the running program last.
Target == Min(op.todo)

\* What may be wrong with an archive: each check finds one of these.
ChecksumMatches(archive)  == archive # -1
ChainsToFulcio(archive)   == archive # -2
WorkflowIdentity(archive) == archive # -3
\* Variant: the signature is not compared with the archive.
AnySignature(archive)     == TRUE
SignatureMatches(archive) == archive # -4

\* The validator handed to go-selfupdate; it needs the attestation that the
\* preflight has fetched.
Validate(archive, cached) ==
    /\ ChecksumMatches(archive) /\ cached
    /\ ChainsToFulcio(archive) /\ WorkflowIdentity(archive) /\ SignatureMatches(archive)

\* UpdateTo downloads the archive again for every target and validates it.
Fetch ==
    /\ At("apply", "fetch")
    /\ \E archive \in {op.rel} \cup (IF faults > 0 THEN Bad ELSE {}) :
          /\ faults' = IF archive \in Bad THEN faults - 1 ELSE faults
          /\ op' = [op EXCEPT !.new = archive, !.step = IF Validate(archive, op.cached) THEN "clear" ELSE "failed"]
    /\ UNCHANGED <<files, ended>> /\ Untouched

\* go-selfupdate: the old backup is deleted, the program moved aside, the
\* new one moved in.  If that fails it tries to move the old one back.
ClearBackup ==
    /\ At("apply", "clear") /\ NoFault /\ prev' = [prev EXCEPT ![Target] = None] /\ Go("aside")
    /\ UNCHANGED <<bin, label, plist, ended>> /\ Untouched

MoveAside ==
    /\ At("apply", "aside")
    /\ \/ /\ NoFault /\ prev' = [prev EXCEPT ![Target] = bin[Target]] /\ bin' = [bin EXCEPT ![Target] = None]
          /\ Go("in")
       \/ Fault /\ Go("failed") /\ UNCHANGED <<bin, prev>>
    /\ UNCHANGED <<label, plist, ended>> /\ Untouched

\* The next target, or the label once every target has been replaced.
Swapped ==
    op' = [op EXCEPT !.left = @ \cup {Target}, !.new = None,
                     !.step = IF Target = Primary THEN "label" ELSE "fetch",
                     !.todo = @ \ {Target}]

MoveIn ==
    /\ At("apply", "in")
    /\ \/ NoFault /\ bin' = [bin EXCEPT ![Target] = op.new] /\ Swapped /\ UNCHANGED prev
       \/ /\ Fault /\ Go("failed")
          /\ bin' = [bin EXCEPT ![Target] = prev[Target]] /\ prev' = [prev EXCEPT ![Target] = None]
       \/ /\ faults > 1 /\ faults' = faults - 2 /\ Go("failed") /\ UNCHANGED <<bin, prev>>
    /\ UNCHANGED <<label, plist, ended>> /\ Untouched

\* recoverFailedSwap: a target that is missing is moved back.
RecoverFailedSwap(t, b, p) ==
    IF b = None THEN bin' = [bin EXCEPT ![t] = p] /\ prev' = [prev EXCEPT ![t] = None]
    ELSE UNCHANGED <<bin, prev>>

\* A target failed.  The first: nothing was replaced.  A later one: the
\* targets replaced so far are restored.
TargetFailed ==
    /\ At("apply", "failed")
    /\ \/ NoFault /\ RecoverFailedSwap(Target, bin[Target], prev[Target])
       \/ bin[Target] = None /\ Fault /\ UNCHANGED <<bin, prev>>
    /\ Go(IF op.left = {} THEN "reinstate" ELSE "unwind")
    /\ UNCHANGED <<label, plist, ended>> /\ Untouched

\* Variant: the label is written back whatever became of the backup.
MayReinstateAlways(prior, backup) == prior # None

\* reinstateRollback: the backup of the failed target is still there.
MayReinstate(prior, backup) == prior # None /\ backup # None

Reinstate ==
    /\ At("apply", "reinstate") /\ OpFails
    /\ \/ NoFault /\ label' = IF MayReinstate(op.prior, prev[Target]) THEN op.prior ELSE label
       \/ MayReinstate(op.prior, prev[Target]) /\ Fault /\ UNCHANGED label
    /\ UNCHANGED <<bin, prev, plist>> /\ Untouched

DropBackup(t) == [prev EXCEPT ![t] = None]

\* restoreOne swaps the backup in (a missing one is no error); then it is
\* removed, which may fail without consequence.
RestoreOne(t) ==
    /\ bin' = IF prev[t] = None THEN bin ELSE [bin EXCEPT ![t] = prev[t]]
    /\ \/ NoFault /\ prev' = DropBackup(t)
       \/ prev[t] # None /\ Fault /\ UNCHANGED prev

RestoreFails(t) ==
    /\ prev[t] # None
    /\ \/ Fault /\ UNCHANGED bin
       \/ faults > 1 /\ faults' = faults - 2 /\ bin' = [bin EXCEPT ![t] = None]

\* Variant: the siblings keep the new version.
ToRestorePrimary(left) == left \ (Targets \ {Primary})

ToRestore(left) == left

\* restoreSwapped: the last one first; a consumed backup is removed.
Unwind ==
    /\ At("apply", "unwind")
    /\ LET left == ToRestore(op.left) IN
       IF left = {} THEN OpFails /\ NoFault /\ UNCHANGED <<bin, prev>>
       ELSE LET t == Max(left) IN
            /\ op' = [op EXCEPT !.left = @ \ {t}]
            /\ RestoreOne(t) \/ (RestoreFails(t) /\ UNCHANGED prev)
            /\ UNCHANGED ended
    /\ UNCHANGED <<label, plist>> /\ Untouched

\* The label is written once every target is new; otherwise all are restored.
WriteLabel ==
    /\ At("apply", "label")
    /\ \/ NoFault /\ label' = running /\ labelled' = prev /\ Go(IF Bundle THEN "plist" ELSE "end")
       \/ Fault /\ Go("unwind") /\ UNCHANGED <<label, labelled>>
    /\ UNCHANGED <<bin, prev, plist, ended>> /\ Elsewhere

\* updateBundleInfoPlist; signing the bundle again is best effort.
ApplyPlist ==
    /\ At("apply", "plist")
    /\ \/ NoFault /\ plist' = op.rel /\ Go("end") /\ UNCHANGED ended
       \/ Fault /\ OpFails /\ UNCHANGED plist
    /\ UNCHANGED <<bin, prev, label>> /\ Untouched

-----------------------------------------------------------------------------
(* Rollback *)

RollbackBegin ==
    /\ At("rollback", "begin")
    /\ \/ NoFault /\ LayoutFound /\ label # None /\ op' = [op EXCEPT !.step = "restore", !.rel = label]
          /\ UNCHANGED ended
       \/ (Fault \/ (NoFault /\ ~(LayoutFound /\ label # None))) /\ OpFails
    /\ UNCHANGED files /\ Untouched

Restored == op' = [op EXCEPT !.todo = @ \ {Target},
                             !.step = IF Target # Primary THEN "restore" ELSE IF Bundle THEN "plist" ELSE "forget"]

\* One target is restored and its backup removed, if it can be.
Restore ==
    /\ At("rollback", "restore")
    /\ LET t == Target IN
       \/ RestoreOne(t) /\ Restored /\ UNCHANGED ended
       \/ RestoreFails(t) /\ OpFails /\ UNCHANGED prev
    /\ UNCHANGED <<label, plist>> /\ Untouched

RollbackPlist ==
    /\ At("rollback", "plist")
    /\ \/ NoFault /\ plist' = op.rel /\ Go("forget") /\ UNCHANGED ended
       \/ Fault /\ OpFails /\ UNCHANGED plist
    /\ UNCHANGED <<bin, prev, label>> /\ Untouched

\* The label goes last; that it stays is not an error.
Forget ==
    /\ At("rollback", "forget") /\ Go("end")
    /\ \/ NoFault /\ label' = None
       \/ Fault /\ UNCHANGED label
    /\ UNCHANGED <<bin, prev, plist, ended>> /\ Untouched

-----------------------------------------------------------------------------
(* The process *)

IngestStart ==
    /\ alive /\ gate = "free" /\ gate' = "ingest"
    /\ UNCHANGED <<files, latest, proc, status, applyMu, click, op, history, bounds>>

IngestEnd ==
    /\ alive /\ gate = "ingest" /\ gate' = "free"
    /\ UNCHANGED <<files, latest, proc, status, applyMu, click, op, history, bounds>>

\* Variant: only the menu's own operations hold Quit back.
QuitBlockedByMenu == op.by = "menu"

\* trayQuitBlocked: the menu's flags, the gate, a phase that owns the files.
QuitBlocked == op.by = "menu" \/ gate # "free" \/ phase \in {"downloading", "verifying", "restarting", "rolling back"}

\* systray.Quit: the loop is left, the process goes on.
Leaves == leaving' = TRUE /\ UNCHANGED <<files, latest, life, status, locks, click, op, history, bounds>>

\* "Quit" or a signal: at once, or when the ticker finds nothing in the way.
Quit ==
    /\ alive /\ ~leaving
    /\ \/ ~QuitBlocked /\ Leaves
       \/ /\ QuitBlocked /\ ~quitRequested /\ quitRequested' = TRUE
          /\ UNCHANGED <<files, latest, alive, running, leaving, serving, status, locks, click, op, history, bounds>>

\* The menu loop's ticker: restart after the window's apply, a quit that was
\* put off.
Tick ==
    /\ alive /\ ~leaving
    /\ \/ phase = "restarting" /\ op.by # "menu"
       \/ quitRequested /\ ~QuitBlocked
    /\ Leaves

\* "Restart now", after a change of the settings: the gate is tried and
\* given back.
RestartNow == alive /\ ~leaving /\ gate = "free" /\ Leaves

\* The context is cancelled, by a signal at any time or by stop() once the
\* loop has been left: the status server takes no more requests.
Shutdown ==
    /\ alive /\ serving /\ serving' = FALSE
    /\ UNCHANGED <<files, latest, alive, running, quitRequested, leaving, status, locks, click, op, history, bounds>>

\* restoreOne moves the program aside, a copy of the backup in, and its
\* caller removes the backup: a death may come between any two.
Restoring ==
    {t \in Targets : /\ prev[t] # None
                     /\ \/ At("rollback", "restore") /\ t = Target
                        \/ At("apply", "unwind") /\ op.left # {} /\ t = Max(op.left)}

Dies ==
    /\ alive' = FALSE /\ op' = NoOp
    /\ bin' \in {bin} \cup {[bin EXCEPT ![t] = None] : t \in Restoring}
                      \cup {[bin EXCEPT ![t] = prev[t]] : t \in Restoring}
    /\ UNCHANGED <<prev, label, plist, latest, running, quitRequested, leaving, serving, status, locks, click>>
    /\ UNCHANGED <<clean, labelled, faults, ops>>

\* The server has shut down and the process ends, without a look at the gate
\* or the phase.
Exit ==
    /\ alive /\ leaving /\ ~serving /\ Dies
    /\ cut' = (cut \/ op # NoOp) /\ UNCHANGED crashes

Crash == alive /\ crashes > 0 /\ crashes' = crashes - 1 /\ Dies /\ UNCHANGED cut

\* relaunchSelf, the login item or the user: a fresh process of what is there.
Start ==
    /\ ~alive /\ bin[Primary] \in Versions /\ alive' = TRUE /\ running' = bin[Primary] /\ quitRequested' = FALSE
    /\ leaving' = FALSE /\ serving' = TRUE
    /\ phase' = "idle" /\ found' = FALSE /\ gate' = "free" /\ applyMu' = "free" /\ click' = "none" /\ op' = NoOp
    /\ UNCHANGED <<files, latest, history, bounds>>

Next ==
    \/ Publish \/ CheckStart \/ CheckEnd
    \/ \E kind \in {"apply", "rollback"} : WindowReads(kind)
    \/ WindowStarts \/ MenuApply \/ MenuRollback \/ OpEnds
    \/ ApplyBegin \/ Preflight \/ Withdraw \/ Fetch \/ ClearBackup \/ MoveAside \/ MoveIn \/ TargetFailed
    \/ Reinstate \/ Unwind \/ WriteLabel \/ ApplyPlist
    \/ RollbackBegin \/ Restore \/ RollbackPlist \/ Forget
    \/ IngestStart \/ IngestEnd \/ Quit \/ Tick \/ RestartNow \/ Shutdown \/ Exit \/ Crash \/ Start

Spec == Init /\ [][Next]_vars

-----------------------------------------------------------------------------
(* Properties *)

(* The menu loop and trayQuitBlocked: the decision to quit or to restart   *)
(* is never taken while an apply or a rollback is under way, whoever       *)
(* started it, nor does one that was under way outlive it: an operation in *)
(* hand when the loop has been left began after the decision.              *)
QuitSafe == leaving /\ op # NoOp => op.late

\* Every program has the backup that the label was written for, or that
\* backup has been restored and removed.
AsLabelled == \A t \in Targets : prev[t] = labelled[t] \/ (prev[t] = None /\ bin[t] = labelled[t])

(* withdrawRollback and reinstateRollback: through failed updates, partial *)
(* rollbacks and deaths, a label is on offer only together with the very   *)
(* backups it was written for, from whatever install they came.            *)
LabelMatches == RollbackInfo => AsLabelled

\* Every program is version v, or has it as its backup.
Matches(v) == \A t \in Targets : prev[t] = v \/ (prev[t] = None /\ bin[t] = v)

(* selfupdate.go:236-238: the label "is never left describing backups that *)
(* don't match it"; a rollback on offer leads to the version it names.     *)
(* This is false: a second update may begin while the first one's version  *)
(* does not run yet, after a lost restart, a death or a failed Info.plist. *)
LabelNamesBackups == RollbackInfo => Matches(label)

Same == \A t \in Targets : bin[t] = bin[Primary]

(* run_supported.go:475-483: that a swap is not interrupted half way "is   *)
(* worthless if this select loop quits and the whole process exits out     *)
(* from under that goroutine regardless"; a quit or a restart, with no     *)
(* failure and no other death, never leaves the programs at two versions.  *)
(* This is false: the server takes requests until Shutdown.                *)
QuitNeverMixes == (~alive /\ faults = MaxFaults /\ crashes = MaxCrashes) => Same

(* applyAllTargets, restoreSwapped, Rollback: whatever single operation    *)
(* fails, between two operations no program is missing and all have one    *)
(* version, or a rollback is on offer that brings the rest to it.          *)
OneFaultIsUndone ==
    (op = NoOp /\ clean /\ ~cut /\ MaxFaults - faults <= 1 /\ crashes = MaxCrashes) =>
        /\ \A t \in Targets : bin[t] # None
        /\ Same \/ RollbackInfo

(* go-selfupdate's renames, recoverFailedSwap and the removal of consumed  *)
(* backups: at every moment, through failures and deaths, a program that   *)
(* was validated is at each target's path or at its backup.                *)
Recoverable ==
    \A t \in Targets : /\ bin[t] # None \/ prev[t] # None
                       /\ {bin[t], prev[t]} \cap Bad = {}

-----------------------------------------------------------------------------
(* The invariant from which those that hold follow *)

\* An operation is in hand only while the process lives and holds the gate;
\* one of the window's also holds applyMu, so that no check changes the phase.
OpHeld ==
    /\ op.kind = "none" => op = NoOp
    /\ op.kind # "none" => alive /\ gate = "op" /\ op.by # "none"
    /\ leaving /\ op.kind # "none" => op.late
    /\ op.by = "window" => applyMu = "op" /\ phase \in {"downloading", "verifying", "rolling back"}

Applying(steps)    == op.kind = "apply" /\ op.step \in steps
RollingBack(steps) == op.kind = "rollback" /\ op.step \in steps

\* As long as there is a target to visit, the running program is one.
TargetLeft ==
    /\ op.kind # "none" /\ op.step \in {"begin", "preflight", "withdraw", "fetch", "clear", "aside", "in", "failed",
                                        "reinstate", "restore"} => Primary \in op.todo
    /\ op.kind # "none" /\ op.step = "begin" => op.todo = Layout /\ op.left = {}
    /\ Applying({"preflight", "withdraw", "reinstate"}) => op.left = {}
    /\ op.todo \cap op.left = {}
    /\ Applying({"failed", "reinstate", "unwind"}) => faults < MaxFaults

\* What is moved aside is there, and what is moved in was validated.
Swappable ==
    /\ Applying({"preflight", "withdraw", "fetch", "clear", "aside"}) => \A t \in op.todo : bin[t] # None
    /\ Applying({"aside"}) => prev[Target] = None
    /\ Applying({"in"}) => bin[Target] = None /\ prev[Target] # None /\ \A t \in op.todo \ {Target} : bin[t] # None
    /\ Applying(Steps \ {"begin"}) => op.rel \in Versions
    /\ RollingBack({"restore", "plist"}) => op.rel \in Versions
    /\ Applying({"clear", "aside", "in"}) => op.new = op.rel
    /\ Applying({"withdraw", "fetch", "clear", "aside", "in"}) => op.cached
    /\ Applying({"failed"}) /\ bin[Target] = None => faults + 2 <= MaxFaults

\* Between the withdrawal and the end of an apply no rollback is on offer.
Withdrawn == Applying({"fetch", "clear", "aside", "in", "failed", "reinstate", "unwind", "label"}) => label = None

TwoFaults == MaxFaults - faults <= 2
OneFault  == clean /\ ~cut /\ MaxFaults - faults <= 1 /\ crashes = MaxCrashes

\* A label that is there, and one that may be written back, goes with the
\* backups it was written for.
LabelKept ==
    /\ TwoFaults /\ label # None => AsLabelled
    /\ TwoFaults /\ op.left = {} /\ op.prior # None
       /\ (Applying({"fetch", "clear"}) \/ (Applying({"failed"}) /\ bin[Target] # None) \/ Applying({"reinstate"}))
       /\ (Applying({"failed", "reinstate"}) => prev[Target] # None)
          => AsLabelled

\* As long as applies began clean it names their version.
LabelNamed ==
    /\ clean /\ label # None => \A t \in Targets : labelled[t] = label
    /\ clean /\ Applying({"fetch", "clear", "aside", "in", "failed", "reinstate"}) /\ op.prior # None =>
          \A t \in Targets : labelled[t] = op.prior

Old(t) == t \in op.todo /\ t \notin op.left /\ bin[t] = running
New(t) == t \notin op.todo /\ t \in op.left /\ bin[t] = op.rel /\ prev[t] = running

\* What a clean apply has replaced and what it has not.
Halfway ==
    /\ clean /\ Applying({"preflight", "withdraw"}) => \A t \in Targets : Old(t)
    /\ clean /\ Applying({"fetch", "clear", "aside"}) => \A t \in Targets : Old(t) \/ New(t)
    /\ clean /\ Applying({"in"}) => prev[Target] = running /\ \A t \in Targets \ {Target} : Old(t) \/ New(t)
    /\ clean /\ Applying({"failed"}) /\ bin[Target] # None => \A t \in Targets : Old(t) \/ New(t)
    /\ clean /\ Applying({"label"}) => \A t \in Targets : New(t)
    /\ clean /\ Applying({"plist", "end"}) => \A t \in Targets : bin[t] = op.rel

\* With one fault at most nothing is missing at the end of an operation, and
\* what it undoes or finishes is undone or finished for every program.
Undone ==
    /\ OneFault /\ (op.kind = "none" \/ op.step \in {"begin", "preflight", "withdraw"}) =>
          (\A t \in Targets : bin[t] # None) /\ (Same \/ RollbackInfo)
    /\ OneFault /\ Applying({"reinstate"}) => \A t \in Targets : bin[t] = running
    /\ OneFault /\ Applying({"unwind"}) =>
          \A t \in Targets : IF t \in op.left THEN prev[t] = running ELSE bin[t] = running
    /\ OneFault /\ RollingBack({"restore"}) =>
          /\ \A t \in Targets : bin[t] # None /\ (t \notin op.todo => bin[t] = label)
          /\ label # None /\ (prev[Primary] # None \/ \A t \in Targets : bin[t] = label)
    /\ OneFault /\ RollingBack({"plist", "forget", "end"}) => bin[Primary] # None /\ Same

UpdateInv ==
    /\ TypeOK /\ OpHeld /\ TargetLeft /\ Swappable /\ Recoverable
    /\ Withdrawn /\ LabelKept /\ LabelNamed /\ Halfway /\ Undone
=============================================================================
