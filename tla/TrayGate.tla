------------------------------ MODULE TrayGate ------------------------------
(***************************************************************************)
(* The tray's ingest gate (internal/tray, Runner).  One mutex serialises   *)
(* ingests, prunes, self-updates and the exchange of the ingest engine     *)
(* after a settings change.  Reconfigure never waits for the gate: if it   *)
(* is taken the call is left in reconfigPending for a goroutine that waits *)
(* in its place.  The card detector is a goroutine of its own whose        *)
(* context is also that of the ingests it starts; a change of its roots    *)
(* or settings restarts it after the gate is released.                     *)
(*                                                                         *)
(* Settings changes are serialised by the settings' own lock (saveMu), so  *)
(* one Reconfigure call is under way at a time; the goroutines that wait   *)
(* for the gate outlive their calls.  Call c brings engine c and the card  *)
(* roots rootsOf[c]; the engine at the start is 0.  Which files a walk     *)
(* takes and pause, skip and confirmation are in other modules.            *)
(***************************************************************************)
EXTENDS Integers

CONSTANTS
    MaxCalls,    \* bound: settings changes of any behaviour
    MaxCards,    \* bound: cards one poll of the detector can report
    Budgets      \* bound: the [changes, cards, manuals, others] of a behaviour: settings changes,
                 \* cards inserted, ingests the operator starts, prunes and self-updates

ASSUME TrayAssumption ==
    /\ {MaxCalls, MaxCards} \subseteq Nat
    /\ Budgets \subseteq [changes : Nat, cards : Nat, manuals : Nat, others : Nat]

None    == -1
Calls   == 1..MaxCalls
Engines == 0..MaxCalls
Threads == {"detector", "manual"}

VARIABLES
    gate,       \* who holds Runner.gate
    ingester,   \* the engine in use
    closed,     \* engines that were closed
    pending,    \* reconfigPending, the newest call not applied, or None
    waiting,    \* reconfigWaiting: a goroutine waits for the gate
    newest,     \* the newest call made
    watchDirs,  \* Runner.watchDirs, as the call it came from
    sync,       \* the call that holds saveMu, or None
    pc, took,   \* of every call its step and the call it applies
    restart,    \* of every call: the roots changed
    detMu,      \* the call that holds detectorMu, or None
    det,        \* the detector: alive, cancelled, cards to take, its roots
    ing,        \* of every ingesting thread its step and its engine
    stop, busy, \* ingestStop (nil, armed, requested) and Runner.busy
    rootsOf,    \* the card roots of every call made
    left        \* what is left of the budget

callVars == <<pending, waiting, newest, sync, pc, took, restart>>
flags    == <<stop, busy>>
vars == <<gate, ingester, closed, callVars, watchDirs, detMu, det, ing, flags, rootsOf, left>>

TypeOK ==
    /\ gate \in {"free", "reconfigure", "other"} \cup Threads
    /\ ingester \in Engines /\ closed \subseteq Engines
    /\ pending \in {None} \cup Calls /\ waiting \in BOOLEAN
    /\ newest \in Engines /\ watchDirs \in Engines /\ sync \in {None} \cup Calls
    /\ pc \in [Calls -> {"new", "trying", "refused", "waiter", "awake", "gated", "taken", "swapped",
                         "closed", "unlocked", "restarting", "joining", "starting", "done"}]
    /\ took \in [Calls -> Engines] /\ restart \in [Calls -> BOOLEAN]
    /\ detMu \in {None} \cup Calls
    /\ det \in [alive : BOOLEAN, cancelled : BOOLEAN, left : 0..MaxCards, roots : Engines]
    /\ ing \in [Threads -> [pc : {"idle", "waiting", "walking", "leaving"}, engine : Engines]]
    /\ stop \in {"nil", "armed", "requested"} /\ busy \in BOOLEAN
    /\ rootsOf \in [Engines -> {0, 1}]
    /\ left \in [changes : Nat, cards : Nat, manuals : Nat, others : Nat]

Init ==
    /\ gate = "free" /\ ingester = 0 /\ closed = {}
    /\ pending = None /\ waiting = FALSE /\ newest = 0 /\ watchDirs = 0 /\ sync = None
    /\ pc = [c \in Calls |-> "new"] /\ took = [c \in Calls |-> 0] /\ restart = [c \in Calls |-> FALSE]
    /\ detMu = None
    /\ det = [alive |-> TRUE, cancelled |-> FALSE, left |-> 0, roots |-> 0]
    /\ ing = [t \in Threads |-> [pc |-> "idle", engine |-> 0]]
    /\ stop = "nil" /\ busy = FALSE
    /\ rootsOf = [e \in Engines |-> 0]
    /\ left \in Budgets

GateFree == gate = "free"

-----------------------------------------------------------------------------
(* Ingests *)

\* A poll finds new cards; the goroutine takes them one after the other.
Poll ==
    /\ det.alive /\ ing["detector"].pc = "idle" /\ det.left = 0
    /\ \E n \in 1..MaxCards : /\ n <= left.cards /\ left' = [left EXCEPT !.cards = @ - n]
                             /\ det' = [det EXCEPT !.left = n]
    /\ UNCHANGED <<gate, ingester, closed, callVars, watchDirs, detMu, ing, flags, rootsOf>>

CardsLeft(n) == n - 1

\* TriggerDetectedIngest for the next of them.
TakeCard ==
    /\ det.alive /\ ing["detector"].pc = "idle" /\ det.left > 0
    /\ det' = [det EXCEPT !.left = CardsLeft(@)]
    /\ ing' = [ing EXCEPT !["detector"].pc = "waiting"]
    /\ UNCHANGED <<gate, ingester, closed, callVars, watchDirs, detMu, flags, rootsOf, left>>

\* Watch sees its context cancelled between two polls.
DetectorExits ==
    /\ det.alive /\ det.cancelled /\ ing["detector"].pc = "idle" /\ det.left = 0
    /\ det' = [det EXCEPT !.alive = FALSE]
    /\ UNCHANGED <<gate, ingester, closed, callVars, watchDirs, detMu, ing, flags, rootsOf, left>>

\* "Ingest now" waits for the gate, the window's button does not.
TriggerIngest ==
    /\ ing["manual"].pc = "idle" /\ left.manuals > 0 /\ left' = [left EXCEPT !.manuals = @ - 1]
    /\ ing' = [ing EXCEPT !["manual"].pc = "waiting"]
    /\ UNCHANGED <<gate, ingester, closed, callVars, watchDirs, detMu, det, flags, rootsOf>>

TriggerIngestNoWait ==
    /\ ing["manual"].pc = "waiting" /\ ~GateFree
    /\ ing' = [ing EXCEPT !["manual"].pc = "idle"]
    /\ UNCHANGED <<gate, ingester, closed, callVars, watchDirs, detMu, det, flags, rootsOf, left>>

\* The gate is had: busy is set, the engine read, the stop function armed.
StartWalk(t) ==
    /\ ing[t].pc = "waiting" /\ GateFree /\ gate' = t
    /\ ing' = [ing EXCEPT ![t] = [pc |-> "walking", engine |-> ingester]]
    /\ stop' = "armed" /\ busy' = TRUE
    /\ UNCHANGED <<ingester, closed, callVars, watchDirs, detMu, det, rootsOf, left>>

CancelIngest ==
    /\ stop = "armed" /\ stop' = "requested"
    /\ UNCHANGED <<gate, ingester, closed, callVars, watchDirs, detMu, det, ing, busy, rootsOf, left>>

\* Variant: the deferred calls in the opposite order.
LeaveStepUnlockFirst(n) ==
    IF n = 2 THEN stop' = "nil" /\ busy' = FALSE /\ UNCHANGED gate
    ELSE gate' = "free" /\ UNCHANGED flags

\* The deferred calls: the stop function and busy are cleared, then the gate
\* is released.
LeaveStep(n) ==
    IF n = 1 THEN stop' = "nil" /\ busy' = FALSE /\ UNCHANGED gate
    ELSE gate' = "free" /\ UNCHANGED flags

\* The walk is over: at the end of the card, at a file boundary after a
\* stop, or because its context is cancelled.
EndWalk(t) ==
    /\ ing[t].pc = "walking" /\ LeaveStep(1)
    /\ ing' = [ing EXCEPT ![t].pc = "leaving"]
    /\ UNCHANGED <<ingester, closed, callVars, watchDirs, detMu, det, rootsOf, left>>

Leave(t) ==
    /\ ing[t].pc = "leaving" /\ LeaveStep(2)
    /\ ing' = [ing EXCEPT ![t].pc = "idle"]
    /\ UNCHANGED <<ingester, closed, callVars, watchDirs, detMu, det, rootsOf, left>>

\* TryLockIdle and its release: TriggerPrune, a self-update.
TryLockIdle ==
    /\ GateFree /\ left.others > 0 /\ left' = [left EXCEPT !.others = @ - 1] /\ gate' = "other"
    /\ UNCHANGED <<ingester, closed, callVars, watchDirs, detMu, det, ing, flags, rootsOf>>

Release ==
    /\ gate = "other" /\ gate' = "free"
    /\ UNCHANGED <<ingester, closed, callVars, watchDirs, detMu, det, ing, flags, rootsOf, left>>

-----------------------------------------------------------------------------
(* Reconfigure *)

Step(c, to)  == pc' = [pc EXCEPT ![c] = to]
Return(c)    == sync' = IF sync = c THEN None ELSE sync

\* The call is pending; the one it displaces was never installed.
Reconfigure(c) ==
    /\ sync = None /\ c = newest + 1 /\ pc[c] = "new"
    /\ left.changes > 0 /\ left' = [left EXCEPT !.changes = @ - 1]
    /\ \E r \in {0, 1} : rootsOf' = [rootsOf EXCEPT ![c] = r]
    /\ sync' = c /\ newest' = c /\ pending' = c
    /\ closed' = closed \cup ({pending} \ {None, ingester})
    /\ Step(c, "trying")
    /\ UNCHANGED <<gate, ingester, waiting, took, restart, watchDirs, detMu, det, ing, flags>>

\* Variant: the exchange does not ask for the gate.
AnyTime == TRUE

MayExchange == gate = "free"

TryGate(c) ==
    /\ pc[c] = "trying"
    /\ \/ MayExchange /\ gate' = "reconfigure" /\ Step(c, "gated")
       \/ ~MayExchange /\ UNCHANGED gate /\ Step(c, "refused")
    /\ UNCHANGED <<ingester, closed, pending, waiting, newest, sync, took, restart, watchDirs, detMu, det, ing, flags, rootsOf, left>>

\* A goroutine waits in place of the call, unless one does already.
StartWaiter(c) ==
    /\ pc[c] = "refused" /\ Return(c)
    /\ waiting' = TRUE /\ Step(c, IF waiting THEN "done" ELSE "waiter")
    /\ UNCHANGED <<gate, ingester, closed, pending, newest, took, restart, watchDirs, detMu, det, ing, flags, rootsOf, left>>

WaiterWakes(c) ==
    /\ pc[c] = "waiter" /\ GateFree /\ gate' = "reconfigure" /\ Step(c, "awake")
    /\ UNCHANGED <<ingester, closed, pending, waiting, newest, sync, took, restart, watchDirs, detMu, det, ing, flags, rootsOf, left>>

\* Variant: the goroutine that is awake still counts as one that waits.
StillWaiting == TRUE

\* reconfigWaiting once the waiting goroutine has the gate.
NoLongerWaiting == FALSE

ClearWaiting(c) ==
    /\ pc[c] = "awake" /\ waiting' = NoLongerWaiting /\ Step(c, "gated")
    /\ UNCHANGED <<gate, ingester, closed, pending, newest, sync, took, restart, watchDirs, detMu, det, ing, flags, rootsOf, left>>

\* applyPendingReconfigAndUnlock: another may have applied it already.
TakePending(c) ==
    /\ pc[c] = "gated" /\ pending' = None
    /\ \/ /\ pending # None /\ took' = [took EXCEPT ![c] = pending] /\ Step(c, "taken")
          /\ UNCHANGED <<gate, sync>>
       \/ /\ pending = None /\ gate' = "free" /\ Step(c, "done") /\ Return(c)
          /\ UNCHANGED took
    /\ UNCHANGED <<ingester, closed, waiting, newest, restart, watchDirs, detMu, det, ing, flags, rootsOf, left>>

Swap(c) ==
    /\ pc[c] = "taken" /\ Step(c, "swapped")
    /\ ingester' = took[c] /\ took' = [took EXCEPT ![c] = ingester]
    /\ restart' = [restart EXCEPT ![c] = rootsOf[watchDirs] # rootsOf[took[c]]]
    /\ watchDirs' = IF restart'[c] THEN took[c] ELSE watchDirs
    /\ UNCHANGED <<gate, closed, pending, waiting, newest, sync, detMu, det, ing, flags, rootsOf, left>>

\* Variant: the old engine is closed only with its detector.
ReplacedWithRoots(c) == IF restart[c] THEN {took[c]} ELSE {}

Replaced(c) == {took[c]}

\* The engine that was replaced is closed, still under the gate.
CloseOld(c) ==
    /\ pc[c] = "swapped" /\ Step(c, "closed")
    /\ closed' = closed \cup Replaced(c) /\ took' = [took EXCEPT ![c] = ingester]
    /\ UNCHANGED <<gate, ingester, pending, waiting, newest, sync, restart, watchDirs, detMu, det, ing, flags, rootsOf, left>>

Unlock(c) ==
    /\ pc[c] = "closed" /\ gate' = "free" /\ Step(c, "unlocked")
    /\ UNCHANGED <<ingester, closed, pending, waiting, newest, sync, took, restart, watchDirs, detMu, det, ing, flags, rootsOf, left>>

\* The detector is restarted for new roots, or if its interval or its DCIM
\* rule is stale.
DecideRestart(c) ==
    /\ pc[c] = "unlocked" /\ (restart[c] \/ detMu = None)
    /\ \/ Step(c, "restarting") /\ UNCHANGED sync
       \/ ~restart[c] /\ Step(c, "done") /\ Return(c)
    /\ UNCHANGED <<gate, ingester, closed, pending, waiting, newest, took, restart, watchDirs, detMu, det, ing, flags, rootsOf, left>>

\* ReconfigureDetector: cancel the detector, wait for its goroutine, start
\* one over these roots.
CancelDetector(c) ==
    /\ pc[c] = "restarting" /\ detMu = None /\ detMu' = c
    /\ det' = [det EXCEPT !.cancelled = TRUE] /\ Step(c, "joining")
    /\ UNCHANGED <<gate, ingester, closed, pending, waiting, newest, sync, took, restart, watchDirs, ing, flags, rootsOf, left>>

\* With no roots, where removable drives are not found on their own, none is
\* started.
StartDetector(c) ==
    /\ pc[c] = "joining" /\ ~det.alive
    /\ \E started \in BOOLEAN : det' = [alive |-> started, cancelled |-> FALSE, left |-> 0, roots |-> took[c]]
    /\ watchDirs' = took[c] /\ detMu' = None /\ Step(c, "done") /\ Return(c)
    /\ UNCHANGED <<gate, ingester, closed, pending, waiting, newest, took, restart, ing, flags, rootsOf, left>>

-----------------------------------------------------------------------------
CallStep(c) ==
    \/ Reconfigure(c) \/ TryGate(c) \/ StartWaiter(c) \/ WaiterWakes(c) \/ ClearWaiting(c)
    \/ TakePending(c) \/ Swap(c) \/ CloseOld(c) \/ Unlock(c) \/ DecideRestart(c)
    \/ CancelDetector(c) \/ StartDetector(c)

Next ==
    \/ Poll \/ TakeCard \/ DetectorExits \/ TriggerIngest \/ TriggerIngestNoWait \/ CancelIngest
    \/ TryLockIdle \/ Release
    \/ \E t \in Threads : StartWalk(t) \/ EndWalk(t) \/ Leave(t)
    \/ \E c \in Calls : CallStep(c)

Spec == Init /\ [][Next]_vars

\* Goroutines run, a walk over a card ends, a prune or an update is over at
\* some time, and of those who wait for a Go mutex that is released again and
\* again one gets it.
FairSpec ==
    /\ Spec
    /\ WF_vars(TakeCard) /\ WF_vars(DetectorExits) /\ WF_vars(Release)
    /\ SF_vars(\E t \in Threads : StartWalk(t)) /\ WF_vars(\E t \in Threads : EndWalk(t) \/ Leave(t))
    /\ SF_vars(\E c \in Calls : WaiterWakes(c)) /\ SF_vars(\E c \in Calls : CancelDetector(c))
    /\ WF_vars(\E c \in Calls : pc[c] # "new" /\ CallStep(c))

-----------------------------------------------------------------------------
(* Properties *)

(* Reconfigure closes an engine when it is displaced or replaced: never    *)
(* one that an ingest walks with, that is installed, that is pending or    *)
(* that is about to be installed.                                          *)
EngineOpen ==
    /\ \A t \in Threads : ing[t].pc = "walking" => ing[t].engine \notin closed
    /\ ingester \notin closed /\ pending \notin closed
    /\ \A c \in Calls : pc[c] = "taken" => took[c] \notin closed

(* triggerIngest's deferred calls: while a card is walked, CancelIngest    *)
(* has a stop function to call and Busy says so, whoever finished just     *)
(* before.                                                                 *)
StopArmed == \A t \in Threads : ing[t].pc = "walking" => stop # "nil" /\ busy

Quiet == pending = None /\ \A c \in Calls : pc[c] \in {"new", "done"}

(* Reconfigure and the goroutine that waits in its place: once all is      *)
(* quiet the newest engine is the one in use, and every other engine was   *)
(* closed, so no exiftool pool is left behind.                             *)
NewestInstalled == Quiet => ingester = newest /\ closed = 0..newest \ {newest}

(* reconfigWaiting's hand-over: a pending call is applied in the end, and  *)
(* no call waits for ever for the gate, for detectorMu or for a detector   *)
(* goroutine that itself waits for the gate.                               *)
EventuallyApplied ==
    /\ (pending # None) ~> (pending = None)
    /\ \A c \in Calls : (pc[c] # "new") ~> (pc[c] = "done")

-----------------------------------------------------------------------------
(* The invariant from which EngineOpen, StopArmed and NewestInstalled follow *)

\* The gate is held by the ingest that walks or leaves, or by the one call
\* that exchanges engines.
Holding(c) == pc[c] \in {"awake", "gated", "taken", "swapped", "closed"}

GateHeld ==
    /\ \A t \in Threads : ing[t].pc \in {"walking", "leaving"} <=> gate = t
    /\ \A c \in Calls : Holding(c) => gate = "reconfigure"
    /\ \A c, d \in Calls : Holding(c) /\ Holding(d) => c = d

\* An ingest walks with the engine that is installed.
WalksInstalled == \A t \in Threads : ing[t].pc = "walking" => ing[t].engine = ingester

\* A call under way holds one engine: the new one, then the replaced one.
Moving(c) == pc[c] \in {"taken", "swapped"}

\* Every engine so far is in exactly one place.
EnginesPlaced ==
    /\ closed \subseteq 0..newest /\ ingester <= newest /\ pending <= newest
    /\ \A c \in Calls : pc[c] # "new" => c <= newest
    /\ \A e \in 0..newest : \/ e \in closed \cup {ingester, pending}
                             \/ \E c \in Calls : Moving(c) /\ took[c] = e
    /\ {ingester, pending} \cap closed = {} /\ pending # ingester
    /\ \A c \in Calls : Moving(c) => took[c] \notin closed \cup {ingester, pending} /\ took[c] <= newest

\* The newest engine is never replaced or displaced.
NewestKept ==
    \/ pending = newest
    \/ pending = None /\ \E c \in Calls : pc[c] = "taken" /\ took[c] = newest
    \/ pending = None /\ ingester = newest /\ \A c \in Calls : pc[c] # "taken"

GateInv == TypeOK /\ GateHeld /\ StopArmed /\ WalksInstalled /\ EnginesPlaced /\ NewestKept
=============================================================================
