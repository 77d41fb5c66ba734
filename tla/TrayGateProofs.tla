--------------------------- MODULE TrayGateProofs ---------------------------
(* Theorems about the tray's gate, for any number of settings changes,      *)
(* cards and ingests.                                                       *)
EXTENDS TrayGate, TLAPS

\* The steps that are about one ingest, and those that touch neither gate,
\* engines nor calls.
Aside ==
    \/ Poll \/ TakeCard \/ DetectorExits \/ TriggerIngest \/ TriggerIngestNoWait \/ CancelIngest

-----------------------------------------------------------------------------
(* Types *)

LEMMA BoundTypes == MaxCalls \in Nat /\ MaxCards \in Nat
BY TrayAssumption

LEMMA TypeAside == TypeOK /\ Aside => TypeOK'
<1> USE BoundTypes DEF TypeOK, Threads, callVars, flags
<1>1. TypeOK /\ Poll => TypeOK'
  BY DEF Poll
<1>2. TypeOK /\ TakeCard => TypeOK'
  BY DEF TakeCard, CardsLeft
<1>3. TypeOK /\ DetectorExits => TypeOK'
  <2> SUFFICES ASSUME TypeOK, DetectorExits PROVE TypeOK'
    OBVIOUS
  <2>1. det' \in [alive : BOOLEAN, cancelled : BOOLEAN, left : 0..MaxCards, roots : Engines]
    BY DEF DetectorExits
  <2> QED
    BY <2>1 DEF DetectorExits
<1>4. TypeOK /\ TriggerIngest => TypeOK'
  BY DEF TriggerIngest
<1>5. TypeOK /\ TriggerIngestNoWait => TypeOK'
  BY DEF TriggerIngestNoWait
<1>6. TypeOK /\ CancelIngest => TypeOK'
  BY DEF CancelIngest
<1> QED
  BY <1>1, <1>2, <1>3, <1>4, <1>5, <1>6 DEF Aside

LEMMA TypeGate ==
    ASSUME TypeOK, TryLockIdle \/ Release \/ \E t \in Threads : StartWalk(t) \/ EndWalk(t) \/ Leave(t)
    PROVE  TypeOK'
<1> USE BoundTypes DEF TypeOK, callVars, flags
<1>1. CASE TryLockIdle
  BY <1>1 DEF TryLockIdle
<1>2. CASE Release
  BY <1>2 DEF Release
<1>3. ASSUME NEW t \in Threads, StartWalk(t) PROVE TypeOK'
  BY <1>3 DEF StartWalk
<1>4. ASSUME NEW t \in Threads, EndWalk(t) PROVE TypeOK'
  <2>1. stop' \in {"nil", "armed", "requested"} /\ busy' \in BOOLEAN /\ gate' \in {"free", "reconfigure", "other"} \cup Threads
    BY <1>4 DEF EndWalk, LeaveStep
  <2>2. ing' \in [Threads -> [pc : {"idle", "waiting", "walking", "leaving"}, engine : Engines]]
    BY <1>4 DEF EndWalk
  <2> QED
    BY <1>4, <2>1, <2>2 DEF EndWalk
<1>5. ASSUME NEW t \in Threads, Leave(t) PROVE TypeOK'
  BY <1>5 DEF Leave, LeaveStep
<1> QED
  BY <1>1, <1>2, <1>3, <1>4, <1>5

LEMMA TypeCall ==
    ASSUME TypeOK, NEW c \in Calls, CallStep(c)
    PROVE  TypeOK'
<1>0. Calls \subseteq Engines
  BY BoundTypes DEF Calls, Engines
<1> USE <1>0 DEF TypeOK, Step, Return, callVars, flags
<1>1. CASE Reconfigure(c)
  BY <1>1 DEF Reconfigure
<1>2. CASE TryGate(c)
  BY <1>2 DEF TryGate
<1>3. CASE StartWaiter(c)
  BY <1>3 DEF StartWaiter
<1>4. CASE WaiterWakes(c)
  BY <1>4 DEF WaiterWakes
<1>5. CASE ClearWaiting(c)
  <2>1. waiting' \in BOOLEAN /\ pc' = [pc EXCEPT ![c] = "gated"]
    BY <1>5 DEF ClearWaiting, NoLongerWaiting
  <2> QED
    BY <1>5, <2>1 DEF ClearWaiting
<1>6. CASE TakePending(c)
  BY <1>6 DEF TakePending
<1>7. CASE Swap(c)
  BY <1>7 DEF Swap
<1>8. CASE CloseOld(c)
  BY <1>8 DEF CloseOld, Replaced
<1>9. CASE Unlock(c)
  BY <1>9 DEF Unlock
<1>10. CASE DecideRestart(c)
  BY <1>10 DEF DecideRestart
<1>11. CASE CancelDetector(c)
  BY <1>11 DEF CancelDetector
<1>12. CASE StartDetector(c)
  BY <1>12, BoundTypes DEF StartDetector
<1> QED
  BY <1>1, <1>2, <1>3, <1>4, <1>5, <1>6, <1>7, <1>8, <1>9, <1>10, <1>11, <1>12 DEF CallStep

-----------------------------------------------------------------------------
(* Who holds the gate *)

\* The untyped parts of the invariant: the gate and what is done under it.
Guarded == GateHeld /\ StopArmed /\ WalksInstalled
Engined == EnginesPlaced /\ NewestKept

LEMMA GuardedAside == TypeOK /\ Guarded /\ Aside => Guarded'
BY DEF Aside, Poll, TakeCard, DetectorExits, TriggerIngest, TriggerIngestNoWait, CancelIngest, GateFree,
       TypeOK, Guarded, GateHeld, StopArmed, WalksInstalled, Holding, Threads, callVars, flags

LEMMA GuardedGate ==
    ASSUME TypeOK, Guarded, TryLockIdle \/ Release \/ \E t \in Threads : StartWalk(t) \/ EndWalk(t) \/ Leave(t)
    PROVE  Guarded'
<1> USE DEF TypeOK, Guarded, GateHeld, StopArmed, WalksInstalled, Holding, Threads, GateFree, callVars, flags
<1>1. CASE TryLockIdle \/ Release
  BY <1>1 DEF TryLockIdle, Release
<1>2. ASSUME NEW t \in Threads, StartWalk(t) PROVE Guarded'
  BY <1>2 DEF StartWalk
<1>3. ASSUME NEW t \in Threads, EndWalk(t) PROVE Guarded'
  BY <1>3 DEF EndWalk, LeaveStep
<1>4. ASSUME NEW t \in Threads, Leave(t) PROVE Guarded'
  BY <1>4 DEF Leave, LeaveStep
<1> QED
  BY <1>1, <1>2, <1>3, <1>4

LEMMA GuardedCall ==
    ASSUME TypeOK, Guarded, NEW c \in Calls, CallStep(c)
    PROVE  Guarded'
<1> USE DEF TypeOK, Guarded, GateHeld, StopArmed, WalksInstalled, Holding, Threads, GateFree, MayExchange, Step, callVars, flags
<1>1. CASE Reconfigure(c)
  BY <1>1 DEF Reconfigure
<1>2. CASE TryGate(c)
  BY <1>2 DEF TryGate
<1>3. CASE StartWaiter(c)
  BY <1>3 DEF StartWaiter
<1>4. CASE WaiterWakes(c)
  BY <1>4 DEF WaiterWakes
<1>5. CASE ClearWaiting(c)
  BY <1>5 DEF ClearWaiting
<1>6. CASE TakePending(c)
  BY <1>6 DEF TakePending
<1>7. CASE Swap(c)
  BY <1>7 DEF Swap
<1>8. CASE CloseOld(c)
  BY <1>8 DEF CloseOld
<1>9. CASE Unlock(c)
  BY <1>9 DEF Unlock
<1>10. CASE DecideRestart(c)
  <2>1. CASE Step(c, "restarting")
    BY <1>10, <2>1 DEF DecideRestart
  <2>2. CASE Step(c, "done")
    BY <1>10, <2>2 DEF DecideRestart
  <2> QED
    BY <1>10, <2>1, <2>2 DEF DecideRestart
<1>11. CASE CancelDetector(c)
  BY <1>11 DEF CancelDetector
<1>12. CASE StartDetector(c)
  BY <1>12 DEF StartDetector
<1> QED
  BY <1>1, <1>2, <1>3, <1>4, <1>5, <1>6, <1>7, <1>8, <1>9, <1>10, <1>11, <1>12 DEF CallStep

-----------------------------------------------------------------------------
(* Where the engines are *)

LEMMA EnginedSame ==
    ASSUME Engined, UNCHANGED <<closed, ingester, pending, newest, pc, took>>
    PROVE  Engined'
BY DEF Engined, EnginesPlaced, NewestKept, Moving

\* A step of a call that has no engine in its hands and takes none.
LEMMA EnginedElsewhere ==
    ASSUME TypeOK, Engined, NEW c \in Calls, NEW to,
           UNCHANGED <<closed, ingester, pending, newest, took>>, Step(c, to),
           pc[c] \notin {"new", "taken", "swapped"}, to \notin {"taken", "swapped"}
    PROVE  Engined'
<1>1. \A d \in Calls : /\ Moving(d)' <=> Moving(d)
                       /\ pc'[d] = "taken" <=> pc[d] = "taken"
                       /\ pc'[d] # "new" => pc[d] # "new"
  BY DEF TypeOK, Step, Moving
<1>2. EnginesPlaced'
  BY <1>1 DEF Engined, EnginesPlaced
<1>3. NewestKept'
  BY <1>1 DEF Engined, NewestKept
<1> QED
  BY <1>2, <1>3 DEF Engined

LEMMA EnginedReconfigure ==
    ASSUME TypeOK, Engined, NEW c \in Calls, Reconfigure(c)
    PROVE  Engined'
<1> USE BoundTypes DEF Calls, Engines, None
<1>1. /\ newest' = newest + 1 /\ pending' = newest + 1 /\ ingester' = ingester
      /\ closed' = closed \cup ({pending} \ {-1, ingester}) /\ took' = took
  BY DEF Reconfigure
<1>2. \A d \in Calls : /\ Moving(d)' <=> Moving(d)
                       /\ pc'[d] # "new" => pc[d] # "new" \/ d = newest + 1
  BY DEF TypeOK, Reconfigure, Step, Moving
<1>3. newest \in Nat /\ pending \in Nat \cup {-1} /\ ingester \in Nat /\ closed \subseteq Nat /\ \A d \in Calls : took[d] \in Nat
  BY DEF TypeOK
<1>4. \A e \in 0..newest' : \/ e \in closed' \cup {ingester', pending'}
                            \/ \E d \in Calls : Moving(d)' /\ took'[d] = e
  <2> TAKE e \in 0..newest'
  <2>1. CASE e = newest + 1
    BY <1>1, <2>1
  <2>2. CASE e # newest + 1
    <3>1. e \in 0..newest
      BY <1>1, <1>3, <2>2
    <3>2. e # -1
      BY <3>1, <1>3
    <3>3. CASE e \in closed \cup {ingester, pending}
      BY <1>1, <3>2, <3>3
    <3>4. CASE \E d \in Calls : Moving(d) /\ took[d] = e
      BY <1>1, <1>2, <3>4
    <3> QED
      BY <3>1, <3>3, <3>4 DEF Engined, EnginesPlaced
  <2> QED
    BY <2>1, <2>2
<1>5. \A d \in Calls : Moving(d)' => took'[d] \notin closed' \cup {ingester', pending'} /\ took'[d] <= newest'
  BY <1>1, <1>2, <1>3 DEF Engined, EnginesPlaced
<1>6. EnginesPlaced'
  <2>1. closed' \subseteq 0..newest' /\ ingester' <= newest' /\ pending' <= newest'
    BY <1>1, <1>3 DEF Engined, EnginesPlaced
  <2>2. \A d \in Calls : pc'[d] # "new" => d <= newest'
    BY <1>1, <1>2, <1>3 DEF Engined, EnginesPlaced
  <2>3. {ingester', pending'} \cap closed' = {} /\ pending' # ingester'
    BY <1>1, <1>3 DEF Engined, EnginesPlaced
  <2> QED
    BY <1>4, <1>5, <2>1, <2>2, <2>3 DEF EnginesPlaced
<1> QED
  BY <1>1, <1>6 DEF Engined, NewestKept

LEMMA EnginedTake ==
    ASSUME TypeOK, Guarded, Engined, NEW c \in Calls, TakePending(c), pending # None
    PROVE  Engined'
<1>1. /\ UNCHANGED <<closed, ingester, newest>> /\ pending' = None
      /\ took' = [took EXCEPT ![c] = pending] /\ pc' = [pc EXCEPT ![c] = "taken"] /\ pc[c] = "gated"
  BY DEF TakePending, Step
<1>2. \A d \in Calls : ~Moving(d)
  BY <1>1 DEF Guarded, GateHeld, Holding, Moving
<1>3. /\ Moving(c)' /\ took'[c] = pending
      /\ \A d \in Calls : (Moving(d)' => d = c) /\ (pc'[d] # "new" => pc[d] # "new")
  BY <1>1, <1>2 DEF TypeOK, Moving
<1>4. None \notin closed /\ None # ingester /\ None <= newest /\ None \notin 0..newest
  BY DEF TypeOK, Engines, None
<1>5. EnginesPlaced'
  BY <1>1, <1>2, <1>3, <1>4 DEF Engined, EnginesPlaced
<1>6. NewestKept'
  BY <1>1, <1>2, <1>3 DEF TypeOK, Engined, NewestKept
<1> QED
  BY <1>5, <1>6 DEF Engined

LEMMA EnginedSwap ==
    ASSUME TypeOK, Guarded, Engined, NEW c \in Calls, Swap(c)
    PROVE  Engined'
<1>1. /\ UNCHANGED <<closed, pending, newest>> /\ ingester' = took[c]
      /\ took' = [took EXCEPT ![c] = ingester] /\ pc' = [pc EXCEPT ![c] = "swapped"] /\ pc[c] = "taken"
  BY DEF Swap, Step
<1>2. Moving(c) /\ \A d \in Calls : Moving(d) => d = c
  BY <1>1 DEF Guarded, GateHeld, Holding, Moving
<1>3. /\ Moving(c)' /\ took'[c] = ingester
      /\ \A d \in Calls : (Moving(d)' => d = c) /\ (pc'[d] # "new" => pc[d] # "new")
  BY <1>1, <1>2 DEF TypeOK, Moving
<1>4. EnginesPlaced'
  BY <1>1, <1>2, <1>3 DEF Engined, EnginesPlaced
<1>5. NewestKept'
  BY <1>1, <1>2, <1>3 DEF TypeOK, Engined, NewestKept, Moving
<1> QED
  BY <1>4, <1>5 DEF Engined

LEMMA EnginedClose ==
    ASSUME TypeOK, Guarded, Engined, NEW c \in Calls, CloseOld(c)
    PROVE  Engined'
<1>1. /\ UNCHANGED <<ingester, pending, newest>> /\ closed' = closed \cup {took[c]}
      /\ pc' = [pc EXCEPT ![c] = "closed"] /\ pc[c] = "swapped"
  BY DEF CloseOld, Replaced, Step
<1>2. Moving(c) /\ \A d \in Calls : Moving(d) => d = c
  BY <1>1 DEF Guarded, GateHeld, Holding, Moving
<1>3. \A d \in Calls : ~Moving(d)' /\ (pc'[d] # "new" => pc[d] # "new")
  BY <1>1, <1>2 DEF TypeOK, Moving
<1>4. took[c] \in 0..newest
  BY <1>2 DEF TypeOK, Engined, EnginesPlaced, Engines
<1>5. EnginesPlaced'
  BY <1>1, <1>2, <1>3, <1>4 DEF Engined, EnginesPlaced
<1>6. NewestKept'
  BY <1>1, <1>2 DEF Engined, NewestKept, Moving
<1> QED
  BY <1>5, <1>6 DEF Engined

LEMMA EnginedCall ==
    ASSUME TypeOK, Guarded, Engined, NEW c \in Calls, CallStep(c)
    PROVE  Engined'
<1> USE EnginedElsewhere
<1>1. CASE Reconfigure(c)
  BY <1>1, EnginedReconfigure
<1>2. CASE TryGate(c)
  BY <1>2 DEF TryGate
<1>3. CASE StartWaiter(c)
  BY <1>3 DEF StartWaiter
<1>4. CASE WaiterWakes(c)
  BY <1>4 DEF WaiterWakes
<1>5. CASE ClearWaiting(c)
  BY <1>5 DEF ClearWaiting
<1>6. CASE TakePending(c)
  <2>1. CASE pending = None
    BY <1>6, <2>1 DEF TakePending
  <2> QED
    BY <1>6, <2>1, EnginedTake
<1>7. CASE Swap(c)
  BY <1>7, EnginedSwap
<1>8. CASE CloseOld(c)
  BY <1>8, EnginedClose
<1>9. CASE Unlock(c)
  BY <1>9 DEF Unlock
<1>10. CASE DecideRestart(c)
  BY <1>10 DEF DecideRestart
<1>11. CASE CancelDetector(c)
  BY <1>11 DEF CancelDetector
<1>12. CASE StartDetector(c)
  BY <1>12 DEF StartDetector
<1> QED
  BY <1>1, <1>2, <1>3, <1>4, <1>5, <1>6, <1>7, <1>8, <1>9, <1>10, <1>11, <1>12 DEF CallStep

-----------------------------------------------------------------------------
(* The theorems *)

\* Init.
LEMMA InitGateInv == Init => GateInv
<1> SUFFICES ASSUME Init PROVE GateInv
  OBVIOUS
<1> USE BoundTypes DEF Init, Calls, Engines, Threads, None
<1>1. TypeOK
  <2>1. /\ det \in [alive : BOOLEAN, cancelled : BOOLEAN, left : 0..MaxCards, roots : Engines]
        /\ ing \in [Threads -> [pc : {"idle", "waiting", "walking", "leaving"}, engine : Engines]]
    OBVIOUS
  <2>2. left \in [changes : Nat, cards : Nat, manuals : Nat, others : Nat]
    BY TrayAssumption
  <2> QED
    BY <2>1, <2>2 DEF TypeOK
<1>2. Guarded
  BY DEF Guarded, GateHeld, StopArmed, WalksInstalled, Holding
<1>3. Engined
  BY DEF Engined, EnginesPlaced, NewestKept, Moving
<1> QED
  BY <1>1, <1>2, <1>3 DEF GateInv, Guarded, Engined

\* Every step.
LEMMA NextGateInv == GateInv /\ [Next]_vars => GateInv'
<1> SUFFICES ASSUME GateInv, [Next]_vars PROVE GateInv'
  OBVIOUS
<1> USE DEF Guarded, Engined
<1>0. TypeOK /\ Guarded /\ Engined
  BY DEF GateInv
<1>1. CASE UNCHANGED vars
  BY <1>1 DEF vars, callVars, flags, GateInv, TypeOK, GateHeld, StopArmed, WalksInstalled, EnginesPlaced,
              NewestKept, Holding, Moving
<1>2. CASE Aside
  <2>1. UNCHANGED <<closed, ingester, pending, newest, pc, took>>
    BY <1>2 DEF Aside, Poll, TakeCard, DetectorExits, TriggerIngest, TriggerIngestNoWait, CancelIngest, callVars
  <2> QED
    BY <1>0, <1>2, <2>1, TypeAside, GuardedAside, EnginedSame DEF GateInv
<1>3. CASE TryLockIdle \/ Release \/ \E t \in Threads : StartWalk(t) \/ EndWalk(t) \/ Leave(t)
  <2>1. UNCHANGED <<closed, ingester, pending, newest, pc, took>>
    BY <1>3 DEF TryLockIdle, Release, StartWalk, EndWalk, Leave, callVars
  <2> QED
    BY <1>0, <1>3, <2>1, TypeGate, GuardedGate, EnginedSame DEF GateInv
<1>4. ASSUME NEW c \in Calls, CallStep(c) PROVE GateInv'
  BY <1>0, <1>4, TypeCall, GuardedCall, EnginedCall DEF GateInv
<1> QED
  BY <1>1, <1>2, <1>3, <1>4 DEF Next, Aside

(* The gate's invariant: one holder, an ingest walks with the installed    *)
(* engine and can be stopped, every engine is in one place, and the newest *)
(* is never replaced.                                                      *)
THEOREM GateInvariant == Spec => []GateInv
BY InitGateInv, NextGateInv, PTL DEF Spec

(* Reconfigure: no engine is closed under a walk, while it is installed or *)
(* before it is, whatever number of changes displace one another.          *)
THEOREM EngineSafety == Spec => []EngineOpen
<1>1. GateInv => EngineOpen
  BY DEF GateInv, EngineOpen, EnginesPlaced, WalksInstalled, Moving
<1> QED
  BY <1>1, GateInvariant, PTL

(* triggerIngest: a walk can be stopped at any moment.                     *)
THEOREM StopSafety == Spec => []StopArmed
<1>1. GateInv => StopArmed
  BY DEF GateInv
<1> QED
  BY <1>1, GateInvariant, PTL

(* Reconfigure: when all is quiet the newest engine is in use and every    *)
(* other one is closed.                                                    *)
THEOREM NewestSafety == Spec => []NewestInstalled
<1>1. ASSUME GateInv, Quiet PROVE ingester = newest /\ closed = 0..newest \ {newest}
  <2>1. pending = None /\ \A c \in Calls : ~Moving(c) /\ pc[c] # "taken"
    BY <1>1 DEF Quiet, Moving
  <2>2. newest \in Nat /\ None \notin 0..newest
    BY <1>1 DEF GateInv, TypeOK, Engines, None
  <2>3. ingester = newest
    BY <1>1, <2>1, <2>2 DEF GateInv, NewestKept
  <2>4. \A e \in 0..newest : e \in closed \/ e = newest
    BY <1>1, <2>1, <2>2, <2>3 DEF GateInv, EnginesPlaced
  <2>5. closed \subseteq 0..newest /\ newest \notin closed
    BY <1>1, <2>3 DEF GateInv, EnginesPlaced
  <2> QED
    BY <2>3, <2>4, <2>5
<1>2. GateInv => NewestInstalled
  BY <1>1 DEF NewestInstalled
<1> QED
  BY <1>2, GateInvariant, PTL
=============================================================================
