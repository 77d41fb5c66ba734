----------------------------- MODULE CardOffers -----------------------------
(***************************************************************************)
(* How the tray offers cards (internal/tray/tray.go, cardscope.go,         *)
(* importfolder.go, statusapi.go; ingest/carddetect.go; internal/eject).   *)
(* The detector reports every insertion once.  A report is offered by the  *)
(* detector's own goroutine; while the tray is paused it is held, and a    *)
(* resume hands what is held to a goroutine of its own.  "Ingest now" and  *)
(* the window's batch ingest without asking.  Whoever ingests holds the    *)
(* gate, and a detected card that went well is ejected before its release. *)
(***************************************************************************)
EXTENDS Integers, FiniteSetsExt

CONSTANTS
    Cards,      \* volumes that are camera cards
    Others,     \* mounted volumes without DCIM, or holding archive or edit root
    Resumers,   \* bound: goroutines of offerCardsHeldDuringPause at one time
    AutoEject,  \* tray.autoEject
    LockRetries,  \* attempts to lock a volume
    MaxInserts, \* bound: insertions
    MaxPauses,  \* bound: changes of the pause flag
    MaxEvents   \* bound: other doings of operator and programs

ASSUME OffersAssumption ==
    /\ Cards \cap Others = {} /\ IsFiniteSet(Resumers) /\ AutoEject \in BOOLEAN
    /\ {"detector", "menu", "window", "nobody"} \cap Resumers = {} /\ "none" \notin Cards
    /\ {LockRetries, MaxInserts, MaxPauses, MaxEvents} \subseteq Nat

Manual    == {"menu", "window"}
Detecting == {"detector"} \cup Resumers
Threads   == Manual \cup Detecting
Free      == "nobody"
NoCard    == "none"

VARIABLES
    mounted,     \* cards that are mounted
    open,        \* cards with a file open in another program
    handle,      \* cards on which the eject has a handle open
    inserts,     \* history: insertions of every card
    offers,      \* history: how often it was offered to the operator
    owed,        \* history: reported and neither offered nor passed over since
    known,       \* the detector's last listing
    detected,    \* Runner.detectedVolumes
    diff,        \* the report the detector is working on
    cancelled,   \* the detector's context
    paused, held, resuming,  \* pause flag, pausedInserts, resumes that have not taken them
    skipped, incomplete,     \* skip set, configIncomplete
    gate, stop,  \* holder of Runner.gate, CancelIngest was called
    thr,         \* of every goroutine [pc, list, cur, tries]
    pauses, events  \* what is left of the bounds

cards  == <<mounted, open, handle, inserts>>
seen   == <<known, detected, diff, cancelled>>
pause  == <<paused, held, resuming>>
bounds == <<pauses, events>>
vars == <<cards, offers, owed, seen, pause, skipped, incomplete, gate, stop, thr, bounds>>

Steps == {"idle", "record", "hold", "list", "next", "rehold", "load", "holdone", "ask", "dialog",
          "gate", "walk", "lock", "dismount", "allow", "release"}
Idle  == [pc |-> "idle", list |-> {}, cur |-> NoCard, tries |-> 0]

TypeOK ==
    /\ mounted \subseteq Cards /\ open \subseteq mounted /\ handle \subseteq mounted
    /\ inserts \in [Cards -> Nat] /\ offers \in [Cards -> Nat] /\ owed \subseteq Cards
    /\ known \subseteq Cards /\ detected \subseteq Cards /\ cancelled \in BOOLEAN
    /\ diff \in [inserted : SUBSET Cards, removed : SUBSET Cards]
    /\ paused \in BOOLEAN /\ held \subseteq Cards /\ resuming \in Nat
    /\ skipped \subseteq Cards /\ incomplete \in BOOLEAN
    /\ gate \in Threads \cup {Free} /\ stop \in BOOLEAN
    /\ thr \in [Threads -> [pc : Steps, list : SUBSET Cards, cur : Cards \cup {NoCard}, tries : 0..LockRetries]]
    /\ {pauses, events} \subseteq Nat

Init ==
    /\ mounted = {} /\ open = {} /\ handle = {} /\ inserts = [c \in Cards |-> 0] /\ offers = [c \in Cards |-> 0] /\ owed = {}
    /\ known = {} /\ detected = {} /\ diff = [inserted |-> {}, removed |-> {}] /\ cancelled = FALSE
    /\ paused = FALSE /\ held = {} /\ resuming = 0 /\ skipped = {} /\ incomplete = FALSE
    /\ gate = Free /\ stop = FALSE /\ thr = [t \in Threads |-> Idle]
    /\ pauses = MaxPauses /\ events = MaxEvents

Event == events > 0 /\ events' = events - 1

-----------------------------------------------------------------------------
(* The operator, the card reader and other programs *)

Insert(c) ==
    /\ c \notin mounted /\ MapThenSumSet(LAMBDA d : inserts[d], Cards) < MaxInserts
    /\ mounted' = mounted \cup {c} /\ inserts' = [inserts EXCEPT ![c] = @ + 1]
    /\ UNCHANGED <<open, handle, offers, owed, seen, pause, skipped, incomplete, gate, stop, thr, bounds>>

Pull(c) ==
    /\ c \in mounted /\ Event /\ mounted' = mounted \ {c} /\ open' = open \ {c} /\ handle' = handle \ {c}
    /\ UNCHANGED <<inserts, offers, owed, seen, pause, skipped, incomplete, gate, stop, thr, pauses>>

\* A file is opened, which a locked volume does not allow, or closed.
OpenFile(c) ==
    /\ c \in mounted \ open /\ Event /\ open' = open \cup {c}
    /\ ~(c \in handle /\ \E t \in Threads : thr[t].cur = c /\ thr[t].pc = "dismount")
    /\ UNCHANGED <<mounted, handle, inserts, offers, owed, seen, pause, skipped, incomplete, gate, stop, thr, pauses>>

CloseFile(c) ==
    /\ c \in open /\ open' = open \ {c}
    /\ UNCHANGED <<mounted, handle, inserts, offers, owed, seen, pause, skipped, incomplete, gate, stop, thr, bounds>>

\* SetPaused: the flag first; what is held is taken later.
SetPaused(v) ==
    /\ paused # v /\ pauses > 0 /\ pauses' = pauses - 1 /\ paused' = v
    /\ resuming' = IF v THEN resuming ELSE resuming + 1
    /\ UNCHANGED <<cards, offers, owed, seen, held, skipped, incomplete, gate, stop, thr, events>>

SetConfigIncomplete ==
    /\ Event /\ incomplete' = ~incomplete
    /\ UNCHANGED <<cards, offers, owed, seen, pause, skipped, gate, stop, thr, pauses>>

CancelIngest ==
    /\ Event /\ ~stop /\ \E t \in Threads : thr[t].pc = "walk"
    /\ stop' = TRUE
    /\ UNCHANGED <<cards, offers, owed, seen, pause, skipped, incomplete, gate, thr, pauses>>

-----------------------------------------------------------------------------
(* The detector *)

\* selectCardVolumes: DCIM required, destinations excluded.
selectCardVolumes(vols) == vols \ Others

Goto(t, pc) == thr' = [thr EXCEPT ![t].pc = pc]

\* One poll of Watch that finds a difference.
Poll ==
    /\ thr["detector"].pc = "idle"
    /\ LET cur == selectCardVolumes(mounted \cup Others) IN
       /\ cur # known /\ known' = cur
       /\ diff' = [inserted |-> cur \ known, removed |-> known \ cur]
       /\ owed' = (owed \cup (cur \ known)) \ (known \ cur)
    /\ Goto("detector", "record")
    /\ UNCHANGED <<cards, offers, detected, cancelled, pause, skipped, incomplete, gate, stop, bounds>>

\* recordDetected, then ForgetSkipped for every removed volume.
RecordDetected ==
    /\ thr["detector"].pc = "record" /\ Goto("detector", "hold")
    /\ detected' = (detected \ diff.removed) \cup diff.inserted /\ skipped' = skipped \ diff.removed
    /\ UNCHANGED <<cards, offers, owed, known, diff, cancelled, pause, incomplete, gate, stop, bounds>>

\* Variant: what the caller has read of the flag is not looked at again.
HoldAsRead(now) == TRUE

\* holdPausedInserts looks at the flag again, under the lock.
MayHold(now) == now

HoldDiff ==
    /\ thr["detector"].pc = "hold"
    /\ held' = (held \ diff.removed) \cup (IF paused THEN diff.inserted ELSE {})
    /\ thr' = [thr EXCEPT !["detector"] = [Idle EXCEPT !.pc = IF paused THEN "idle" ELSE "next",
                                                       !.list = IF paused THEN {} ELSE diff.inserted]]
    /\ diff' = [inserted |-> {}, removed |-> {}]
    /\ UNCHANGED <<cards, offers, owed, known, detected, cancelled, paused, resuming, skipped, incomplete, gate, stop, bounds>>

\* ReconfigureDetector with the same roots (interval changed): the context
\* is cancelled, the goroutine awaited, the next one starts from what has
\* been reported.
CancelDetector ==
    /\ ~cancelled /\ Event /\ cancelled' = TRUE
    /\ UNCHANGED <<cards, offers, owed, known, detected, diff, pause, skipped, incomplete, gate, stop, thr, pauses>>

\* Variant: the new detector knows of nothing.
KnownNothing == {}

KnownAtStart == detected

RestartDetector ==
    /\ cancelled /\ thr["detector"].pc = "idle" /\ cancelled' = FALSE /\ known' = KnownAtStart
    /\ UNCHANGED <<cards, offers, owed, detected, diff, pause, skipped, incomplete, gate, stop, thr, bounds>>

-----------------------------------------------------------------------------
(* Resuming *)

\* offerCardsHeldDuringPause takes the set under the lock ...
TakeHeld ==
    /\ resuming > 0 /\ resuming' = resuming - 1 /\ held' = {}
    /\ \/ held = {} /\ UNCHANGED thr
       \/ \E r \in Resumers : held # {} /\ thr[r].pc = "idle" /\ thr' = [thr EXCEPT ![r] = [Idle EXCEPT !.pc = "list", !.list = held]]
    /\ UNCHANGED <<cards, offers, owed, seen, paused, skipped, incomplete, gate, stop, bounds>>

\* ... and keeps what is still there.
ListPresent(r) ==
    /\ thr[r].pc = "list"
    /\ thr' = [thr EXCEPT ![r].pc = "next", ![r].list = @ \cap selectCardVolumes(mounted \cup Others)]
    /\ owed' = owed \ (thr[r].list \ mounted)
    /\ UNCHANGED <<cards, offers, seen, pause, skipped, incomplete, gate, stop, bounds>>

-----------------------------------------------------------------------------
(* "Ingest now" and the window's batch *)

\* Busy, GateHeld, Paused, ConfigIncomplete: the window refuses, the menu
\* does not.
MayStart(t) ==
    t = "window" => ~paused /\ ~incomplete /\ gate = Free

StartManual(t) ==
    /\ thr[t].pc = "idle" /\ Event /\ MayStart(t)
    /\ LET vols == selectCardVolumes(mounted \cup Others) IN
       vols # {} /\ thr' = [thr EXCEPT ![t] = [Idle EXCEPT !.pc = "next", !.list = vols]]
    /\ UNCHANGED <<cards, offers, owed, seen, pause, skipped, incomplete, gate, stop, pauses>>

-----------------------------------------------------------------------------
(* triggerIngest, by every goroutine for one card after another *)

At(t, pc)  == thr[t].pc = pc
Dropped(t) == thr' = [thr EXCEPT ![t].pc = "next", ![t].cur = NoCard, ![t].tries = 0]

\* The loop; a goroutine of a resume looks at the pause flag first.
NextVolume(t) ==
    /\ At(t, "next")
    /\ \/ thr[t].list = {} /\ thr' = [thr EXCEPT ![t] = Idle]
       \/ t \in Resumers /\ thr[t].list # {} /\ paused /\ Goto(t, "rehold")
       \/ /\ ~(t \in Resumers /\ paused)
          /\ \E c \in thr[t].list : thr' = [thr EXCEPT ![t].pc = "load", ![t].cur = c, ![t].list = @ \ {c}]
    /\ UNCHANGED <<cards, offers, owed, seen, pause, skipped, incomplete, gate, stop, bounds>>

\* Paused again: the rest is held again, unless it was resumed meanwhile.
Rehold(t) ==
    /\ At(t, "rehold")
    /\ \/ MayHold(paused) /\ held' = held \cup thr[t].list /\ thr' = [thr EXCEPT ![t] = Idle]
       \/ /\ ~MayHold(paused) /\ UNCHANGED held
          /\ \E c \in thr[t].list : thr' = [thr EXCEPT ![t].pc = "load", ![t].cur = c, ![t].list = @ \ {c}]
    /\ UNCHANGED <<cards, offers, owed, seen, paused, resuming, skipped, incomplete, gate, stop, bounds>>

LoadPaused(t) ==
    /\ At(t, "load")
    /\ \/ ~paused /\ Goto(t, "ask")
       \/ paused /\ t \in Detecting /\ Goto(t, "holdone")
       \/ paused /\ t \in Manual /\ Dropped(t)
    /\ UNCHANGED <<cards, offers, owed, seen, pause, skipped, incomplete, gate, stop, bounds>>

HoldOne(t) ==
    /\ At(t, "holdone")
    /\ \/ MayHold(paused) /\ held' = held \cup {thr[t].cur} /\ Dropped(t)
       \/ ~MayHold(paused) /\ Goto(t, "ask") /\ UNCHANGED held
    /\ UNCHANGED <<cards, offers, owed, seen, paused, resuming, skipped, incomplete, gate, stop, bounds>>

\* Configuration and skip set; a detection is then put to the operator.
Ask(t) ==
    LET c == thr[t].cur IN
    /\ At(t, "ask")
    /\ \/ (incomplete \/ (t \in Detecting /\ c \in skipped)) /\ Dropped(t) /\ UNCHANGED offers
       \/ ~incomplete /\ t \in Manual /\ (Goto(t, "gate") \/ Dropped(t)) /\ UNCHANGED offers
       \/ /\ ~incomplete /\ t \in Detecting /\ c \notin skipped /\ Goto(t, "dialog")
          /\ offers' = [offers EXCEPT ![c] = @ + 1]
    /\ owed' = IF t \in Detecting THEN owed \ {c} ELSE owed
    /\ UNCHANGED <<cards, seen, pause, skipped, incomplete, gate, stop, bounds>>

\* Import (or the allow-list), Skip this time, or a dialog that fails; the
\* archive is probed, and without it or a queue the ingest ends.
Confirm(t) ==
    /\ At(t, "dialog")
    /\ \/ (Goto(t, "gate") \/ Dropped(t)) /\ UNCHANGED skipped
       \/ skipped' = skipped \cup {thr[t].cur} /\ Dropped(t)
    /\ UNCHANGED <<cards, offers, owed, seen, pause, incomplete, gate, stop, bounds>>

\* The window does not wait: its batch ends.
TakeGate(t) ==
    /\ At(t, "gate")
    /\ \/ gate = Free /\ gate' = t /\ stop' = FALSE /\ Goto(t, "walk")
       \/ gate # Free /\ t = "window" /\ thr' = [thr EXCEPT ![t] = Idle] /\ UNCHANGED <<gate, stop>>
    /\ UNCHANGED <<cards, offers, owed, seen, pause, skipped, incomplete, bounds>>

Outcomes == {"ok", "failed", "deferred", "canceled"}

shouldAutoEject(t, outcome) == AutoEject /\ t \in Detecting /\ outcome = "ok"

\* IngestCard or IngestCardOffline, the summary, the decision to eject.
Walk(t) ==
    /\ At(t, "walk")
    /\ \E outcome \in Outcomes :
          /\ outcome = "canceled" <=> stop
          /\ outcome = "ok" => thr[t].cur \in mounted /\ ~(t = "detector" /\ cancelled)
          /\ thr' = [thr EXCEPT ![t].pc = IF shouldAutoEject(t, outcome) THEN "lock" ELSE "release",
                                ![t].list = IF t \in Manual /\ outcome = "canceled" THEN {} ELSE @]
    /\ UNCHANGED <<cards, offers, owed, seen, pause, skipped, incomplete, gate, stop, bounds>>

\* Variant: after the last attempt the volume is dismounted regardless.
LockedOrTired(got, tries) == IF got \/ tries = LockRetries THEN "dismount" ELSE "lock"

\* Variant: the lock is awaited.
AwaitLock(got, tries) == IF got THEN "dismount" ELSE "lock"

\* runEjectSequence: the lock is tried LockRetries times.
AfterLock(got, tries) == IF got THEN "dismount" ELSE IF tries = LockRetries THEN "release" ELSE "lock"

LockVolume(t) ==
    LET c == thr[t].cur
        tries == Min({thr[t].tries + 1, LockRetries})
        got == c \in mounted \ open
    IN
    /\ At(t, "lock")
    /\ \/ c \notin mounted /\ Goto(t, "release") /\ UNCHANGED handle
       \/ /\ c \in mounted /\ thr' = [thr EXCEPT ![t].tries = tries, ![t].pc = AfterLock(got, tries)]
          /\ handle' = handle \cup {c}
    /\ UNCHANGED <<mounted, open, inserts, offers, owed, seen, pause, skipped, incomplete, gate, stop, bounds>>

\* A card that was pulled meanwhile has taken its handle with it.
Dismount(t) ==
    LET c == thr[t].cur IN
    /\ At(t, "dismount")
    /\ \/ Goto(t, "release") /\ UNCHANGED cards
       \/ /\ c \in handle /\ Goto(t, "allow")
          /\ mounted' = mounted \ {c} /\ open' = open \ {c} /\ handle' = handle \ {c} /\ UNCHANGED inserts
    /\ UNCHANGED <<offers, owed, seen, pause, skipped, incomplete, gate, stop, bounds>>

\* Removal is allowed and the media ejected; either may fail without
\* consequence, the card is dismounted.
AllowAndEject(t) ==
    /\ At(t, "allow") /\ Goto(t, "release")
    /\ UNCHANGED <<cards, offers, owed, seen, pause, skipped, incomplete, gate, stop, bounds>>

ReleaseGate(t) ==
    /\ At(t, "release") /\ gate' = Free /\ stop' = FALSE /\ Dropped(t) /\ handle' = handle \ {thr[t].cur}
    /\ UNCHANGED <<mounted, open, inserts, offers, owed, seen, pause, skipped, incomplete, bounds>>

-----------------------------------------------------------------------------

Step(t) ==
    \/ NextVolume(t) \/ Rehold(t) \/ LoadPaused(t) \/ HoldOne(t) \/ Ask(t) \/ Confirm(t)
    \/ Walk(t) \/ LockVolume(t) \/ Dismount(t) \/ AllowAndEject(t) \/ ReleaseGate(t)

Detector == Poll \/ RecordDetected \/ HoldDiff

Next ==
    \/ \E c \in Cards : Insert(c) \/ Pull(c) \/ OpenFile(c) \/ CloseFile(c)
    \/ \E v \in BOOLEAN : SetPaused(v)
    \/ SetConfigIncomplete \/ CancelIngest
    \/ Detector \/ CancelDetector \/ RestartDetector
    \/ TakeHeld \/ \E r \in Resumers : ListPresent(r)
    \/ \E t \in Manual : StartManual(t)
    \/ \E t \in Threads : Step(t) \/ TakeGate(t)

\* Goroutines run, dialogs time out, walks and requests end; a waiting
\* mutex is handed over.
Fairness ==
    /\ WF_vars(Detector) /\ WF_vars(RestartDetector) /\ WF_vars(TakeHeld)
    /\ \A r \in Resumers : WF_vars(ListPresent(r))
    /\ \A t \in Threads : WF_vars(Step(t)) /\ SF_vars(TakeGate(t))

Spec == Init /\ [][Next]_vars /\ Fairness

-----------------------------------------------------------------------------
(* Properties *)

(* Watch, detectedVolumes, pausedInserts: pause, resume and a restart of   *)
(* the detector in any order never offer one insertion twice.              *)
OfferedOncePerInsertion == \A c \in Cards : offers[c] <= inserts[c]

Listed == diff.inserted \cup UNION {thr[t].list \cup {thr[t].cur} : t \in Detecting}

(* holdPausedInserts and offerCardsHeldDuringPause: a report that was      *)
(* neither offered nor passed over is in somebody's hands, and what is     *)
(* held is held for a resume that is still to come.                        *)
NoReportLost ==
    /\ owed \subseteq held \cup Listed
    /\ held # {} => paused \/ resuming > 0

(* TriggerDetectedIngest: once the tray is not paused every reported card  *)
(* is offered, passed over, gone or held by a new pause; nobody waits for  *)
(* ever behind the gate or a dialog.                                       *)
EventuallyOffered == \A c \in Cards : (c \in owed /\ ~paused) ~> (c \notin owed \/ paused)

(* runEjectSequence under the gate: no card is dismounted while another    *)
(* program has a file on it open or another ingest walks it.               *)
DismountedIdle ==
    [][\A t \in Threads : (At(t, "dismount") /\ thr'[t].pc = "allow") =>
          /\ thr[t].cur \notin open
          /\ \A u \in Threads : ~(At(u, "walk") /\ thr[u].cur = thr[t].cur)]_vars

-----------------------------------------------------------------------------
(* The invariant from which these three follow *)

Holding == {"walk", "lock", "dismount", "allow", "release"}

\* Which goroutine may be where, and with what in hand.
AtWork ==
    \A t \in Threads :
        /\ thr[t].pc \in {"idle", "record", "hold"} => thr[t].list = {}
        /\ thr[t].pc \in {"load", "holdone", "ask", "dialog", "gate"} \cup Holding => thr[t].cur \in Cards \ thr[t].list
        /\ thr[t].pc \in {"record", "hold"} => t = "detector"
        /\ thr[t].pc \in {"list", "rehold"} => t \in Resumers
        /\ thr[t].pc \in {"holdone", "dialog"} => t \in Detecting
        /\ thr[t].pc \in Holding => gate = t
        /\ thr[t].pc = "dismount" /\ thr[t].cur \in handle => thr[t].cur \notin open

\* What the detector has reported, and what it knows.
Reported ==
    IF thr["detector"].pc \in {"record", "hold"}
    THEN /\ owed \cap diff.removed = {}
         /\ known = IF At("detector", "hold") THEN detected ELSE (detected \ diff.removed) \cup diff.inserted
    ELSE diff.inserted = {} /\ known = detected

\* The reports a goroutine has still to put to the operator.
Carried(t) == thr[t].list \cup (IF thr[t].pc \in {"load", "holdone", "ask"} THEN {thr[t].cur} ELSE {})

InHand ==
    /\ owed \subseteq held \cup diff.inserted \cup UNION {Carried(t) : t \in Detecting}
    /\ held # {} => paused \/ resuming > 0

One(b)      == IF b THEN 1 ELSE 0
Carriers(c) == {t \in Detecting : c \in Carried(t)}

\* Every insertion is worth one offer: made, on its way, or not yet reported.
Counted ==
    \A c \in Cards :
        offers[c] + One(c \in mounted \ known) + One(c \in diff.inserted) + One(c \in held) + Cardinality(Carriers(c)) <= inserts[c]

OffersInv == TypeOK /\ AtWork /\ Reported /\ InHand /\ Counted
=============================================================================
