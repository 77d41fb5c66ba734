-------------------------- MODULE CardOffersProofs --------------------------
(* Theorems about the offering of cards, for any number of cards, resumes,  *)
(* insertions, pauses and other events.                                     *)
EXTENDS CardOffers, FiniteSetTheorems, TLAPS

-----------------------------------------------------------------------------
(* Constants and goroutines *)

LEMMA Names ==
    /\ Cards \cap Others = {} /\ NoCard \notin Cards /\ LockRetries \in Nat /\ AutoEject \in BOOLEAN
    /\ "detector" \in Detecting /\ "detector" \notin Resumers /\ Manual \cap Detecting = {}
    /\ Threads = Manual \cup Detecting /\ Resumers \subseteq Detecting
    /\ Free \notin Threads
BY OffersAssumption DEF NoCard, Detecting, Manual, Threads, Free

LEMMA FewDetecting == IsFiniteSet(Detecting)
<1>1. IsFiniteSet(Resumers)
  BY OffersAssumption
<1>2. IsFiniteSet(Resumers \cup {"detector"})
  BY <1>1, FS_AddElement
<1> QED
  BY <1>2 DEF Detecting

Goroutines == [pc : Steps, list : SUBSET Cards, cur : Cards \cup {NoCard}, tries : 0..LockRetries]

LEMMA IdleIn == Idle \in Goroutines /\ Idle.pc = "idle" /\ Idle.list = {} /\ Idle.cur = NoCard
BY Names DEF Idle, Goroutines, Steps

\* A step of one goroutine.
Only(t) == thr' \in [Threads -> Goroutines] /\ \A u \in Threads \ {t} : thr'[u] = thr[u]

LEMMA ThrType == TypeOK => thr \in [Threads -> Goroutines]
BY DEF TypeOK, Goroutines

LEMMA Replaced ==
    ASSUME TypeOK, NEW t \in Threads, NEW r \in Goroutines, thr' = [thr EXCEPT ![t] = r]
    PROVE  Only(t) /\ thr'[t] = r
BY ThrType DEF Only

LEMMA Moved ==
    ASSUME TypeOK, NEW t \in Threads, NEW p \in Steps, Goto(t, p)
    PROVE  /\ Only(t) /\ thr'[t].pc = p /\ thr'[t].list = thr[t].list /\ thr'[t].cur = thr[t].cur
<1>1. thr[t] \in Goroutines
  BY ThrType
<1>2. [thr[t] EXCEPT !.pc = p] \in Goroutines
  BY <1>1 DEF Goroutines
<1>3. thr' = [thr EXCEPT ![t] = [thr[t] EXCEPT !.pc = p]]
  BY ThrType DEF Goto
<1>4. Only(t) /\ thr'[t] = [thr[t] EXCEPT !.pc = p]
  BY <1>2, <1>3, Replaced
<1> QED
  BY <1>1, <1>4 DEF Goroutines

LEMMA Loaded ==
    ASSUME TypeOK, NEW t \in Threads, NEW c \in thr[t].list,
           thr' = [thr EXCEPT ![t].pc = "load", ![t].cur = c, ![t].list = @ \ {c}]
    PROVE  /\ Only(t) /\ thr'[t].pc = "load" /\ thr'[t].list = thr[t].list \ {c} /\ thr'[t].cur = c /\ c \in Cards
<1> DEFINE r == [thr[t] EXCEPT !.pc = "load", !.cur = c, !.list = @ \ {c}]
<1>1. thr[t] \in Goroutines
  BY ThrType
<1>2. r \in Goroutines /\ r.pc = "load" /\ r.list = thr[t].list \ {c} /\ r.cur = c /\ c \in Cards
  BY <1>1 DEF Goroutines, Steps
<1>3. thr' = [thr EXCEPT ![t] = r]
  BY ThrType
<1> HIDE DEF r
<1>4. Only(t) /\ thr'[t] = r
  BY <1>2, <1>3, Replaced
<1> QED
  BY <1>2, <1>4

LEMMA DroppedOne ==
    ASSUME TypeOK, NEW t \in Threads, Dropped(t)
    PROVE  /\ Only(t) /\ thr'[t].pc = "next" /\ thr'[t].list = thr[t].list /\ thr'[t].cur = NoCard
<1> DEFINE r == [thr[t] EXCEPT !.pc = "next", !.cur = NoCard, !.tries = 0]
<1>1. thr[t] \in Goroutines
  BY ThrType
<1>2. r \in Goroutines /\ r.pc = "next" /\ r.list = thr[t].list /\ r.cur = NoCard
  <2>1. 0 \in 0..LockRetries /\ "next" \in Steps
    BY Names DEF Steps
  <2> QED
    BY <1>1, <2>1 DEF Goroutines
<1>3. thr' = [thr EXCEPT ![t] = r]
  BY ThrType DEF Dropped
<1> HIDE DEF r
<1>4. Only(t) /\ thr'[t] = r
  BY <1>2, <1>3, Replaced
<1> QED
  BY <1>2, <1>4

LEMMA Started ==
    ASSUME TypeOK, NEW t \in Threads, NEW p \in Steps, NEW L, L \subseteq Cards,
           thr' = [thr EXCEPT ![t] = [Idle EXCEPT !.pc = p, !.list = L]]
    PROVE  /\ Only(t) /\ thr'[t].pc = p /\ thr'[t].list = L /\ thr'[t].cur = NoCard
<1> DEFINE r == [Idle EXCEPT !.pc = p, !.list = L]
<1>1. r \in Goroutines /\ r.pc = p /\ r.list = L /\ r.cur = NoCard
  <2>1. 0 \in 0..LockRetries
    BY Names
  <2> QED
    BY <2>1 DEF Goroutines, Idle
<1> HIDE DEF r
<1>2. Only(t) /\ thr'[t] = r
  BY <1>1, Replaced DEF r
<1> QED
  BY <1>1, <1>2

-----------------------------------------------------------------------------
(* Counting *)

\* One goroutine's hand changes the number of carriers by one at most.
LEMMA CarriersChange ==
    ASSUME NEW t \in Detecting, NEW c, \A u \in Detecting \ {t} : Carried(u)' = Carried(u)
    PROVE  /\ Cardinality(Carriers(c)) \in Nat /\ Cardinality(Carriers(c))' \in Nat
           /\ Cardinality(Carriers(c))' + One(c \in Carried(t)) = Cardinality(Carriers(c)) + One(c \in Carried(t))'
<1> DEFINE A == Carriers(c)
           B == {u \in Detecting : c \in Carried(u)'}
           R == {u \in Detecting \ {t} : c \in Carried(u)}
<1>1. Carriers(c)' = B
  BY DEF Carriers
<1>2. R \subseteq Detecting /\ IsFiniteSet(R) /\ t \notin R
  <2>1. R \in SUBSET Detecting /\ t \notin R
    OBVIOUS
  <2> QED
    BY <2>1, FewDetecting, FS_Subset
<1>3. A = IF c \in Carried(t) THEN R \cup {t} ELSE R
  BY DEF Carriers
<1>4. B = IF c \in Carried(t)' THEN R \cup {t} ELSE R
  OBVIOUS
<1> HIDE DEF A, B, R
<1>5. Cardinality(R) \in Nat /\ Cardinality(R \cup {t}) = Cardinality(R) + 1
  BY <1>2, FS_AddElement, FS_CardinalityType
<1>6. Cardinality(A) = Cardinality(R) + One(c \in Carried(t))
  BY <1>3, <1>5 DEF One
<1>7. Cardinality(B) = Cardinality(R) + One(c \in Carried(t))'
  BY <1>4, <1>5 DEF One
<1>8. One(c \in Carried(t)) \in {0, 1} /\ One(c \in Carried(t))' \in {0, 1}
  BY DEF One
<1> QED
  BY <1>1, <1>5, <1>6, <1>7, <1>8 DEF A

LEMMA CarriersType == \A c : Cardinality(Carriers(c)) \in Nat
<1> TAKE c
<1>1. Carriers(c) \in SUBSET Detecting
  BY DEF Carriers
<1> QED
  BY <1>1, FewDetecting, FS_Subset, FS_CardinalityType

LEMMA CarriersSame ==
    ASSUME NEW c, \A u \in Detecting : Carried(u)' = Carried(u)
    PROVE  Cardinality(Carriers(c))' = Cardinality(Carriers(c))
<1>1. Carriers(c)' = Carriers(c)
  BY DEF Carriers
<1> QED
  BY <1>1

LEMMA Ones == \A b : One(b) \in {0, 1}
BY DEF One

LEMMA Sum ==
    ASSUME NEW o \in Nat, NEW p \in Nat, NEW k \in Nat, NEW l \in Nat, NEW i \in Nat,
           NEW m \in {0, 1}, NEW n \in {0, 1}, NEW d \in {0, 1}, NEW h \in {0, 1}, NEW g \in {0, 1}, NEW a \in {0, 1}, NEW b \in {0, 1},
           o + m + d + h + k <= i, n <= m, l + a = k + b, p + g + b <= o + h + a
    PROVE  p + n + d + g + l <= i
OBVIOUS

-----------------------------------------------------------------------------
(* Steps of a goroutine *)

Work(t) ==
    /\ thr[t].pc \in {"idle", "record", "hold"} => thr[t].list = {}
    /\ thr[t].pc \in {"load", "holdone", "ask", "dialog", "gate"} \cup Holding => thr[t].cur \in Cards \ thr[t].list
    /\ thr[t].pc \in {"record", "hold"} => t = "detector"
    /\ thr[t].pc \in {"list", "rehold"} => t \in Resumers
    /\ thr[t].pc \in {"holdone", "dialog"} => t \in Detecting
    /\ thr[t].pc \in Holding => gate = t
    /\ thr[t].pc = "dismount" /\ thr[t].cur \in handle => thr[t].cur \notin open

LEMMA WorkAll == AtWork <=> \A t \in Threads : Work(t)
BY DEF AtWork, Work

LEMMA WorkKept ==
    ASSUME OffersInv, NEW t \in Threads, Only(t), gate' = gate, handle' \subseteq handle, open' \subseteq open, Work(t)'
    PROVE  AtWork'
<1>1. \A u \in Threads \ {t} : Work(u)'
  BY DEF OffersInv, AtWork, Work, Only
<1> QED
  BY <1>1 DEF AtWork, Work

LEMMA WorkFrame ==
    ASSUME OffersInv, thr' = thr, gate' = gate, handle' \subseteq handle, open' \subseteq open
    PROVE  AtWork'
BY DEF OffersInv, AtWork

LEMMA OthersKept ==
    ASSUME NEW t \in Threads, Only(t)
    PROVE  \A u \in Detecting \ {t} : Carried(u)' = Carried(u)
BY Names DEF Only, Carried

LEMMA CountStep ==
    ASSUME OffersInv, NEW t \in Threads, Only(t), TypeOK', UNCHANGED <<inserts, known, diff>>, mounted' \subseteq mounted,
           \/ t \notin Detecting /\ UNCHANGED <<held, offers>>
           \/ /\ t \in Detecting
              /\ \A c \in Cards : offers'[c] + One(c \in held)' + One(c \in Carried(t))' <= offers[c] + One(c \in held) + One(c \in Carried(t))
    PROVE  Counted'
<1> SUFFICES ASSUME NEW c \in Cards
             PROVE  offers'[c] + One(c \in mounted \ known)' + One(c \in diff.inserted)' + One(c \in held)' + Cardinality(Carriers(c))' <= inserts'[c]
  BY DEF Counted
<1>1. offers[c] + One(c \in mounted \ known) + One(c \in diff.inserted) + One(c \in held) + Cardinality(Carriers(c)) <= inserts[c]
  BY DEF OffersInv, Counted
<1>2. offers[c] \in Nat /\ offers'[c] \in Nat /\ inserts[c] \in Nat /\ inserts'[c] = inserts[c]
  BY DEF OffersInv, TypeOK
<1>3. One(c \in mounted \ known)' <= One(c \in mounted \ known) /\ One(c \in diff.inserted)' = One(c \in diff.inserted)
  BY DEF One
<1>4. CASE t \in Detecting
  <2>1. /\ Cardinality(Carriers(c)) \in Nat /\ Cardinality(Carriers(c))' \in Nat
        /\ Cardinality(Carriers(c))' + One(c \in Carried(t)) = Cardinality(Carriers(c)) + One(c \in Carried(t))'
    BY <1>4, OthersKept, CarriersChange
  <2>2. offers'[c] + One(c \in held)' + One(c \in Carried(t))' <= offers[c] + One(c \in held) + One(c \in Carried(t))
    BY <1>4
  <2>3. /\ One(c \in mounted \ known) \in {0, 1} /\ One(c \in mounted \ known)' \in {0, 1} /\ One(c \in diff.inserted) \in {0, 1}
        /\ One(c \in held) \in {0, 1} /\ One(c \in held)' \in {0, 1} /\ One(c \in Carried(t)) \in {0, 1} /\ One(c \in Carried(t))' \in {0, 1}
    BY DEF One
  <2> QED
    BY <1>1, <1>2, <1>3, <2>1, <2>2, <2>3, Sum
<1>5. CASE t \notin Detecting /\ UNCHANGED <<held, offers>>
  <2>1. Cardinality(Carriers(c))' = Cardinality(Carriers(c)) /\ Cardinality(Carriers(c)) \in Nat
    BY <1>5, OthersKept, CarriersSame, CarriersType
  <2>2. One(c \in held)' = One(c \in held)
    BY <1>5 DEF One
  <2>3. /\ One(c \in mounted \ known) \in {0, 1} /\ One(c \in mounted \ known)' \in {0, 1} /\ One(c \in diff.inserted) \in {0, 1}
        /\ One(c \in held) \in {0, 1}
    BY DEF One
  <2> QED
    BY <1>1, <1>2, <1>3, <1>5, <2>1, <2>2, <2>3
<1> QED
  BY <1>4, <1>5

\* A step of one goroutine that takes up no new report.
LEMMA Advance ==
    ASSUME OffersInv, NEW t \in Threads, Only(t), TypeOK', AtWork', UNCHANGED <<inserts, known, detected, diff, paused, resuming>>,
           mounted' \subseteq mounted, owed' \subseteq owed,
           t = "detector" => thr[t].pc \notin {"record", "hold"} /\ thr'[t].pc \notin {"record", "hold"},
           held' # {} => held # {} \/ paused,
           \/ t \notin Detecting /\ UNCHANGED <<held, offers>>
           \/ /\ t \in Detecting
              /\ \A c \in owed' : c \in held \cup Carried(t) => c \in held' \cup Carried(t)'
              /\ \A c \in Cards : offers'[c] + One(c \in held)' + One(c \in Carried(t))' <= offers[c] + One(c \in held) + One(c \in Carried(t))
    PROVE  OffersInv'
<1>1. Reported'
  <2>0. thr["detector"].pc \in {"record", "hold"} <=> thr'["detector"].pc \in {"record", "hold"}
    BY Names DEF Only
  <2>1. CASE thr["detector"].pc \in {"record", "hold"}
    <3>1. thr'["detector"] = thr["detector"]
      BY <2>1, Names DEF Only
    <3> QED
      BY <2>1, <3>1 DEF OffersInv, Reported, At
  <2>2. CASE thr["detector"].pc \notin {"record", "hold"}
    BY <2>0, <2>2 DEF OffersInv, Reported
  <2> QED
    BY <2>1, <2>2
<1>2. InHand'
  <2>1. held' # {} => paused' \/ resuming' > 0
    BY DEF OffersInv, InHand
  <2>2. ASSUME NEW c \in owed' PROVE c \in held' \cup diff'.inserted \cup UNION {Carried(u)' : u \in Detecting}
    <3>1. c \in held \cup diff.inserted \cup UNION {Carried(u) : u \in Detecting}
      BY <2>2 DEF OffersInv, InHand
    <3>2. \A u \in Detecting \ {t} : Carried(u)' = Carried(u)
      BY OthersKept
    <3> QED
      BY <2>2, <3>1, <3>2
  <2> QED
    BY <2>1, <2>2 DEF InHand
<1>3. Counted'
  BY CountStep
<1> QED
  BY <1>1, <1>2, <1>3 DEF OffersInv

\* One that leaves its reports where they are.
LEMMA AdvanceSame ==
    ASSUME OffersInv, NEW t \in Threads, Only(t), TypeOK', AtWork', UNCHANGED <<inserts, known, detected, diff, paused, resuming>>,
           mounted' \subseteq mounted, UNCHANGED <<held, offers, owed>>,
           t = "detector" => thr[t].pc \notin {"record", "hold"} /\ thr'[t].pc \notin {"record", "hold"},
           t \in Detecting => Carried(t)' = Carried(t)
    PROVE  OffersInv'
<1>1. t \in Detecting => \A c \in Cards :
        offers'[c] + One(c \in held)' + One(c \in Carried(t))' <= offers[c] + One(c \in held) + One(c \in Carried(t))
  <2> SUFFICES ASSUME t \in Detecting, NEW c \in Cards
               PROVE  offers'[c] + One(c \in held)' + One(c \in Carried(t))' <= offers[c] + One(c \in held) + One(c \in Carried(t))
    OBVIOUS
  <2>1. offers[c] \in Nat /\ One(c \in held) \in {0, 1} /\ One(c \in Carried(t)) \in {0, 1}
    BY DEF OffersInv, TypeOK, One
  <2>2. One(c \in held)' = One(c \in held) /\ One(c \in Carried(t))' = One(c \in Carried(t))
    BY DEF One
  <2> QED
    BY <2>1, <2>2
<1>2. t \notin Detecting \/ (t \in Detecting /\ \A c \in owed' : c \in held \cup Carried(t) => c \in held' \cup Carried(t)')
  OBVIOUS
<1> QED
  BY <1>1, <1>2, Advance

\* Types through a step of a goroutine.
LEMMA ThreadTyped ==
    ASSUME TypeOK, NEW t, Only(t), UNCHANGED <<mounted, open, inserts, known, detected, diff, cancelled, paused, resuming, incomplete, bounds>>,
           handle' \subseteq handle, offers' \in [Cards -> Nat], owed' \subseteq owed, held' \subseteq Cards, skipped' \subseteq Cards,
           gate' \in Threads \cup {Free}, stop' \in BOOLEAN
    PROVE  TypeOK'
BY DEF TypeOK, Only, Goroutines, bounds

\* What the invariant says of one goroutine.
LEMMA Here ==
    ASSUME OffersInv, NEW t \in Threads
    PROVE  /\ Work(t) /\ TypeOK /\ thr[t].list \subseteq Cards /\ thr[t].cur \in Cards \cup {NoCard} /\ thr[t].pc \in Steps
           /\ thr[t].pc # "idle" => thr[t].pc \in Steps \ {"idle"}
<1>1. thr[t] \in Goroutines
  BY ThrType DEF OffersInv
<1> QED
  BY <1>1, WorkAll DEF OffersInv, Goroutines

LEMMA NextVolumeKeeps ==
    ASSUME OffersInv, NEW t \in Threads, NextVolume(t)
    PROVE  OffersInv'
<1>0. thr[t].pc = "next" /\ UNCHANGED <<cards, offers, owed, seen, pause, skipped, incomplete, gate, stop, bounds>>
  BY DEF NextVolume, At
<1>1. Only(t) /\ thr'[t].pc \notin {"record", "hold"} /\ Work(t)' /\ Carried(t)' = Carried(t)
  <2>1. CASE thr[t].list = {} /\ thr' = [thr EXCEPT ![t] = Idle]
    <3>1. Only(t) /\ thr'[t] = Idle
      BY <2>1, Here, Replaced, IdleIn
    <3> QED
      BY <1>0, <2>1, <3>1, IdleIn DEF Work, Carried, Holding
  <2>2. CASE t \in Resumers /\ Goto(t, "rehold")
    <3>1. Only(t) /\ thr'[t].pc = "rehold" /\ thr'[t].list = thr[t].list
      BY <2>2, Here, Moved DEF Steps
    <3> QED
      BY <1>0, <2>2, <3>1 DEF Work, Carried, Holding
  <2>3. CASE \E c \in thr[t].list : thr' = [thr EXCEPT ![t].pc = "load", ![t].cur = c, ![t].list = @ \ {c}]
    <3>1. PICK c \in thr[t].list : thr' = [thr EXCEPT ![t].pc = "load", ![t].cur = c, ![t].list = @ \ {c}]
      BY <2>3
    <3>2. Only(t) /\ thr'[t].pc = "load" /\ thr'[t].list = thr[t].list \ {c} /\ thr'[t].cur = c /\ c \in Cards
      BY <3>1, Here, Loaded
    <3> QED
      BY <1>0, <3>2 DEF Work, Carried, Holding
  <2> QED
    BY <2>1, <2>2, <2>3 DEF NextVolume
<1>2. TypeOK' /\ AtWork'
  BY <1>0, <1>1, Here, ThreadTyped, WorkKept DEF TypeOK, cards, seen, pause
<1> QED
  BY <1>0, <1>1, <1>2, AdvanceSame DEF cards, seen, pause

\* A step after which its goroutine has the same reports to put.
LEMMA Goes ==
    ASSUME OffersInv, NEW t \in Threads, Only(t), UNCHANGED <<mounted, open, inserts, offers, owed, seen, pause, incomplete, gate, bounds>>,
           handle' \subseteq handle, skipped' \subseteq Cards, stop' \in BOOLEAN,
           thr[t].pc \notin {"record", "hold"}, thr'[t].pc \notin {"record", "hold"}, Work(t)',
           t \in Detecting => Carried(t)' = Carried(t)
    PROVE  OffersInv'
<1>1. TypeOK' /\ AtWork'
  BY Here, ThreadTyped, WorkKept DEF TypeOK, cards, seen, pause
<1> QED
  BY <1>1, AdvanceSame DEF seen, pause

LEMMA LoadKeeps ==
    ASSUME OffersInv, NEW t \in Threads, LoadPaused(t)
    PROVE  OffersInv'
<1>0. thr[t].pc = "load" /\ UNCHANGED <<cards, offers, owed, seen, pause, skipped, incomplete, gate, stop, bounds>>
  BY DEF LoadPaused, At
<1>1. Only(t) /\ thr'[t].pc \notin {"record", "hold"} /\ Work(t)' /\ (t \in Detecting => Carried(t)' = Carried(t))
  <2>1. CASE Goto(t, "ask") \/ (t \in Detecting /\ Goto(t, "holdone"))
    <3>1. Only(t) /\ (thr'[t].pc = "ask" \/ (t \in Detecting /\ thr'[t].pc = "holdone")) /\ thr'[t].list = thr[t].list /\ thr'[t].cur = thr[t].cur
      BY <2>1, Here, Moved DEF Steps
    <3> QED
      BY <1>0, <3>1, Here DEF Work, Carried, Holding
  <2>2. CASE t \in Manual /\ Dropped(t)
    <3>1. Only(t) /\ thr'[t].pc = "next"
      BY <2>2, Here, DroppedOne
    <3> QED
      BY <2>2, <3>1, Names DEF Work, Holding
  <2> QED
    BY <2>1, <2>2 DEF LoadPaused
<1>2. skipped' \subseteq Cards /\ stop' \in BOOLEAN
  BY <1>0 DEF OffersInv, TypeOK
<1> QED
  BY <1>0, <1>1, <1>2, Goes DEF cards

LEMMA ConfirmKeeps ==
    ASSUME OffersInv, NEW t \in Threads, Confirm(t)
    PROVE  OffersInv'
<1>0. thr[t].pc = "dialog" /\ UNCHANGED <<cards, offers, owed, seen, pause, incomplete, gate, stop, bounds>>
  BY DEF Confirm, At
<1>1. thr[t].cur \in Cards
  BY <1>0, Here DEF Work
<1>2. Only(t) /\ thr'[t].pc \notin {"record", "hold"} /\ Work(t)' /\ Carried(t)' = Carried(t)
  <2>1. CASE Goto(t, "gate")
    <3>1. Only(t) /\ thr'[t].pc = "gate" /\ thr'[t].list = thr[t].list /\ thr'[t].cur = thr[t].cur
      BY <2>1, Here, Moved DEF Steps
    <3> QED
      BY <1>0, <3>1, Here DEF Work, Carried, Holding
  <2>2. CASE Dropped(t)
    <3>1. Only(t) /\ thr'[t].pc = "next" /\ thr'[t].list = thr[t].list
      BY <2>2, Here, DroppedOne
    <3> QED
      BY <1>0, <3>1 DEF Work, Carried, Holding
  <2> QED
    BY <2>1, <2>2 DEF Confirm
<1>3. skipped' \subseteq Cards /\ stop' \in BOOLEAN
  BY <1>0, <1>1 DEF OffersInv, TypeOK, Confirm
<1> QED
  BY <1>0, <1>2, <1>3, Goes DEF cards

LEMMA WalkKeeps ==
    ASSUME OffersInv, NEW t \in Threads, Walk(t)
    PROVE  OffersInv'
<1>0. thr[t].pc = "walk" /\ UNCHANGED <<cards, offers, owed, seen, pause, skipped, incomplete, gate, stop, bounds>>
  BY DEF Walk, At
<1>1. PICK outcome \in Outcomes :
        thr' = [thr EXCEPT ![t].pc = IF shouldAutoEject(t, outcome) THEN "lock" ELSE "release",
                           ![t].list = IF t \in Manual /\ outcome = "canceled" THEN {} ELSE @]
  BY DEF Walk
<1> DEFINE p == IF shouldAutoEject(t, outcome) THEN "lock" ELSE "release"
           l == IF t \in Manual /\ outcome = "canceled" THEN {} ELSE thr[t].list
           r == [thr[t] EXCEPT !.pc = p, !.list = l]
<1>2. r \in Goroutines /\ r.pc = p /\ r.list = l /\ r.cur = thr[t].cur
  <2>1. p \in Steps /\ l \in SUBSET Cards /\ thr[t] \in Goroutines
    BY Here, ThrType DEF Steps
  <2> QED
    BY <2>1 DEF Goroutines
<1>3. thr' = [thr EXCEPT ![t] = r]
  BY <1>1, Here, ThrType
<1>4. p \in {"lock", "release"} /\ l \subseteq thr[t].list /\ (t \in Detecting => l = thr[t].list)
  BY Names
<1> HIDE DEF p, l, r
<1>5. Only(t) /\ thr'[t] = r
  BY <1>2, <1>3, Here, Replaced
<1>6. Work(t)' /\ (t \in Detecting => Carried(t)' = Carried(t))
  BY <1>0, <1>2, <1>4, <1>5, Here DEF Work, Carried, Holding
<1>7. skipped' \subseteq Cards /\ stop' \in BOOLEAN /\ thr'[t].pc \notin {"record", "hold"}
  BY <1>0, <1>2, <1>4, <1>5 DEF OffersInv, TypeOK
<1> QED
  BY <1>0, <1>5, <1>6, <1>7, Goes DEF cards

LEMMA AllowKeeps ==
    ASSUME OffersInv, NEW t \in Threads, AllowAndEject(t)
    PROVE  OffersInv'
<1>0. thr[t].pc = "allow" /\ UNCHANGED <<cards, offers, owed, seen, pause, skipped, incomplete, gate, stop, bounds>>
  BY DEF AllowAndEject, At
<1>1. Only(t) /\ thr'[t].pc = "release" /\ thr'[t].list = thr[t].list /\ thr'[t].cur = thr[t].cur
  BY Here, Moved DEF AllowAndEject, Steps
<1>2. Work(t)' /\ Carried(t)' = Carried(t)
  BY <1>0, <1>1, Here DEF Work, Carried, Holding
<1>3. skipped' \subseteq Cards /\ stop' \in BOOLEAN
  BY <1>0 DEF OffersInv, TypeOK
<1> QED
  BY <1>0, <1>1, <1>2, <1>3, Goes DEF cards

\* A report moves from a goroutine to what is held, or to the operator.
LEMMA Handed ==
    ASSUME OffersInv, NEW t \in Detecting, NEW S, S \subseteq Carried(t), Carried(t)' \subseteq Carried(t) \ S,
           \/ held' = held \cup S /\ offers' = offers
           \/ held' = held /\ \A c \in Cards : offers'[c] = offers[c] + One(c \in S)
    PROVE  \A c \in Cards : offers'[c] + One(c \in held)' + One(c \in Carried(t))' <= offers[c] + One(c \in held) + One(c \in Carried(t))
<1> TAKE c \in Cards
<1>1. offers[c] \in Nat
  BY DEF OffersInv, TypeOK
<1>2. CASE held' = held \cup S /\ offers' = offers
  BY <1>1, <1>2 DEF One
<1>3. CASE held' = held /\ offers'[c] = offers[c] + One(c \in S)
  BY <1>1, <1>3 DEF One
<1> QED
  BY <1>2, <1>3

LEMMA ReholdKeeps ==
    ASSUME OffersInv, NEW t \in Threads, Rehold(t)
    PROVE  OffersInv'
<1>0. /\ thr[t].pc = "rehold" /\ t \in Detecting /\ t # "detector"
      /\ UNCHANGED <<cards, offers, owed, seen, paused, resuming, skipped, incomplete, gate, stop, bounds>>
  BY Here, Names DEF Rehold, At, Work
<1>1. CASE paused /\ held' = held \cup thr[t].list /\ thr' = [thr EXCEPT ![t] = Idle]
  <2>1. Only(t) /\ thr'[t] = Idle
    BY <1>1, Here, Replaced, IdleIn
  <2>2. Carried(t) = thr[t].list /\ Carried(t)' = {} /\ Work(t)'
    BY <1>0, <2>1, IdleIn DEF Carried, Work, Holding
  <2>3. TypeOK' /\ AtWork'
    BY <1>0, <1>1, <2>1, <2>2, Here, ThreadTyped, WorkKept DEF TypeOK, cards, seen
  <2>4. \A c \in Cards : offers'[c] + One(c \in held)' + One(c \in Carried(t))' <= offers[c] + One(c \in held) + One(c \in Carried(t))
    BY <1>0, <1>1, <2>2, Handed
  <2> QED
    BY <1>0, <1>1, <2>1, <2>2, <2>3, <2>4, Advance DEF cards, seen
<1>2. CASE /\ held' = held
           /\ \E c \in thr[t].list : thr' = [thr EXCEPT ![t].pc = "load", ![t].cur = c, ![t].list = @ \ {c}]
  <2>1. PICK c \in thr[t].list : thr' = [thr EXCEPT ![t].pc = "load", ![t].cur = c, ![t].list = @ \ {c}]
    BY <1>2
  <2>2. Only(t) /\ thr'[t].pc = "load" /\ thr'[t].list = thr[t].list \ {c} /\ thr'[t].cur = c /\ c \in Cards
    BY <2>1, Here, Loaded
  <2>3. Work(t)' /\ Carried(t)' = Carried(t)
    BY <1>0, <2>2 DEF Work, Carried, Holding
  <2>4. skipped' \subseteq Cards /\ stop' \in BOOLEAN
    BY <1>0 DEF OffersInv, TypeOK
  <2> QED
    BY <1>0, <1>2, <2>2, <2>3, <2>4, Goes DEF cards, pause
<1> QED
  BY <1>1, <1>2 DEF Rehold, MayHold

LEMMA HoldOneKeeps ==
    ASSUME OffersInv, NEW t \in Threads, HoldOne(t)
    PROVE  OffersInv'
<1>0. /\ thr[t].pc = "holdone" /\ t \in Detecting /\ thr[t].cur \in Cards \ thr[t].list
      /\ UNCHANGED <<cards, offers, owed, seen, paused, resuming, skipped, incomplete, gate, stop, bounds>>
  BY Here DEF HoldOne, At, Work
<1>1. CASE paused /\ held' = held \cup {thr[t].cur} /\ Dropped(t)
  <2>1. Only(t) /\ thr'[t].pc = "next" /\ thr'[t].list = thr[t].list
    BY <1>1, Here, DroppedOne
  <2>2. Carried(t) = thr[t].list \cup {thr[t].cur} /\ Carried(t)' = thr[t].list /\ Work(t)'
    BY <1>0, <2>1 DEF Carried, Work, Holding
  <2>3. TypeOK' /\ AtWork'
    BY <1>0, <1>1, <2>1, <2>2, Here, ThreadTyped, WorkKept DEF TypeOK, cards, seen
  <2>4. \A c \in Cards : offers'[c] + One(c \in held)' + One(c \in Carried(t))' <= offers[c] + One(c \in held) + One(c \in Carried(t))
    <3> DEFINE S == {thr[t].cur}
    <3>1. S \subseteq Carried(t) /\ Carried(t)' \subseteq Carried(t) \ S
      BY <1>0, <2>2
    <3> QED
      BY <1>0, <1>1, <3>1, Handed
  <2> QED
    BY <1>0, <1>1, <2>1, <2>2, <2>3, <2>4, Advance DEF cards, seen
<1>2. CASE Goto(t, "ask") /\ held' = held
  <2>1. Only(t) /\ thr'[t].pc = "ask" /\ thr'[t].list = thr[t].list /\ thr'[t].cur = thr[t].cur
    BY <1>2, Here, Moved DEF Steps
  <2>2. Work(t)' /\ Carried(t)' = Carried(t)
    BY <1>0, <2>1 DEF Work, Carried, Holding
  <2>3. skipped' \subseteq Cards /\ stop' \in BOOLEAN
    BY <1>0 DEF OffersInv, TypeOK
  <2> QED
    BY <1>0, <1>2, <2>1, <2>2, <2>3, Goes DEF cards, pause
<1> QED
  BY <1>1, <1>2 DEF HoldOne, MayHold

LEMMA AskKeeps ==
    ASSUME OffersInv, NEW t \in Threads, Ask(t)
    PROVE  OffersInv'
<1>0. /\ thr[t].pc = "ask" /\ thr[t].cur \in Cards \ thr[t].list
      /\ UNCHANGED <<cards, seen, pause, skipped, incomplete, gate, stop, bounds>>
      /\ owed' = IF t \in Detecting THEN owed \ {thr[t].cur} ELSE owed
  BY Here DEF Ask, At, Work
<1>1. offers \in [Cards -> Nat]
  BY DEF OffersInv, TypeOK
<1>2. /\ Only(t) /\ thr'[t].pc \notin {"record", "hold"} /\ Work(t)' /\ thr'[t].list = thr[t].list
      /\ t \in Detecting => Carried(t)' = thr[t].list
  <2>1. CASE Dropped(t)
    <3>1. Only(t) /\ thr'[t].pc = "next" /\ thr'[t].list = thr[t].list
      BY <2>1, Here, DroppedOne
    <3> QED
      BY <3>1 DEF Work, Carried, Holding
  <2>2. CASE Goto(t, "gate") \/ (t \in Detecting /\ Goto(t, "dialog"))
    <3>1. /\ Only(t) /\ (thr'[t].pc = "gate" \/ (t \in Detecting /\ thr'[t].pc = "dialog"))
          /\ thr'[t].list = thr[t].list /\ thr'[t].cur = thr[t].cur
      BY <2>2, Here, Moved DEF Steps
    <3> QED
      BY <1>0, <3>1 DEF Work, Carried, Holding
  <2> QED
    BY <2>1, <2>2 DEF Ask
<1>3. offers' \in [Cards -> Nat] /\ (offers' = offers \/ (t \in Detecting /\ offers' = [offers EXCEPT ![thr[t].cur] = @ + 1]))
  BY <1>0, <1>1 DEF Ask
<1>4. TypeOK' /\ AtWork'
  BY <1>0, <1>2, <1>3, Here, ThreadTyped, WorkKept DEF TypeOK, cards, seen, pause
<1>5. CASE t \notin Detecting
  BY <1>0, <1>2, <1>3, <1>4, <1>5, Advance, Names DEF cards, seen, pause
<1>6. CASE t \in Detecting
  <2>1. Carried(t) = thr[t].list \cup {thr[t].cur}
    BY <1>0 DEF Carried
  <2>2. \A c \in Cards : offers'[c] + One(c \in held)' + One(c \in Carried(t))' <= offers[c] + One(c \in held) + One(c \in Carried(t))
    <3>1. CASE offers' = offers
      <4> DEFINE S == {}
      <4>1. S \subseteq Carried(t) /\ Carried(t)' \subseteq Carried(t) \ S /\ held' = held \cup S
        BY <1>0, <1>2, <1>6, <2>1 DEF pause
      <4> QED
        BY <1>6, <3>1, <4>1, Handed
    <3>2. CASE offers' = [offers EXCEPT ![thr[t].cur] = @ + 1]
      <4> DEFINE S == {thr[t].cur}
      <4>1. S \subseteq Carried(t) /\ Carried(t)' \subseteq Carried(t) \ S /\ held' = held
        BY <1>0, <1>2, <1>6, <2>1 DEF pause
      <4>2. \A c \in Cards : offers'[c] = offers[c] + One(c \in S)
        <5> TAKE c \in Cards
        <5>1. offers[c] \in Nat
          BY <1>1
        <5> QED
          BY <1>1, <3>2, <5>1 DEF One
      <4> HIDE DEF S
      <4> QED
        BY <1>6, <4>1, <4>2, Handed
    <3> QED
      BY <1>3, <3>1, <3>2
  <2>3. \A c \in owed' : c \in held \cup Carried(t) => c \in held' \cup Carried(t)'
    BY <1>0, <1>2, <1>6, <2>1 DEF pause
  <2> QED
    BY <1>0, <1>2, <1>4, <1>6, <2>2, <2>3, Advance DEF cards, seen, pause
<1> QED
  BY <1>5, <1>6

LEMMA TakeGateKeeps ==
    ASSUME OffersInv, NEW t \in Threads, TakeGate(t)
    PROVE  OffersInv'
<1>0. thr[t].pc = "gate" /\ UNCHANGED <<cards, offers, owed, seen, pause, skipped, incomplete, bounds>>
  BY DEF TakeGate, At
<1>1. CASE gate = Free /\ gate' = t /\ stop' = FALSE /\ Goto(t, "walk")
  <2>1. Only(t) /\ thr'[t].pc = "walk" /\ thr'[t].list = thr[t].list /\ thr'[t].cur = thr[t].cur
    BY <1>1, Here, Moved DEF Steps
  <2>2. Work(t)' /\ Carried(t)' = Carried(t)
    BY <1>0, <1>1, <2>1, Here DEF Work, Carried, Holding
  <2>3. \A u \in Threads \ {t} : Work(u)'
    <3> TAKE u \in Threads \ {t}
    <3>1. Work(u) /\ u # Free
      BY Here, Names
    <3> QED
      BY <1>0, <1>1, <2>1, <3>1 DEF Work, Only, cards
  <2>4. AtWork'
    BY <2>2, <2>3 DEF AtWork, Work
  <2>5. TypeOK'
    BY <1>0, <1>1, <2>1, Here, ThreadTyped DEF TypeOK, cards, seen, pause
  <2> QED
    BY <1>0, <2>1, <2>2, <2>4, <2>5, AdvanceSame DEF cards, seen, pause
<1>2. CASE t = "window" /\ thr' = [thr EXCEPT ![t] = Idle] /\ UNCHANGED <<gate, stop>>
  <2>1. Only(t) /\ thr'[t] = Idle
    BY <1>2, Here, Replaced, IdleIn
  <2>2. Work(t)' /\ t \notin Detecting
    BY <1>2, <2>1, IdleIn, Names DEF Work, Holding, Manual
  <2>3. skipped' \subseteq Cards /\ stop' \in BOOLEAN
    BY <1>0, <1>2 DEF OffersInv, TypeOK
  <2> QED
    BY <1>0, <1>2, <2>1, <2>2, <2>3, Goes, IdleIn DEF cards
<1> QED
  BY <1>1, <1>2 DEF TakeGate

\* Nobody but the holder of the gate is past it.
LEMMA Alone ==
    ASSUME OffersInv, NEW t \in Threads, thr[t].pc \in Holding, NEW u \in Threads \ {t}
    PROVE  thr[u].pc \notin Holding
<1>1. Work(t) /\ Work(u)
  BY Here
<1> QED
  BY <1>1 DEF Work

LEMMA LockKeeps ==
    ASSUME OffersInv, NEW t \in Threads, LockVolume(t)
    PROVE  OffersInv'
<1> DEFINE c == thr[t].cur
           tries == Min({thr[t].tries + 1, LockRetries})
           p == AfterLock(c \in mounted \ open, tries)
<1>0. /\ thr[t].pc = "lock" /\ c \in Cards \ thr[t].list /\ thr[t].pc \in Holding
      /\ UNCHANGED <<mounted, open, inserts, offers, owed, seen, pause, skipped, incomplete, gate, stop, bounds>>
  BY Here DEF LockVolume, At, Work, Holding
<1>1. CASE Goto(t, "release") /\ UNCHANGED handle
  <2>1. Only(t) /\ thr'[t].pc = "release" /\ thr'[t].list = thr[t].list /\ thr'[t].cur = thr[t].cur
    BY <1>1, Here, Moved DEF Steps
  <2>2. Work(t)' /\ Carried(t)' = Carried(t)
    BY <1>0, <2>1, Here DEF Work, Carried, Holding
  <2>3. skipped' \subseteq Cards /\ stop' \in BOOLEAN
    BY <1>0 DEF OffersInv, TypeOK
  <2> QED
    BY <1>0, <1>1, <2>1, <2>2, <2>3, Goes
<1>2. CASE c \in mounted /\ thr' = [thr EXCEPT ![t].tries = tries, ![t].pc = p] /\ handle' = handle \cup {c}
  <2>0. p \in {"dismount", "release", "lock"} /\ (p = "dismount" => c \notin open)
    BY DEF AfterLock
  <2>1. tries \in 0..LockRetries
    <3>1. thr[t].tries \in 0..LockRetries
      BY Here, ThrType DEF Goroutines
    <3>2. \A i \in Nat, j \in Nat : Min({i, j}) \in {i, j}
      <4> TAKE i \in Nat, j \in Nat
      <4>1. \E x \in {i, j} : \A y \in {i, j} : x <= y
        OBVIOUS
      <4> QED
        BY <4>1 DEF Min
    <3>5. thr[t].tries + 1 \in Nat
      BY <3>1, Names
    <3>3. tries = thr[t].tries + 1 \/ tries = LockRetries
      BY <3>2, <3>5, Names
    <3>4. tries <= LockRetries
      <4>1. \A i \in Nat, j \in Nat : Min({i, j}) <= j
        <5> TAKE i \in Nat, j \in Nat
        <5>1. \E x \in {i, j} : \A y \in {i, j} : x <= y
          OBVIOUS
        <5> QED
          BY <5>1 DEF Min
      <4> QED
        BY <3>1, <4>1, Names
    <3> QED
      BY <3>1, <3>3, <3>4, Names
  <2> DEFINE r == [thr[t] EXCEPT !.tries = tries, !.pc = p]
  <2> HIDE DEF p, tries
  <2>2. r \in Goroutines /\ r.pc = p /\ r.list = thr[t].list /\ r.cur = thr[t].cur
    <3>1. p \in Steps /\ thr[t] \in Goroutines
      BY <2>0, Here, ThrType DEF Steps
    <3> QED
      BY <2>1, <3>1 DEF Goroutines
  <2>3. thr' = [thr EXCEPT ![t] = r]
    BY <1>2, Here, ThrType
  <2> HIDE DEF r
  <2>4. Only(t) /\ thr'[t] = r
    BY <2>2, <2>3, Here, Replaced
  <2>5. Work(t)' /\ Carried(t)' = Carried(t)
    BY <1>0, <2>0, <2>2, <2>4, Here DEF Work, Carried, Holding
  <2>6. \A u \in Threads \ {t} : Work(u)'
    <3> TAKE u \in Threads \ {t}
    <3>1. Work(u) /\ thr[u].pc \notin Holding
      BY <1>0, Here, Alone
    <3> QED
      BY <1>0, <2>4, <3>1 DEF Work, Only, Holding
  <2>7. AtWork'
    BY <2>5, <2>6 DEF AtWork, Work
  <2>8. TypeOK'
    BY <1>0, <1>2, <2>4, Here DEF TypeOK, Only, Goroutines, seen, pause, bounds
  <2>9. thr'[t].pc \notin {"record", "hold"}
    BY <2>0, <2>2, <2>4
  <2> QED
    BY <1>0, <2>4, <2>5, <2>7, <2>8, <2>9, AdvanceSame DEF seen, pause
<1> QED
  BY <1>1, <1>2 DEF LockVolume

LEMMA DismountKeeps ==
    ASSUME OffersInv, NEW t \in Threads, Dismount(t)
    PROVE  OffersInv'
<1> DEFINE c == thr[t].cur
<1>0. /\ thr[t].pc = "dismount" /\ c \in Cards \ thr[t].list
      /\ UNCHANGED <<offers, owed, seen, pause, skipped, incomplete, gate, stop, bounds>>
  BY Here DEF Dismount, At, Work, Holding
<1>1. CASE Goto(t, "release") /\ UNCHANGED cards
  <2>1. Only(t) /\ thr'[t].pc = "release" /\ thr'[t].list = thr[t].list /\ thr'[t].cur = thr[t].cur
    BY <1>1, Here, Moved DEF Steps
  <2>2. Work(t)' /\ Carried(t)' = Carried(t)
    BY <1>0, <2>1, Here DEF Work, Carried, Holding
  <2>3. skipped' \subseteq Cards /\ stop' \in BOOLEAN
    BY <1>0 DEF OffersInv, TypeOK
  <2> QED
    BY <1>0, <1>1, <2>1, <2>2, <2>3, Goes DEF cards
<1>2. CASE /\ Goto(t, "allow") /\ mounted' = mounted \ {c} /\ open' = open \ {c} /\ handle' = handle \ {c} /\ UNCHANGED inserts
  <2>1. Only(t) /\ thr'[t].pc = "allow" /\ thr'[t].list = thr[t].list /\ thr'[t].cur = thr[t].cur
    BY <1>2, Here, Moved DEF Steps
  <2>2. Work(t)' /\ Carried(t)' = Carried(t)
    BY <1>0, <2>1, Here DEF Work, Carried, Holding
  <2>3. AtWork'
    BY <1>0, <1>2, <2>1, <2>2, WorkKept
  <2>4. TypeOK'
    BY <1>0, <1>2, <2>1, Here DEF TypeOK, Only, Goroutines, seen, pause, bounds
  <2> QED
    BY <1>0, <1>2, <2>1, <2>2, <2>3, <2>4, AdvanceSame DEF seen, pause
<1> QED
  BY <1>1, <1>2 DEF Dismount

LEMMA ReleaseKeeps ==
    ASSUME OffersInv, NEW t \in Threads, ReleaseGate(t)
    PROVE  OffersInv'
<1>0. /\ thr[t].pc = "release" /\ thr[t].pc \in Holding /\ gate' = Free /\ stop' = FALSE /\ Dropped(t) /\ handle' = handle \ {thr[t].cur}
      /\ UNCHANGED <<mounted, open, inserts, offers, owed, seen, pause, skipped, incomplete, bounds>>
  BY DEF ReleaseGate, At, Holding
<1>1. Only(t) /\ thr'[t].pc = "next" /\ thr'[t].list = thr[t].list
  BY <1>0, Here, DroppedOne
<1>2. Work(t)' /\ Carried(t)' = Carried(t)
  BY <1>0, <1>1 DEF Work, Carried, Holding
<1>3. \A u \in Threads \ {t} : Work(u)'
  <2> TAKE u \in Threads \ {t}
  <2>1. Work(u) /\ thr[u].pc \notin Holding
    BY <1>0, Here, Alone
  <2> QED
    BY <1>0, <1>1, <2>1 DEF Work, Only, Holding
<1>4. AtWork'
  BY <1>2, <1>3 DEF AtWork, Work
<1>5. TypeOK'
  BY <1>0, <1>1, Here, ThreadTyped DEF TypeOK, seen, pause
<1> QED
  BY <1>0, <1>1, <1>2, <1>4, <1>5, AdvanceSame DEF seen, pause

LEMMA StepKeeps ==
    ASSUME OffersInv, NEW t \in Threads, Step(t) \/ TakeGate(t)
    PROVE  OffersInv'
BY NextVolumeKeeps, ReholdKeeps, LoadKeeps, HoldOneKeeps, AskKeeps, ConfirmKeeps, WalkKeeps, LockKeeps, DismountKeeps,
   AllowKeeps, ReleaseKeeps, TakeGateKeeps DEF Step

-----------------------------------------------------------------------------
(* The other steps *)

\* A step of nobody's goroutine that reports nothing.
LEMMA Frame ==
    ASSUME OffersInv, TypeOK', AtWork', UNCHANGED <<thr, owed, offers, inserts, known, detected, diff, held>>, mounted' \subseteq mounted,
           (paused \/ resuming > 0) => paused' \/ resuming' > 0
    PROVE  OffersInv'
<1>1. Reported'
  BY DEF OffersInv, Reported, At
<1>2. InHand'
  BY DEF OffersInv, InHand, Carried
<1>3. Counted'
  <2> SUFFICES ASSUME NEW c \in Cards
               PROVE  offers'[c] + One(c \in mounted \ known)' + One(c \in diff.inserted)' + One(c \in held)' + Cardinality(Carriers(c))' <= inserts'[c]
    BY DEF Counted
  <2>1. offers[c] + One(c \in mounted \ known) + One(c \in diff.inserted) + One(c \in held) + Cardinality(Carriers(c)) <= inserts[c]
    BY DEF OffersInv, Counted
  <2>2. Cardinality(Carriers(c))' = Cardinality(Carriers(c)) /\ Cardinality(Carriers(c)) \in Nat
    BY CarriersSame, CarriersType DEF Carried
  <2>3. /\ One(c \in mounted \ known)' <= One(c \in mounted \ known) /\ One(c \in diff.inserted)' = One(c \in diff.inserted)
        /\ One(c \in held)' = One(c \in held)
    BY DEF One
  <2>4. /\ One(c \in mounted \ known) \in {0, 1} /\ One(c \in mounted \ known)' \in {0, 1} /\ One(c \in diff.inserted) \in {0, 1}
        /\ One(c \in held) \in {0, 1} /\ offers[c] \in Nat /\ inserts[c] \in Nat
    BY DEF One, OffersInv, TypeOK
  <2> QED
    BY <2>1, <2>2, <2>3, <2>4
<1> QED
  BY <1>1, <1>2, <1>3 DEF OffersInv

LEMMA InsertKeeps ==
    ASSUME OffersInv, NEW d \in Cards, Insert(d)
    PROVE  OffersInv'
<1>0. /\ d \notin mounted /\ mounted' = mounted \cup {d} /\ inserts' = [inserts EXCEPT ![d] = @ + 1]
      /\ UNCHANGED <<open, handle, offers, owed, seen, pause, skipped, incomplete, gate, stop, thr, bounds>>
  BY DEF Insert
<1>1. TypeOK'
  BY <1>0 DEF OffersInv, TypeOK, seen, pause, bounds
<1>2. AtWork' /\ Reported' /\ InHand'
  BY <1>0 DEF OffersInv, AtWork, Reported, InHand, Carried, At, seen, pause
<1>3. Counted'
  <2> SUFFICES ASSUME NEW c \in Cards
               PROVE  offers'[c] + One(c \in mounted \ known)' + One(c \in diff.inserted)' + One(c \in held)' + Cardinality(Carriers(c))' <= inserts'[c]
    BY DEF Counted
  <2>1. offers[c] + One(c \in mounted \ known) + One(c \in diff.inserted) + One(c \in held) + Cardinality(Carriers(c)) <= inserts[c]
    BY DEF OffersInv, Counted
  <2>2. Cardinality(Carriers(c))' = Cardinality(Carriers(c)) /\ Cardinality(Carriers(c)) \in Nat
    BY <1>0, CarriersSame, CarriersType DEF Carried
  <2>3. /\ One(c \in diff.inserted)' = One(c \in diff.inserted) /\ One(c \in held)' = One(c \in held) /\ offers'[c] = offers[c]
    BY <1>0 DEF One, seen, pause
  <2>4. /\ One(c \in mounted \ known) \in {0, 1} /\ One(c \in mounted \ known)' \in {0, 1} /\ One(c \in diff.inserted) \in {0, 1}
        /\ One(c \in held) \in {0, 1} /\ offers[c] \in Nat /\ inserts[c] \in Nat
    BY DEF One, OffersInv, TypeOK
  <2>5. CASE c = d
    <3>1. One(c \in mounted \ known) = 0 /\ inserts'[c] = inserts[c] + 1
      BY <1>0, <2>5 DEF One, OffersInv, TypeOK
    <3> QED
      BY <2>1, <2>2, <2>3, <2>4, <3>1
  <2>6. CASE c # d
    <3>1. One(c \in mounted \ known)' = One(c \in mounted \ known) /\ inserts'[c] = inserts[c]
      BY <1>0, <2>6 DEF One, OffersInv, TypeOK, seen
    <3> QED
      BY <2>1, <2>2, <2>3, <2>4, <3>1
  <2> QED
    BY <2>5, <2>6
<1> QED
  BY <1>1, <1>2, <1>3 DEF OffersInv

LEMMA OutsideKeeps ==
    ASSUME OffersInv, \/ \E c \in Cards : Pull(c) \/ OpenFile(c) \/ CloseFile(c)
                      \/ \E v \in BOOLEAN : SetPaused(v)
                      \/ SetConfigIncomplete \/ CancelIngest \/ CancelDetector \/ UNCHANGED vars
    PROVE  OffersInv'
<1>0. TypeOK /\ AtWork /\ pauses \in Nat /\ events \in Nat /\ resuming \in Nat
  BY DEF OffersInv, TypeOK
<1>1. CASE \E c \in Cards : Pull(c) \/ CloseFile(c)
  <2>1. TypeOK'
    <3>1. events' \in Nat /\ pauses' \in Nat
      BY <1>0, <1>1 DEF Pull, CloseFile, Event, bounds
    <3> QED
      BY <1>0, <1>1, <3>1 DEF TypeOK, Pull, CloseFile, seen, pause
  <2>2. AtWork'
    <3>1. thr' = thr /\ gate' = gate /\ handle' \subseteq handle /\ open' \subseteq open
      BY <1>1 DEF Pull, CloseFile
    <3> QED
      BY <3>1, WorkFrame
  <2> QED
    BY <1>1, <2>1, <2>2, Frame DEF Pull, CloseFile, seen, pause
<1>2. CASE \E c \in Cards : OpenFile(c)
  <2>0. PICK c \in Cards : OpenFile(c)
    BY <1>2
  <2>1. TypeOK'
    <3>1. events' \in Nat
      BY <1>0, <2>0 DEF OpenFile, Event
    <3> QED
      BY <1>0, <2>0, <3>1 DEF TypeOK, OpenFile, seen, pause
  <2>2. AtWork'
    BY <1>0, <2>0 DEF AtWork, OpenFile
  <2> QED
    BY <2>0, <2>1, <2>2, Frame DEF OpenFile, seen, pause
<1>3. CASE \E v \in BOOLEAN : SetPaused(v)
  <2>0. PICK v \in BOOLEAN : SetPaused(v)
    BY <1>3
  <2>1. pauses' \in Nat /\ resuming' \in Nat /\ (v \/ resuming' > 0) /\ paused' = v
    BY <1>0, <2>0 DEF SetPaused
  <2>2. TypeOK'
    BY <1>0, <2>0, <2>1 DEF TypeOK, SetPaused, seen, cards
  <2>3. AtWork'
    <3>1. thr' = thr /\ gate' = gate /\ handle' \subseteq handle /\ open' \subseteq open
      BY <2>0 DEF SetPaused, cards
    <3> QED
      BY <3>1, WorkFrame
  <2> QED
    BY <2>0, <2>1, <2>2, <2>3, Frame DEF SetPaused, seen, cards
<1>4. CASE SetConfigIncomplete \/ CancelIngest \/ CancelDetector
  <2>1. TypeOK'
    <3>1. events' \in Nat
      BY <1>0, <1>4 DEF SetConfigIncomplete, CancelIngest, CancelDetector, Event
    <3> QED
      BY <1>0, <1>4, <3>1 DEF TypeOK, SetConfigIncomplete, CancelIngest, CancelDetector, seen, pause, cards
  <2>2. AtWork'
    <3>1. thr' = thr /\ gate' = gate /\ handle' \subseteq handle /\ open' \subseteq open
      BY <1>4 DEF SetConfigIncomplete, CancelIngest, CancelDetector, cards
    <3> QED
      BY <3>1, WorkFrame
  <2> QED
    BY <1>4, <2>1, <2>2, Frame DEF SetConfigIncomplete, CancelIngest, CancelDetector, seen, pause, cards
<1>5. CASE UNCHANGED vars
  <2>1. TypeOK'
    BY <1>0, <1>5 DEF TypeOK, vars, cards, seen, pause, bounds
  <2>2. AtWork'
    <3>1. thr' = thr /\ gate' = gate /\ handle' \subseteq handle /\ open' \subseteq open
      BY <1>5 DEF vars, cards
    <3> QED
      BY <3>1, WorkFrame
  <2> QED
    BY <1>5, <2>1, <2>2, Frame DEF vars, cards, seen, pause
<1> QED
  BY <1>1, <1>2, <1>3, <1>4, <1>5

\* The listing of volumes is that of the mounted cards.
LEMMA Listing == TypeOK => selectCardVolumes(mounted \cup Others) = mounted
BY Names DEF TypeOK, selectCardVolumes

LEMMA PollKeeps ==
    ASSUME OffersInv, Poll
    PROVE  OffersInv'
<1>0. /\ thr["detector"].pc = "idle" /\ known' = mounted /\ diff' = [inserted |-> mounted \ known, removed |-> known \ mounted]
      /\ owed' = (owed \cup (mounted \ known)) \ (known \ mounted)
      /\ UNCHANGED <<cards, offers, detected, cancelled, pause, skipped, incomplete, gate, stop, bounds>>
  BY Listing DEF Poll, OffersInv
<1>1. Only("detector") /\ thr'["detector"].pc = "record" /\ thr'["detector"].list = thr["detector"].list
  BY Moved, Here, Names DEF Poll, Steps
<1>2. thr["detector"].list = {} /\ diff.inserted = {} /\ known = detected
  BY <1>0, Here, Names DEF Work, OffersInv, Reported
<1>3. TypeOK'
  BY <1>0, <1>1 DEF OffersInv, TypeOK, Only, Goroutines, cards, pause, bounds
<1>4. Work("detector")'
  BY <1>1, <1>2 DEF Work, Holding
<1>5. AtWork'
  BY <1>0, <1>1, <1>4, WorkKept, Names DEF cards
<1>6. Reported'
  BY <1>0, <1>1, <1>2 DEF Reported, At
<1>7. \A u \in Detecting : Carried(u)' = Carried(u)
  <2>1. Carried("detector")' = Carried("detector")
    BY <1>0, <1>1, <1>2 DEF Carried
  <2> QED
    BY <1>1, <2>1, OthersKept, Names
<1>8. InHand'
  BY <1>0, <1>2, <1>7 DEF OffersInv, InHand, pause
<1>9. Counted'
  <2> SUFFICES ASSUME NEW c \in Cards
               PROVE  offers'[c] + One(c \in mounted \ known)' + One(c \in diff.inserted)' + One(c \in held)' + Cardinality(Carriers(c))' <= inserts'[c]
    BY DEF Counted
  <2>1. offers[c] + One(c \in mounted \ known) + One(c \in diff.inserted) + One(c \in held) + Cardinality(Carriers(c)) <= inserts[c]
    BY DEF OffersInv, Counted
  <2>2. Cardinality(Carriers(c))' = Cardinality(Carriers(c)) /\ Cardinality(Carriers(c)) \in Nat
    BY <1>7, CarriersSame, CarriersType
  <2>3. /\ One(c \in diff.inserted)' = One(c \in mounted \ known) /\ One(c \in held)' = One(c \in held) /\ offers'[c] = offers[c]
        /\ inserts'[c] = inserts[c] /\ One(c \in mounted \ known)' = 0 /\ One(c \in diff.inserted) = 0
    BY <1>0, <1>2 DEF One, cards, pause
  <2>4. /\ One(c \in mounted \ known) \in {0, 1} /\ One(c \in held) \in {0, 1} /\ offers[c] \in Nat /\ inserts[c] \in Nat
    BY DEF One, OffersInv, TypeOK
  <2> QED
    BY <2>1, <2>2, <2>3, <2>4
<1> QED
  BY <1>3, <1>5, <1>6, <1>8, <1>9 DEF OffersInv

LEMMA RecordKeeps ==
    ASSUME OffersInv, RecordDetected
    PROVE  OffersInv'
<1>0. /\ thr["detector"].pc = "record" /\ detected' = (detected \ diff.removed) \cup diff.inserted /\ skipped' = skipped \ diff.removed
      /\ UNCHANGED <<cards, offers, owed, known, diff, cancelled, pause, incomplete, gate, stop, bounds>>
  BY DEF RecordDetected
<1>1. Only("detector") /\ thr'["detector"].pc = "hold" /\ thr'["detector"].list = thr["detector"].list
  BY Moved, Here, Names DEF RecordDetected, Steps
<1>2. thr["detector"].list = {} /\ owed \cap diff.removed = {} /\ known = (detected \ diff.removed) \cup diff.inserted
  BY <1>0, Here, Names DEF Work, OffersInv, Reported, At
<1>3. TypeOK'
  BY <1>0, <1>1 DEF OffersInv, TypeOK, Only, Goroutines, cards, pause, bounds
<1>4. Work("detector")'
  BY <1>1, <1>2 DEF Work, Holding
<1>5. AtWork'
  BY <1>0, <1>1, <1>4, WorkKept, Names DEF cards
<1>6. Reported'
  BY <1>0, <1>1, <1>2 DEF Reported, At
<1>7. \A u \in Detecting : Carried(u)' = Carried(u)
  <2>1. Carried("detector")' = Carried("detector")
    BY <1>0, <1>1, <1>2 DEF Carried
  <2> QED
    BY <1>1, <2>1, OthersKept, Names
<1>8. InHand'
  BY <1>0, <1>7 DEF OffersInv, InHand, pause
<1>9. Counted'
  <2> SUFFICES ASSUME NEW c \in Cards
               PROVE  offers'[c] + One(c \in mounted \ known)' + One(c \in diff.inserted)' + One(c \in held)' + Cardinality(Carriers(c))' <= inserts'[c]
    BY DEF Counted
  <2>1. offers[c] + One(c \in mounted \ known) + One(c \in diff.inserted) + One(c \in held) + Cardinality(Carriers(c)) <= inserts[c]
    BY DEF OffersInv, Counted
  <2>2. Cardinality(Carriers(c))' = Cardinality(Carriers(c))
    BY <1>7, CarriersSame
  <2>3. /\ One(c \in diff.inserted)' = One(c \in diff.inserted) /\ One(c \in held)' = One(c \in held) /\ offers'[c] = offers[c]
        /\ inserts'[c] = inserts[c] /\ One(c \in mounted \ known)' = One(c \in mounted \ known)
    BY <1>0 DEF One, cards, pause
  <2> QED
    BY <2>1, <2>2, <2>3
<1> QED
  BY <1>3, <1>5, <1>6, <1>8, <1>9 DEF OffersInv

LEMMA HoldDiffKeeps ==
    ASSUME OffersInv, HoldDiff
    PROVE  OffersInv'
<1> DEFINE t == "detector"
           L == IF paused THEN {} ELSE diff.inserted
           p == IF paused THEN "idle" ELSE "next"
<1>0. /\ thr[t].pc = "hold" /\ held' = (held \ diff.removed) \cup (IF paused THEN diff.inserted ELSE {})
      /\ thr' = [thr EXCEPT ![t] = [Idle EXCEPT !.pc = p, !.list = L]]
      /\ diff' = [inserted |-> {}, removed |-> {}]
      /\ UNCHANGED <<cards, offers, owed, known, detected, cancelled, paused, resuming, skipped, incomplete, gate, stop, bounds>>
  BY DEF HoldDiff
<1>1. diff.inserted \subseteq Cards /\ t \in Threads /\ t \in Detecting /\ TypeOK
  BY Names DEF OffersInv, TypeOK
<1>2. Only(t) /\ thr'[t].pc = p /\ thr'[t].list = L /\ thr'[t].cur = NoCard
  <2>1. p \in Steps /\ L \subseteq Cards
    BY <1>1 DEF Steps
  <2>2. thr' = [thr EXCEPT ![t] = [Idle EXCEPT !.pc = p, !.list = L]] /\ t \in Threads
    BY <1>0, <1>1
  <2> HIDE DEF p, L, t
  <2> QED
    BY <1>1, <2>1, <2>2, Started
<1>3. thr[t].list = {} /\ owed \cap diff.removed = {} /\ known = detected
  BY <1>0, <1>1, Here DEF Work, OffersInv, Reported, At
<1>4. Carried(t) = {} /\ Carried(t)' = L
  BY <1>0, <1>2, <1>3 DEF Carried
<1>5. TypeOK'
  BY <1>0, <1>1, <1>2 DEF TypeOK, Only, Goroutines, cards, bounds
<1>6. Work(t)'
  BY <1>2 DEF Work, Holding
<1>7. AtWork'
  BY <1>0, <1>1, <1>2, <1>6, WorkKept DEF cards
<1>8. Reported'
  BY <1>0, <1>2, <1>3 DEF Reported
<1>9. \A u \in Detecting \ {t} : Carried(u)' = Carried(u)
  BY <1>1, <1>2, OthersKept
<1>10. InHand'
  <2>1. held' # {} => paused' \/ resuming' > 0
    BY <1>0 DEF OffersInv, InHand
  <2>2. ASSUME NEW c \in owed' PROVE c \in held' \cup diff'.inserted \cup UNION {Carried(u)' : u \in Detecting}
    <3>1. c \in held \cup diff.inserted \cup UNION {Carried(u) : u \in Detecting}
      BY <1>0, <2>2 DEF OffersInv, InHand
    <3>2. c \in held => c \in held'
      BY <1>0, <1>3, <2>2
    <3>3. c \in diff.inserted => c \in held' \cup Carried(t)'
      BY <1>0, <1>4
    <3> QED
      BY <1>1, <1>4, <1>9, <3>1, <3>2, <3>3
  <2> QED
    BY <2>1, <2>2 DEF InHand
<1>11. Counted'
  <2> SUFFICES ASSUME NEW c \in Cards
               PROVE  offers'[c] + One(c \in mounted \ known)' + One(c \in diff.inserted)' + One(c \in held)' + Cardinality(Carriers(c))' <= inserts'[c]
    BY DEF Counted
  <2>1. offers[c] + One(c \in mounted \ known) + One(c \in diff.inserted) + One(c \in held) + Cardinality(Carriers(c)) <= inserts[c]
    BY DEF OffersInv, Counted
  <2>2. /\ Cardinality(Carriers(c)) \in Nat /\ Cardinality(Carriers(c))' \in Nat
        /\ Cardinality(Carriers(c))' + One(c \in Carried(t)) = Cardinality(Carriers(c)) + One(c \in Carried(t))'
    BY <1>1, <1>9, CarriersChange
  <2>3. One(c \in Carried(t)) = 0 /\ One(c \in Carried(t))' = One(c \in L)
    BY <1>4 DEF One
  <2>4. /\ One(c \in diff.inserted)' = 0 /\ offers'[c] = offers[c] /\ inserts'[c] = inserts[c]
        /\ One(c \in mounted \ known)' = One(c \in mounted \ known)
    BY <1>0 DEF One, cards
  <2>5. /\ One(c \in mounted \ known) \in {0, 1} /\ One(c \in held) \in {0, 1} /\ offers[c] \in Nat /\ inserts[c] \in Nat
        /\ One(c \in diff.inserted) \in {0, 1} /\ One(c \in held)' \in {0, 1} /\ One(c \in L) \in {0, 1}
    BY DEF One, OffersInv, TypeOK
  <2>6. One(c \in held)' + One(c \in L) <= One(c \in held) + One(c \in diff.inserted)
    BY <1>0 DEF One
  <2> HIDE DEF L
  <2> QED
    BY <2>1, <2>2, <2>3, <2>4, <2>5, <2>6
<1> QED
  BY <1>5, <1>7, <1>8, <1>10, <1>11 DEF OffersInv

LEMMA RestartKeeps ==
    ASSUME OffersInv, RestartDetector
    PROVE  OffersInv'
<1>0. /\ thr["detector"].pc = "idle" /\ cancelled' = FALSE /\ known' = detected
      /\ UNCHANGED <<cards, offers, owed, detected, diff, pause, skipped, incomplete, gate, stop, thr, bounds>>
  BY DEF RestartDetector, KnownAtStart
<1>1. known' = known
  BY <1>0 DEF OffersInv, Reported
<1>2. TypeOK'
  BY <1>0, <1>1 DEF OffersInv, TypeOK, cards, pause, bounds
<1>3. AtWork'
  BY <1>0, WorkFrame DEF cards
<1> QED
  BY <1>0, <1>1, <1>2, <1>3, Frame DEF cards, pause

LEMMA TakeHeldKeeps ==
    ASSUME OffersInv, TakeHeld
    PROVE  OffersInv'
<1>0. /\ resuming > 0 /\ resuming' = resuming - 1 /\ held' = {}
      /\ UNCHANGED <<cards, offers, owed, seen, paused, skipped, incomplete, gate, stop, bounds>>
  BY DEF TakeHeld
<1>1. resuming' \in Nat /\ TypeOK /\ held \subseteq Cards
  BY <1>0 DEF OffersInv, TypeOK
<1>2. CASE held = {} /\ UNCHANGED thr
  <2>1. TypeOK'
    BY <1>0, <1>1, <1>2 DEF TypeOK, cards, seen, bounds
  <2>2. AtWork' /\ Reported'
    BY <1>0, <1>2 DEF OffersInv, AtWork, Reported, At, cards, seen
  <2>3. InHand'
    BY <1>0, <1>2 DEF OffersInv, InHand, Carried, seen
  <2>4. Counted'
    <3>1. \A c \in Cards : Cardinality(Carriers(c))' = Cardinality(Carriers(c))
      BY <1>2, CarriersSame DEF Carried
    <3>2. UNCHANGED <<held, offers, mounted, known, diff, inserts>>
      BY <1>0, <1>2 DEF cards, seen
    <3> QED
      BY <3>1, <3>2 DEF OffersInv, Counted, One
  <2> QED
    BY <2>1, <2>2, <2>3, <2>4 DEF OffersInv
<1>3. CASE \E r \in Resumers : thr[r].pc = "idle" /\ thr' = [thr EXCEPT ![r] = [Idle EXCEPT !.pc = "list", !.list = held]]
  <2>1. PICK r \in Resumers : thr[r].pc = "idle" /\ thr' = [thr EXCEPT ![r] = [Idle EXCEPT !.pc = "list", !.list = held]]
    BY <1>3
  <2>2. r \in Threads /\ r \in Detecting /\ r # "detector"
    BY Names
  <2>3. Only(r) /\ thr'[r].pc = "list" /\ thr'[r].list = held /\ thr'[r].cur = NoCard
    BY <1>1, <2>1, <2>2, Started DEF Steps
  <2>4. Carried(r) = {} /\ Carried(r)' = held
    BY <2>1, <2>2, <2>3, Here DEF Carried, Work
  <2>5. TypeOK'
    BY <1>0, <1>1, <2>3 DEF TypeOK, Only, Goroutines, cards, seen, bounds
  <2>6. Work(r)'
    BY <2>2, <2>3 DEF Work, Holding
  <2>7. AtWork'
    BY <1>0, <2>2, <2>3, <2>6, WorkKept DEF cards
  <2>8. Reported'
    <3>1. thr'["detector"] = thr["detector"]
      BY <2>2, <2>3, Names DEF Only
    <3> QED
      BY <1>0, <3>1 DEF OffersInv, Reported, At, seen
  <2>9. \A u \in Detecting \ {r} : Carried(u)' = Carried(u)
    BY <2>2, <2>3, OthersKept
  <2>10. InHand'
    <3>1. ASSUME NEW c \in owed' PROVE c \in held' \cup diff'.inserted \cup UNION {Carried(u)' : u \in Detecting}
      <4>1. c \in held \cup diff.inserted \cup UNION {Carried(u) : u \in Detecting}
        BY <1>0, <3>1 DEF OffersInv, InHand
      <4> QED
        BY <1>0, <2>2, <2>4, <2>9, <4>1 DEF seen
    <3> QED
      BY <1>0, <3>1 DEF InHand
  <2>11. Counted'
    <3> SUFFICES ASSUME NEW c \in Cards
                 PROVE  offers'[c] + One(c \in mounted \ known)' + One(c \in diff.inserted)' + One(c \in held)' + Cardinality(Carriers(c))' <= inserts'[c]
      BY DEF Counted
    <3>1. offers[c] + One(c \in mounted \ known) + One(c \in diff.inserted) + One(c \in held) + Cardinality(Carriers(c)) <= inserts[c]
      BY DEF OffersInv, Counted
    <3>2. /\ Cardinality(Carriers(c)) \in Nat /\ Cardinality(Carriers(c))' \in Nat
          /\ Cardinality(Carriers(c))' + One(c \in Carried(r)) = Cardinality(Carriers(c)) + One(c \in Carried(r))'
      BY <2>2, <2>9, CarriersChange
    <3>3. One(c \in Carried(r)) = 0 /\ One(c \in Carried(r))' = One(c \in held) /\ One(c \in held)' = 0
      BY <1>0, <2>4 DEF One
    <3>4. /\ One(c \in diff.inserted)' = One(c \in diff.inserted) /\ offers'[c] = offers[c] /\ inserts'[c] = inserts[c]
          /\ One(c \in mounted \ known)' = One(c \in mounted \ known)
      BY <1>0 DEF One, cards, seen
    <3>5. /\ One(c \in mounted \ known) \in {0, 1} /\ One(c \in held) \in {0, 1} /\ offers[c] \in Nat /\ inserts[c] \in Nat
          /\ One(c \in diff.inserted) \in {0, 1}
      BY DEF One, OffersInv, TypeOK
    <3> QED
      BY <3>1, <3>2, <3>3, <3>4, <3>5
  <2> QED
    BY <2>5, <2>7, <2>8, <2>10, <2>11 DEF OffersInv
<1> QED
  BY <1>2, <1>3 DEF TakeHeld

LEMMA ListKeeps ==
    ASSUME OffersInv, NEW t \in Resumers, ListPresent(t)
    PROVE  OffersInv'
<1> DEFINE L == thr[t].list \cap mounted
           r == [thr[t] EXCEPT !.pc = "next", !.list = L]
<1>0. /\ thr[t].pc = "list" /\ thr' = [thr EXCEPT ![t].pc = "next", ![t].list = @ \cap mounted]
      /\ owed' = owed \ (thr[t].list \ mounted)
      /\ UNCHANGED <<cards, offers, seen, pause, skipped, incomplete, gate, stop, bounds>>
  BY Listing DEF ListPresent, OffersInv
<1>1. t \in Threads /\ t \in Detecting /\ t # "detector" /\ TypeOK /\ thr[t] \in Goroutines
  BY Names, ThrType DEF OffersInv
<1>2. r \in Goroutines /\ r.pc = "next" /\ r.list = L /\ thr' = [thr EXCEPT ![t] = r]
  <2>1. r \in Goroutines /\ r.pc = "next" /\ r.list = L
    BY <1>1 DEF Goroutines, Steps
  <2>2. thr' = [thr EXCEPT ![t] = r]
    BY <1>0, <1>1, ThrType
  <2> QED
    BY <2>1, <2>2
<1> HIDE DEF r
<1>3. Only(t) /\ thr'[t] = r
  BY <1>1, <1>2, Replaced
<1>4. Carried(t) = thr[t].list /\ Carried(t)' = L
  BY <1>0, <1>2, <1>3 DEF Carried
<1>5. Work(t)'
  BY <1>2, <1>3 DEF Work, Holding
<1>6. TypeOK' /\ AtWork'
  BY <1>0, <1>1, <1>3, <1>5, ThreadTyped, WorkKept DEF TypeOK, cards, seen, pause
<1>7. \A c \in Cards : offers'[c] + One(c \in held)' + One(c \in Carried(t))' <= offers[c] + One(c \in held) + One(c \in Carried(t))
  <2> DEFINE S == {}
  <2>1. S \subseteq Carried(t) /\ Carried(t)' \subseteq Carried(t) \ S /\ held' = held \cup S /\ offers' = offers
    BY <1>0, <1>4 DEF pause
  <2> QED
    BY <1>1, <2>1, Handed
<1>8. \A c \in owed' : c \in held \cup Carried(t) => c \in held' \cup Carried(t)'
  BY <1>0, <1>4 DEF pause
<1> QED
  BY <1>0, <1>1, <1>3, <1>6, <1>7, <1>8, Advance DEF cards, seen, pause

LEMMA ManualKeeps ==
    ASSUME OffersInv, NEW t \in Manual, StartManual(t)
    PROVE  OffersInv'
<1>0. /\ thr[t].pc = "idle" /\ Event /\ thr' = [thr EXCEPT ![t] = [Idle EXCEPT !.pc = "next", !.list = mounted]]
      /\ UNCHANGED <<cards, offers, owed, seen, pause, skipped, incomplete, gate, stop, pauses>>
  BY Listing DEF StartManual, OffersInv
<1>1. t \in Threads /\ t \notin Detecting /\ TypeOK /\ mounted \subseteq Cards
  BY Names DEF OffersInv, TypeOK
<1>2. Only(t) /\ thr'[t].pc = "next"
  BY <1>0, <1>1, Started DEF Steps
<1>3. events' \in Nat
  BY <1>0 DEF OffersInv, TypeOK, Event
<1>4. TypeOK'
  BY <1>0, <1>1, <1>2, <1>3 DEF TypeOK, Only, Goroutines, cards, seen, pause
<1>5. Work(t)'
  BY <1>2 DEF Work, Holding
<1>6. AtWork'
  BY <1>0, <1>1, <1>2, <1>5, WorkKept DEF cards
<1> QED
  BY <1>0, <1>1, <1>2, <1>4, <1>6, AdvanceSame, Names DEF cards, seen, pause

-----------------------------------------------------------------------------
(* Theorems *)

LEMMA Starts == Init => OffersInv
<1> SUFFICES ASSUME Init PROVE OffersInv
  OBVIOUS
<1>0. /\ thr \in [Threads -> Goroutines] /\ \A t \in Threads : thr[t].pc = "idle" /\ thr[t].list = {}
      /\ diff.inserted = {} /\ MaxPauses \in Nat /\ MaxEvents \in Nat
  BY IdleIn, OffersAssumption DEF Init
<1>1. TypeOK
  BY <1>0 DEF Init, TypeOK, Goroutines
<1>2. AtWork
  BY <1>0 DEF AtWork, Holding
<1>3. Reported /\ InHand
  BY <1>0, Names DEF Init, Reported, InHand
<1>4. Counted
  <2> SUFFICES ASSUME NEW c \in Cards
               PROVE  offers[c] + One(c \in mounted \ known) + One(c \in diff.inserted) + One(c \in held) + Cardinality(Carriers(c)) <= inserts[c]
    BY DEF Counted
  <2>1. Carriers(c) = {}
    BY <1>0, Names DEF Carriers, Carried
  <2>2. Cardinality(Carriers(c)) = 0
    BY <2>1, FS_EmptySet
  <2>3. offers[c] = 0 /\ inserts[c] = 0 /\ One(c \in mounted \ known) = 0 /\ One(c \in diff.inserted) = 0 /\ One(c \in held) = 0
    BY <1>0 DEF Init, One
  <2> QED
    BY <2>2, <2>3
<1> QED
  BY <1>1, <1>2, <1>3, <1>4 DEF OffersInv

LEMMA NextKeeps == OffersInv /\ [Next]_vars => OffersInv'
BY InsertKeeps, OutsideKeeps, PollKeeps, RecordKeeps, HoldDiffKeeps, RestartKeeps, TakeHeldKeeps, ListKeeps, ManualKeeps, StepKeeps
   DEF Next, Detector

(* OffersInv, the account of where every reported insertion is and of who  *)
(* holds the gate, holds however detector, resumes, menu, window, card     *)
(* reader and other programs interleave.                                   *)
THEOREM OffersInvariant == Spec => []OffersInv
BY Starts, NextKeeps, PTL DEF Spec

(* Watch, detectedVolumes, pausedInserts: for any number of cards, pauses, *)
(* resumes and restarts of the detector, no insertion is offered twice.    *)
THEOREM OfferedOnce == Spec => []OfferedOncePerInsertion
<1>1. OffersInv => OfferedOncePerInsertion
  <2> SUFFICES ASSUME OffersInv, NEW c \in Cards PROVE offers[c] <= inserts[c]
    BY DEF OfferedOncePerInsertion
  <2>1. offers[c] + One(c \in mounted \ known) + One(c \in diff.inserted) + One(c \in held) + Cardinality(Carriers(c)) <= inserts[c]
    BY DEF OffersInv, Counted
  <2>2. /\ One(c \in mounted \ known) \in {0, 1} /\ One(c \in held) \in {0, 1} /\ offers[c] \in Nat /\ inserts[c] \in Nat
        /\ One(c \in diff.inserted) \in {0, 1} /\ Cardinality(Carriers(c)) \in Nat
    BY CarriersType DEF One, OffersInv, TypeOK
  <2> QED
    BY <2>1, <2>2
<1> QED
  BY OffersInvariant, <1>1, PTL

(* holdPausedInserts and offerCardsHeldDuringPause: for any number of      *)
(* goroutines no report is lost, and what is held will be taken.           *)
THEOREM NothingLost == Spec => []NoReportLost
<1>1. OffersInv => NoReportLost
  <2> SUFFICES ASSUME OffersInv PROVE NoReportLost
    OBVIOUS
  <2>1. \A t \in Detecting : Carried(t) \subseteq thr[t].list \cup {thr[t].cur}
    BY DEF Carried
  <2> QED
    BY <2>1 DEF OffersInv, InHand, NoReportLost, Listed
<1> QED
  BY OffersInvariant, <1>1, PTL

(* runEjectSequence under the gate: for any number of cards and goroutines *)
(* no card is dismounted with a file open on it or under another ingest.   *)
THEOREM DismountSafety == Spec => DismountedIdle
<1>1. OffersInv /\ [Next]_vars =>
        [\A t \in Threads : (At(t, "dismount") /\ thr'[t].pc = "allow") =>
            /\ thr[t].cur \notin open
            /\ \A u \in Threads : ~(At(u, "walk") /\ thr[u].cur = thr[t].cur)]_vars
  <2> SUFFICES ASSUME OffersInv, [Next]_vars, NEW t \in Threads, At(t, "dismount"), thr'[t].pc = "allow"
               PROVE  /\ thr[t].cur \notin open
                      /\ \A u \in Threads : ~(At(u, "walk") /\ thr[u].cur = thr[t].cur)
    OBVIOUS
  <2>1. \A u \in Threads : ~At(u, "walk")
    <3> SUFFICES ASSUME NEW u \in Threads, At(u, "walk") PROVE FALSE
      OBVIOUS
    <3>1. u # t /\ thr[t].pc \in Holding /\ thr[u].pc \in Holding
      BY DEF At, Holding
    <3> QED
      BY <3>1, Alone
  <2>2. thr[t].cur \in handle
    <3>1. CASE Dismount(t)
      <4>1. CASE Goto(t, "release")
        <5>1. thr'[t].pc = "release"
          BY <4>1, Here, Moved DEF Steps
        <5> QED
          BY <5>1
      <4> QED
        BY <3>1, <4>1 DEF Dismount
    <3>2. CASE ~Dismount(t)
      <4>1. thr'[t] = thr[t]
        <5>1. CASE \E u \in Threads : Step(u) \/ TakeGate(u)
          <6>1. PICK u \in Threads : Step(u) \/ TakeGate(u)
            BY <5>1
          <6>2. u # t
            BY <3>2, <6>1 DEF Step, TakeGate, NextVolume, Rehold, LoadPaused, HoldOne, Ask, Confirm, Walk, LockVolume, AllowAndEject, ReleaseGate, At
          <6>3. thr \in [Threads -> Goroutines]
            BY ThrType DEF OffersInv
          <6> QED
            BY <6>1, <6>2, <6>3 DEF Step, TakeGate, NextVolume, Rehold, LoadPaused, HoldOne, Ask, Confirm, Walk, LockVolume, Dismount,
                 AllowAndEject, ReleaseGate, Goto, Dropped
        <5>2. CASE Poll \/ RecordDetected \/ HoldDiff \/ TakeHeld \/ (\E r \in Resumers : ListPresent(r)) \/ (\E u \in Manual : StartManual(u))
          <6>1. thr \in [Threads -> Goroutines]
            BY ThrType DEF OffersInv
          <6> QED
            BY <5>2, <6>1 DEF Poll, RecordDetected, HoldDiff, TakeHeld, ListPresent, StartManual, Goto, At
        <5>3. CASE thr' = thr
          BY <5>3
        <5> QED
          BY <5>1, <5>2, <5>3 DEF Next, Detector, Insert, Pull, OpenFile, CloseFile, SetPaused, SetConfigIncomplete, CancelIngest,
             CancelDetector, RestartDetector, vars
      <4> QED
        BY <4>1 DEF At
    <3> QED
      BY <3>1, <3>2
  <2>3. thr[t].cur \notin open
    BY <2>2 DEF OffersInv, AtWork, At
  <2> QED
    BY <2>1, <2>3
<1> QED
  BY OffersInvariant, <1>1, PTL DEF Spec, DismountedIdle
=============================================================================
