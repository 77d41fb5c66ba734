------------------------- MODULE OnlineIngestProofs -------------------------
(* Theorems about online ingest, for any number of files, names, contents,  *)
(* cards, configurations, walks, faults, crashes and other events.          *)
EXTENDS OnlineIngest, TLAPS

-----------------------------------------------------------------------------
(* Constants, names and copies *)

LEMMA Bounds ==
    /\ MaxSuffix \in Nat /\ MaxFaults \in Nat /\ MaxCrashes \in Nat /\ MaxPasses \in Nat /\ MaxEvents \in Nat
    /\ "no process" \notin Files /\ "clean" \notin Files
BY OnlineAssumption

LEMMA Places == Library \notin Names /\ NoName \notin Names /\ Library # NoName
<1>1. 0 \notin Suffixes
  <2>1. MaxSuffix \in Nat
    BY Bounds
  <2>2. 0 \notin 1..MaxSuffix
    BY <2>1
  <2> QED
    BY <2>2 DEF Suffixes
<1>2. \A b : <<b, 0>> \notin Names
  BY <1>1 DEF Names
<1> QED
  BY <1>2 DEF Library, NoName

LEMMA CardFacts ==
    ASSUME NEW k \in Cards, NEW f \in Files
    PROVE  k.content[f] \in Contents /\ k.base[f] \in Bases /\ k.kind[f] \in Kinds
BY OnlineAssumption

LEMMA CopyFacts ==
    /\ Absent \notin Copies /\ Absent.s = "absent"
    /\ \A c \in Contents \cup {"other"}, s \in {"whole", "partial", "rotten archive", "rotten local"} :
          LET x == [c |-> c, s |-> s] IN x \in Copies /\ x # Absent /\ x.s = s /\ x.c = c
    /\ \A x \in Copies : x # Absent
<1>1. \A x \in Copies : x.s # "absent"
  BY DEF Copies
<1>2. Absent.s = "absent"
  BY DEF Absent
<1>3. \A x \in Copies : x # Absent
  BY <1>1, <1>2
<1>4. ASSUME NEW c \in Contents \cup {"other"}, NEW s \in {"whole", "partial", "rotten archive", "rotten local"}
      PROVE  [c |-> c, s |-> s] \in Copies /\ [c |-> c, s |-> s].s = s /\ [c |-> c, s |-> s].c = c
  BY DEF Copies
<1>5. Absent \notin Copies
  BY <1>3
<1> QED
  BY <1>2, <1>3, <1>4, <1>5, ZenonT(30)

LEMMA WrittenFacts ==
    ASSUME NEW c \in Contents, NEW s \in {"whole", "partial", "rotten archive", "rotten local"}
    PROVE  [c |-> c, s |-> s] \in Copies /\ [c |-> c, s |-> s] # Absent /\ [c |-> c, s |-> s].s = s
BY CopyFacts

LEMMA WholeFacts ==
    ASSUME NEW c \in Contents \cup {"other"}
    PROVE  Whole(c) \in Copies /\ Whole(c) # Absent /\ Whole(c).s = "whole" /\ Whole(c).c = c
BY CopyFacts DEF Whole

-----------------------------------------------------------------------------
(* The file at work and the walk *)

LEMMA GoFacts ==
    ASSUME TypeOK, NEW p \in Steps, Go(p)
    PROVE  cur' \in Curs /\ cur'.f = cur.f /\ cur'.pc = p /\ cur'.n = cur.n /\ cur'.h = cur.h
BY DEF TypeOK, Curs, Go

LEMMA NoCurFacts == NoCur \in Curs /\ NoCur.pc = "next" /\ NoCur.f = NoFile /\ NoCur.n = NoName /\ NoCur.h = Absent
BY DEF NoCur, Curs, Steps

LEMMA NoPassFacts == NoPass \in Passes /\ NoPass.on = FALSE
BY DEF NoPass, Passes

LEMMA EndsFacts ==
    ASSUME TypeOK, F \in Files, NEW res \in {"ok", "skipped", "failed"}, Ends(res)
    PROVE  /\ cur' \in Curs /\ cur'.pc = "next"
           /\ result' \in [Files -> {"none", "ok", "skipped", "failed"}]
           /\ result'[F] = res /\ \A f \in Files \ {F} : result'[f] = result[f]
BY NoCurFacts DEF TypeOK, Ends

LEMMA DedupFacts ==
    ASSUME TypeOK, NEW d \in {"ask", "full only", "unavailable"}, pass' = [pass EXCEPT !.dedup = d]
    PROVE  pass' \in Passes /\ pass'.on = pass.on
BY DEF TypeOK, Passes

LEMMA CurParts ==
    ASSUME TypeOK
    PROVE  /\ cur.f \in Files \cup {NoFile} /\ cur.pc \in Steps /\ cur.n \in Names \cup {NoName}
           /\ cur.h \in Copies \cup {Absent} /\ pass.on \in BOOLEAN /\ pass.cut \in BOOLEAN
           /\ pass.dedup \in {"ask", "full only", "unavailable"}
BY DEF TypeOK, Curs, Passes

-----------------------------------------------------------------------------
(* What every step keeps *)

\* A copy that is not the walk's to remove stays and remains so.
Steady == \A n \in Names : archive[n] # Absent /\ ~Mine(n) => archive'[n] = archive[n] /\ ~Mine(n)'

RowsKept  == \A r \in rows : \E q \in rows' : q.n = r.n /\ q.h = r.h
NodesKept == /\ node'[Library] = node[Library]
             /\ \A n \in Names : archive[n] # Absent /\ node[n] = archive[n] => node'[n] = node[n]

LEMMA KnownKept ==
    ASSUME TypeOK, TypeOK', Steady, NodesKept, NEW h \in Copies, NEW p \in Known(h), ~Mine(p)
    PROVE  p \in Known(h)' /\ ~Mine(p)'
<1>1. p \in Names \cup {Library} /\ node[p] = h /\ DOMAIN node' = Names \cup {Library}
  BY DEF TypeOK, Known
<1>2. CASE p = Library
  <2>1. cur'.n # Library
    BY Places DEF TypeOK, Curs
  <2> QED
    BY <1>1, <1>2, <2>1 DEF Known, NodesKept, Mine
<1>3. CASE p \in Names
  <2>1. archive[p] = h /\ h # Absent
    BY <1>3, Places, CopyFacts DEF Known
  <2>2. archive'[p] = h /\ ~Mine(p)' /\ node'[p] = h
    BY <1>1, <1>3, <2>1 DEF Steady, NodesKept
  <2> QED
    BY <1>1, <2>2 DEF Known
<1> QED
  BY <1>1, <1>2, <1>3

LEMMA StoredKept ==
    ASSUME TypeOK, TypeOK', Steady, NEW c \in Contents, Stored(c)
    PROVE  Stored(c)'
<1>1. PICK n \in Names : archive[n] = Whole(c) /\ ~Mine(n)
  BY DEF Stored
<1>2. archive'[n] = Whole(c) /\ ~Mine(n)'
  BY <1>1, WholeFacts DEF Steady
<1> QED
  BY <1>2 DEF Stored, Whole

LEMMA RegisteredKept ==
    ASSUME TypeOK, TypeOK', Steady, NodesKept, RowsKept, NEW c \in Contents, Registered(c)
    PROVE  Registered(c)'
<1>1. CASE \E r \in rows : r.h = Whole(c)
  BY <1>1 DEF RowsKept, Registered, Whole
<1>2. CASE \E p \in Known(Whole(c)) : ~Mine(p)
  <2>1. PICK p \in Known(Whole(c)) : ~Mine(p)
    BY <1>2
  <2>2. Whole(c) \in Copies
    BY WholeFacts
  <2>3. p \in Known(Whole(c))' /\ ~Mine(p)'
    BY <2>1, <2>2, KnownKept DEF Known, Whole
  <2> QED
    BY <2>3 DEF Registered
<1> QED
  BY <1>1, <1>2 DEF Registered

\* What Settled says of one file.
Good(f) ==
    /\ card.kind[f] \in {"media", "sidecar"} =>
          Stored(card.content[f]) \/ (Media(f) /\ node[Library] = Whole(card.content[f]))
    /\ Media(f) => Registered(card.content[f])

LEMMA GoodKept ==
    ASSUME TypeOK, TypeOK', Steady, NodesKept, RowsKept, card' = card, NEW f \in Files, Good(f)
    PROVE  Good(f)'
<1>1. card.content[f] \in Contents
  BY CardFacts DEF TypeOK
<1> DEFINE c == card.content[f]
<1>2. Stored(c) => Stored(c)'
  BY <1>1, StoredKept
<1>3. Registered(c) => Registered(c)'
  BY <1>1, RegisteredKept
<1>4. c' = c /\ card'.kind[f] = card.kind[f] /\ Media(f)' = Media(f) /\ node'[Library] = node[Library]
  BY DEF Media, NodesKept
<1>5. Stored(c)' <=> Stored(card.content[f])'
  OBVIOUS
<1> QED
  BY <1>2, <1>3, <1>4 DEF Good, Whole, Media

-----------------------------------------------------------------------------
(* From a step to the invariant *)

LEMMA AtRest ==
    ASSUME cur'.pc = "next", pass'.on => ~safe'
    PROVE  AtWork'
BY DEF AtWork, Own

\* Where a row of queue.db points after a step: to where it did, or to the
\* copy it was inserted for.
RowsSound == \A r \in rows' : \/ \E q \in rows : q.n = r.n /\ q.h = r.h
                              \/ r.n \in Names /\ archive[r.n] = r.h /\ r.h.s = "whole" /\ ~Mine(r.n)

LEMMA ShelvedAfter ==
    ASSUME TypeOK, AtWork, Shelved, TypeOK', foreign' = foreign, Steady, node'[Library] = node[Library], RowsSound,
           \A n \in Names : archive'[n].s # "rotten local" /\ local'[n].s # "rotten archive"
    PROVE  Shelved'
<1>1. \A n \in foreign : archive'[n] # Absent
  BY ZenonT(30) DEF TypeOK, AtWork, Shelved, Steady, Mine
<1>2. ASSUME NEW r \in rows' PROVE archive'[r.n] = r.h /\ r.h.s = "whole" /\ ~Mine(r.n)'
  <2>1. r.n \in Names /\ r.h \in Copies
    BY <1>2 DEF TypeOK
  <2>2. archive[r.n] = r.h /\ r.h.s = "whole" /\ ~Mine(r.n)
    BY <1>2 DEF RowsSound, Shelved
  <2> QED
    BY <2>1, <2>2, CopyFacts, ZenonT(30) DEF Steady
<1>3. node'[Library].s # "rotten local"
  BY DEF Shelved
<1> QED
  BY <1>1, <1>2, <1>3 DEF Shelved

\* Nothing goes well without a reason.
Results == \A f \in Files : safe' \/ result'[f] \in {"ok", "skipped"} =>
               safe \/ result[f] \in {"ok", "skipped"} \/ Good(f) \/ Good(f)'

LEMMA SettledAfter ==
    ASSUME TypeOK, Settled, TypeOK', Steady, NodesKept, RowsKept, card' = card, Results
    PROVE  Settled'
<1>1. ASSUME NEW f \in Files, safe' \/ result'[f] \in {"ok", "skipped"}
      PROVE  Good(f)'
  <2>1. safe \/ result[f] \in {"ok", "skipped"} => Good(f)
    BY DEF Settled, Good
  <2> QED
    BY <1>1, <2>1, GoodKept DEF Results
<1> QED
  BY <1>1 DEF Settled, Good

LEMMA Preserved ==
    ASSUME OnlineInv, TypeOK', AtWork', card' = card, foreign' = foreign, Steady, NodesKept, RowsKept, RowsSound,
           \A n \in Names : archive'[n].s # "rotten local" /\ local'[n].s # "rotten archive",
           Results, MetadataIsOwn', idle' \notin Files
    PROVE  OnlineInv' /\ Steady
<1>1. Shelved'
  BY ShelvedAfter DEF OnlineInv, NodesKept
<1>2. Settled'
  BY SettledAfter DEF OnlineInv
<1> QED
  BY <1>1, <1>2 DEF OnlineInv

\* A step that leaves disks, queue and server alone.
LEMMA Quiet ==
    ASSUME OnlineInv, TypeOK', AtWork', UNCHANGED <<card, disk, rows, node>>,
           Own' => Own /\ cur'.n = cur.n,
           Results, MetadataIsOwn', idle' \notin Files
    PROVE  OnlineInv' /\ Steady
<1>1. archive' = archive /\ local' = local /\ foreign' = foreign /\ card' = card
  BY DEF disk
<1>2. Steady /\ NodesKept /\ RowsKept /\ RowsSound
  BY <1>1 DEF Steady, Mine, NodesKept, RowsKept, RowsSound
<1>3. \A n \in Names : archive'[n].s # "rotten local" /\ local'[n].s # "rotten archive"
  BY <1>1 DEF OnlineInv, Shelved
<1> QED
  BY <1>1, <1>2, <1>3, Preserved

LEMMA FaultFacts ==
    ASSUME TypeOK, Fault \/ NoFault
    PROVE  faults' \in Nat
<1>1. faults \in Nat
  BY DEF TypeOK
<1> QED
  BY <1>1 DEF Fault, NoFault

LEMMA EventFacts ==
    ASSUME TypeOK, Event
    PROVE  events' \in Nat
<1>1. events \in Nat
  BY DEF TypeOK
<1> QED
  BY <1>1 DEF Event

\* A step of the walk that only moves on.
LEMMA QuietGo ==
    ASSUME OnlineInv, UNCHANGED <<card, cfg, disk, rows, node, result, meta, safe, idle, crashes, passes, events>>,
           pass' \in Passes, pass'.on = pass.on, cur' \in Curs, faults' \in Nat,
           AtWork', Own' => Own /\ cur'.n = cur.n
    PROVE  OnlineInv' /\ Steady
<1>1. TypeOK'
  BY DEF OnlineInv, TypeOK, disk
<1>2. Results /\ MetadataIsOwn' /\ idle' \notin Files
  BY DEF Results, OnlineInv, MetadataIsOwn
<1> QED
  BY <1>1, <1>2, Quiet

\* A step of the walk that ends a file and leaves its copies.
LEMMA QuietEnd ==
    ASSUME OnlineInv, UNCHANGED <<card, cfg, disk, rows, node, meta, safe, idle, crashes, passes, events>>,
           pass' \in Passes, pass'.on = pass.on, faults' \in Nat,
           F \in Files, NEW res \in {"ok", "skipped", "failed"}, Ends(res), res # "failed" => Good(F)
    PROVE  OnlineInv' /\ Steady
<1>1. /\ cur' \in Curs /\ cur'.pc = "next"
      /\ result' \in [Files -> {"none", "ok", "skipped", "failed"}]
      /\ result'[F] = res /\ \A f \in Files \ {F} : result'[f] = result[f]
  BY EndsFacts DEF OnlineInv
<1>2. TypeOK'
  BY <1>1 DEF OnlineInv, TypeOK, disk
<1>3. AtWork' /\ ~Own'
  <2>1. pass.on => ~safe
    BY DEF OnlineInv, AtWork
  <2> QED
    BY <1>1, <2>1, AtRest DEF Own
<1>4. Results
  <2> SUFFICES ASSUME NEW f \in Files, safe' \/ result'[f] \in {"ok", "skipped"}
               PROVE  safe \/ result[f] \in {"ok", "skipped"} \/ Good(f)
    BY DEF Results
  <2>1. CASE f = F
    BY <1>1, <2>1
  <2>2. CASE f # F
    BY <1>1, <2>2
  <2> QED
    BY <2>1, <2>2
<1>5. MetadataIsOwn' /\ idle' \notin Files
  BY DEF OnlineInv, MetadataIsOwn
<1> QED
  BY <1>2, <1>3, <1>4, <1>5, Quiet

-----------------------------------------------------------------------------
(* Starting, stopping and ending *)

LEMMA ClearedFacts ==
    ASSUME Cleared
    PROVE  /\ result' \in [Files -> {"none", "ok", "skipped", "failed"}] /\ meta' \in [Files -> Files \cup {Nothing}]
           /\ MetadataIsOwn' /\ \A f \in Files : result'[f] = "none"
BY DEF Cleared, MetadataIsOwn

LEMMA StartStep ==
    ASSUME OnlineInv, StartPass
    PROVE  OnlineInv' /\ Steady
<1>1. pass' \in Passes /\ pass'.on = TRUE
  BY NoPassFacts DEF StartPass, NoPass, Passes
<1>2. TypeOK' /\ MetadataIsOwn' /\ Results /\ idle' \notin Files
  <2>1. passes' \in Nat
    <3>1. passes \in Nat /\ passes > 0 /\ passes' = passes - 1
      BY DEF OnlineInv, TypeOK, StartPass
    <3> QED
      BY <3>1
  <2> QED
    BY <1>1, <2>1, NoCurFacts, ClearedFacts, ZenonT(30) DEF OnlineInv, TypeOK, StartPass, disk, Results
<1>3. AtWork' /\ ~Own'
  BY NoCurFacts, AtRest DEF StartPass, Own
<1> QED
  BY <1>2, <1>3, Quiet DEF StartPass

LEMMA EndStep ==
    ASSUME OnlineInv, EndPass
    PROVE  OnlineInv' /\ Steady
<1>1. pass' \in Passes /\ pass'.on = FALSE
  BY NoPassFacts DEF EndPass
<1>2. TypeOK' /\ MetadataIsOwn' /\ idle' \notin Files
  BY <1>1, ClearedFacts DEF OnlineInv, TypeOK, EndPass, disk, bounds, AllWell
<1>3. AtWork' /\ ~Own'
  BY <1>1, AtRest DEF EndPass, Own, At
<1>4. Results
  <2>1. safe' => AllWell
    BY DEF EndPass
  <2> QED
    BY <2>1, ClearedFacts DEF Results, AllWell, EndPass
<1> QED
  BY <1>2, <1>3, <1>4, Quiet DEF EndPass

LEMMA CrashStep ==
    ASSUME OnlineInv, Crash
    PROVE  OnlineInv' /\ Steady
<1>1. pass' \in Passes /\ pass'.on = FALSE
  BY NoPassFacts DEF Crash
<1>2. TypeOK' /\ MetadataIsOwn' /\ Results /\ idle' \notin Files
  <2>1. crashes' \in Nat
    <3>1. crashes \in Nat /\ crashes > 0 /\ crashes' = crashes - 1
      BY DEF OnlineInv, TypeOK, Crash
    <3> QED
      BY <3>1
  <2> QED
    BY <1>1, <2>1, NoCurFacts, ClearedFacts, Bounds, ZenonT(30) DEF OnlineInv, TypeOK, Crash, disk, Results
<1>3. AtWork' /\ ~Own'
  BY <1>1, NoCurFacts, AtRest DEF Crash, Own
<1> QED
  BY <1>2, <1>3, Quiet DEF Crash

LEMMA NextFileStep ==
    ASSUME OnlineInv, NextFile
    PROVE  OnlineInv' /\ Steady
<1>1. PICK f \in pass.todo :
          /\ pass' = [pass EXCEPT !.todo = @ \ {f}]
          /\ \/ card.kind[f] = "unreadable" /\ result' = [result EXCEPT ![f] = "failed"] /\ UNCHANGED cur
             \/ card.kind[f] = "filtered" /\ result' = [result EXCEPT ![f] = "skipped"] /\ UNCHANGED cur
             \/ card.kind[f] = "media" /\ cur' = [NoCur EXCEPT !.f = f, !.pc = "exif"] /\ UNCHANGED result
             \/ card.kind[f] = "sidecar" /\ cur' = [NoCur EXCEPT !.f = f, !.pc = "resolve"] /\ UNCHANGED result
  BY DEF NextFile
<1>2. pass' \in Passes /\ pass'.on = pass.on /\ f \in Files
  BY <1>1 DEF OnlineInv, TypeOK, Passes
<1>3. UNCHANGED <<card, cfg, disk, rows, node, meta, safe, idle, faults, crashes, passes, events>>
  BY DEF NextFile, Kept, disk
<1>4. pass.on /\ cur.pc = "next" /\ ~safe
  BY DEF NextFile, At, OnlineInv, AtWork
<1>5. CASE card.kind[f] \in {"unreadable", "filtered"}
  <2>1. UNCHANGED cur /\ \E res \in {"failed", "skipped"} : result' = [result EXCEPT ![f] = res]
    BY <1>1, <1>5
  <2>2. TypeOK'
    BY <1>2, <1>3, <2>1 DEF OnlineInv, TypeOK, disk
  <2>3. AtWork' /\ ~Own'
    BY <1>3, <1>4, <2>1, AtRest DEF Own
  <2>4. Good(f)
    BY <1>5 DEF Good, Media
  <2>5. Results
    BY <1>2, <1>3, <2>1, <2>4 DEF Results, OnlineInv, TypeOK
  <2>6. MetadataIsOwn' /\ idle' \notin Files
    BY <1>3 DEF OnlineInv, MetadataIsOwn
  <2> QED
    BY <1>3, <2>2, <2>3, <2>5, <2>6, Quiet
<1>6. CASE card.kind[f] \in {"media", "sidecar"}
  <2>1. /\ UNCHANGED result /\ cur' \in Curs /\ cur'.f = f
        /\ (cur'.pc = "exif" /\ card.kind[f] = "media") \/ cur'.pc = "resolve"
    <3>1. PICK q \in {"exif", "resolve"} : UNCHANGED result /\ cur' = [NoCur EXCEPT !.f = f, !.pc = q]
                                           /\ (q = "exif" => card.kind[f] = "media")
      BY <1>1, <1>6
    <3> QED
      BY <1>2, <3>1, NoCurFacts DEF Curs, Steps
  <2>2. AtWork' /\ ~Own'
    BY <1>2, <1>3, <1>4, <2>1 DEF AtWork, Own, F, Media
  <2> QED
    BY <1>2, <1>3, <2>1, <2>2, QuietGo DEF OnlineInv, TypeOK
<1>7. card.kind[f] \in Kinds
  BY <1>2, CardFacts DEF OnlineInv, TypeOK
<1> QED
  BY <1>5, <1>6, <1>7 DEF Kinds

-----------------------------------------------------------------------------
(* Others: the server, the drain, other users; a request to stop *)

\* A step that leaves the file at work where it is.
LEMMA AtWorkSame ==
    ASSUME OnlineInv, TypeOK', UNCHANGED <<card, cfg, local, cur, safe>>, pass'.on = pass.on,
           Steady, NodesKept, RowsKept,
           \A n \in Names : archive[n] # Absent => archive'[n] = archive[n],
           \A n \in foreign' \ foreign : archive[n] = Absent
    PROVE  AtWork'
<1>1. IF pass'.on THEN ~safe' ELSE cur'.pc = "next"
  BY DEF OnlineInv, AtWork
<1>2. /\ cur'.pc # "next" => cur'.f \in Files
      /\ cur'.pc \notin {"next", "exif", "resolve"} => cur'.n \in Names
      /\ cur'.pc \in {"exif", "prescreen", "confirm", "remove", "insert", "post", "lookup", "hash", "verifyold"} => Media(cur.f)'
  BY DEF OnlineInv, AtWork, Media, F
<1>3. Own' => archive'[cur.n] # Absent /\ cur.n \notin foreign' /\ cur.n \in Names
  <2>1. Own' = Own
    BY DEF Own
  <2>2. Own => cur.n \in Names /\ archive[cur.n] # Absent /\ cur.n \notin foreign
    BY DEF OnlineInv, AtWork, Own
  <2> QED
    BY <2>1, <2>2
<1>4. cur'.pc \in {"prescreen", "confirm", "remove", "verify", "insert", "post"} => cur'.h = Whole(card'.content[cur'.f])
  BY DEF OnlineInv, AtWork, F
<1>5. cur'.pc \in {"insert", "post"} => archive'[cur'.n] = cur'.h
  <2> SUFFICES ASSUME cur.pc \in {"insert", "post"} PROVE archive'[cur.n] = cur.h
    OBVIOUS
  <2>1. cur.n \in Names /\ archive[cur.n] = cur.h /\ cur.h = Whole(card.content[cur.f]) /\ cur.f \in Files
    BY DEF OnlineInv, AtWork, F
  <2>2. cur.h # Absent
    BY <2>1, CardFacts, WholeFacts DEF OnlineInv, TypeOK
  <2> QED
    BY <2>1, <2>2
<1>6. cur'.pc = "remove" => \E p \in Known(cur.h)' : p # cur'.n
  <2> SUFFICES ASSUME cur.pc = "remove" PROVE \E p \in Known(cur.h)' : p # cur.n
    OBVIOUS
  <2>1. PICK p \in Known(cur.h) : p # cur.n
    BY DEF OnlineInv, AtWork
  <2>2. cur.f \in Files /\ cur.h = Whole(card.content[cur.f])
    BY DEF OnlineInv, AtWork, F
  <2>3. cur.h \in Copies
    BY <2>2, CardFacts, WholeFacts DEF OnlineInv, TypeOK
  <2>4. ~Mine(p)
    BY <2>1 DEF Mine
  <2> DEFINE h == cur.h
  <2>5. p \in Known(h) /\ h \in Copies /\ h' = h
    BY <2>1, <2>3
  <2> HIDE DEF h
  <2>6. p \in Known(h)'
    BY <2>4, <2>5, KnownKept DEF OnlineInv, Known
  <2> QED
    BY <2>1, <2>6 DEF h, Known
<1>7. cur'.pc = "post" /\ cfg'.queue => \E r \in rows' : r.n = cur'.n /\ r.h = cur'.h
  BY DEF OnlineInv, AtWork, RowsKept
<1>8. cur'.pc \in {"lookup", "hash", "verifyold"} =>
          /\ archive'[cur.n] \in {Whole(card.content[cur.f]), [c |-> card.content[cur.f], s |-> "rotten archive"]}
          /\ local'[cur.n] \in {Whole(card.content[cur.f]), [c |-> card.content[cur.f], s |-> "rotten local"]}
  <2> SUFFICES ASSUME cur.pc \in {"lookup", "hash", "verifyold"}
               PROVE  /\ archive'[cur.n] \in {Whole(card.content[cur.f]), [c |-> card.content[cur.f], s |-> "rotten archive"]}
                      /\ local'[cur.n] \in {Whole(card.content[cur.f]), [c |-> card.content[cur.f], s |-> "rotten local"]}
    OBVIOUS
  <2>1. /\ cur.f \in Files /\ cur.n \in Names
        /\ archive[cur.n] \in {Whole(card.content[cur.f]), [c |-> card.content[cur.f], s |-> "rotten archive"]}
        /\ local[cur.n] \in {Whole(card.content[cur.f]), [c |-> card.content[cur.f], s |-> "rotten local"]}
    BY DEF OnlineInv, AtWork, F
  <2>2. card.content[cur.f] \in Contents
    BY <2>1, CardFacts DEF OnlineInv, TypeOK
  <2>3. archive[cur.n] # Absent
    <3>1. [c |-> card.content[cur.f], s |-> "rotten archive"] # Absent
      BY <2>2, WrittenFacts
    <3>2. Whole(card.content[cur.f]) # Absent
      BY <2>2, WholeFacts
    <3> QED
      BY <2>1, <3>1, <3>2
  <2> QED
    BY <2>1, <2>3
<1>9. cur'.pc = "verifyold" => cur'.h = local'[cur'.n]
  BY DEF OnlineInv, AtWork
<1> QED
  BY <1>1, <1>2, <1>3, <1>4, <1>5, <1>6, <1>7, <1>8, <1>9 DEF AtWork, F, Media, Known, Whole

LEMMA StopStep ==
    ASSUME OnlineInv, Stop
    PROVE  OnlineInv' /\ Steady
<1>1. pass' \in Passes /\ pass'.on = pass.on
  BY DEF Stop, OnlineInv, TypeOK, Passes
<1>2. events' \in Nat
  BY EventFacts DEF Stop, OnlineInv
<1>3. TypeOK' /\ MetadataIsOwn' /\ Results /\ idle' \notin Files
  BY <1>1, <1>2 DEF Stop, OnlineInv, TypeOK, MetadataIsOwn, Results, disk
<1>4. Steady /\ NodesKept /\ RowsKept
  BY DEF Stop, disk, Steady, Mine, Own, NodesKept, RowsKept
<1>5. AtWork'
  BY <1>1, <1>3, <1>4, AtWorkSame DEF Stop, disk
<1>6. UNCHANGED <<card, disk, rows, node>> /\ (Own' => Own /\ cur'.n = cur.n)
  BY DEF Stop, Own
<1> QED
  BY <1>3, <1>5, <1>6, Quiet

LEMMA ScanStep ==
    ASSUME OnlineInv, NEW n \in Names, ServerScan(n)
    PROVE  OnlineInv' /\ Steady
<1>1. events' \in Nat
  BY EventFacts DEF ServerScan, OnlineInv
<1>2. TypeOK' /\ MetadataIsOwn' /\ Results /\ idle' \notin Files
  BY <1>1 DEF ServerScan, OnlineInv, TypeOK, MetadataIsOwn, Results, disk, walk
<1>3. Steady /\ RowsKept /\ RowsSound
  BY DEF ServerScan, disk, walk, Steady, Mine, Own, RowsKept, RowsSound
<1>4. NodesKept
  BY Places DEF ServerScan, NodesKept, OnlineInv, TypeOK
<1>5. AtWork'
  BY <1>2, <1>3, <1>4, AtWorkSame DEF ServerScan, disk, walk
<1>6. \A m \in Names : archive'[m].s # "rotten local" /\ local'[m].s # "rotten archive"
  BY DEF ServerScan, disk, OnlineInv, Shelved
<1> QED
  BY <1>2, <1>3, <1>4, <1>5, <1>6, Preserved DEF ServerScan, disk

LEMMA AcceptedFacts ==
    ASSUME TypeOK, NEW n \in Names, NEW h \in Copies, archive[n] = h, Accepted(n, h)
    PROVE  NodesKept /\ node' \in [Names \cup {Library} -> Copies \cup {Absent}] /\ \E p \in {Library} \cup Names : node'[p] = h /\ (p = Library \/ archive[p] = h)
<1>1. CASE Known(h) # {}
  BY <1>1 DEF Accepted, NodesKept, TypeOK, Known
<1>2. CASE Known(h) = {}
  <2>1. node' = [node EXCEPT ![n] = h]
    BY <1>2 DEF Accepted
  <2>2. \A m \in Names : node[m] = archive[m] => archive[m] # h
    BY <1>2 DEF Known, TypeOK
  <2> QED
    BY <2>1, <2>2, Places DEF NodesKept, TypeOK
<1> QED
  BY <1>1, <1>2

LEMMA DrainStep ==
    ASSUME OnlineInv, NEW r \in rows, DrainRow(r)
    PROVE  OnlineInv' /\ Steady
<1>1. r \in [n : Names, h : Copies, st : {"pending", "submitted", "failed"}]
  BY DEF OnlineInv, TypeOK
<1>2. \E s \in {"submitted", "failed"} : rows' = (rows \ {r}) \cup {[r EXCEPT !.st = s]}
  BY DEF DrainRow
<1>3. RowsKept /\ RowsSound /\ rows' \subseteq [n : Names, h : Copies, st : {"pending", "submitted", "failed"}]
  <2>1. PICK s \in {"submitted", "failed"} : rows' = (rows \ {r}) \cup {[r EXCEPT !.st = s]}
    BY <1>2
  <2> DEFINE q == [r EXCEPT !.st = s]
  <2>2. q \in [n : Names, h : Copies, st : {"pending", "submitted", "failed"}] /\ q.n = r.n /\ q.h = r.h
    BY <1>1
  <2>3. rows' = (rows \ {r}) \cup {q}
    BY <2>1
  <2> HIDE DEF q
  <2>4. RowsKept /\ RowsSound
    BY <2>2, <2>3 DEF RowsKept, RowsSound
  <2> QED
    BY <2>2, <2>3, <2>4 DEF OnlineInv, TypeOK
<1>4. NodesKept /\ node' \in [Names \cup {Library} -> Copies \cup {Absent}]
  <2>1. r.n \in Names /\ r.h \in Copies /\ archive[r.n] = r.h
    BY <1>1 DEF OnlineInv, Shelved
  <2>2. CASE Accepted(r.n, r.h)
    BY <2>1, <2>2, AcceptedFacts DEF OnlineInv
  <2>3. CASE UNCHANGED node
    BY <2>3 DEF NodesKept, OnlineInv, TypeOK
  <2> QED
    BY <2>2, <2>3 DEF DrainRow
<1>5. faults' \in Nat
  BY FaultFacts DEF DrainRow, OnlineInv
<1>6. TypeOK' /\ MetadataIsOwn' /\ Results /\ idle' \notin Files
  BY <1>3, <1>4, <1>5 DEF DrainRow, OnlineInv, TypeOK, MetadataIsOwn, Results, disk, walk
<1>7. Steady
  BY DEF DrainRow, disk, walk, Steady, Mine, Own
<1>8. AtWork'
  BY <1>3, <1>4, <1>6, <1>7, AtWorkSame DEF DrainRow, disk, walk
<1>9. \A m \in Names : archive'[m].s # "rotten local" /\ local'[m].s # "rotten archive"
  BY DEF DrainRow, disk, OnlineInv, Shelved
<1> QED
  BY <1>3, <1>4, <1>6, <1>7, <1>8, <1>9, Preserved DEF DrainRow, disk

LEMMA OtherUserStep ==
    ASSUME OnlineInv, NEW n \in Names, OtherUser(n)
    PROVE  OnlineInv' /\ Steady
<1>1. events' \in Nat
  BY EventFacts DEF OtherUser, OnlineInv
<1>2. Whole("other") \in Copies /\ Whole("other").s = "whole" /\ Whole("other") # Absent
  BY WholeFacts
<1>3. /\ archive[n] = Absent /\ archive' \in [Names -> Copies \cup {Absent}] /\ archive'[n] = Whole("other")
      /\ \A m \in Names \ {n} : archive'[m] = archive[m]
  BY <1>2 DEF OtherUser, OnlineInv, TypeOK
<1>4. foreign' = foreign \cup {n} /\ UNCHANGED <<card, cfg, local, rows, node, pass, cur, result, meta, safe, idle>>
  BY DEF OtherUser, walk
<1>5. TypeOK' /\ MetadataIsOwn' /\ Results /\ idle' \notin Files
  BY <1>1, <1>3, <1>4, ZenonT(30) DEF OtherUser, OnlineInv, TypeOK, MetadataIsOwn, Results
<1>6. Steady /\ RowsKept /\ NodesKept
  BY <1>3, <1>4 DEF Steady, Mine, Own, RowsKept, NodesKept
<1>7. AtWork'
  BY <1>3, <1>4, <1>5, <1>6, AtWorkSame
<1>8. Settled'
  BY <1>4, <1>5, <1>6, SettledAfter DEF OnlineInv
<1>9. Shelved'
  <2>1. \A m \in Names : archive'[m].s # "rotten local" /\ local'[m].s # "rotten archive"
    BY <1>2, <1>3, <1>4 DEF OnlineInv, Shelved
  <2>2. \A m \in foreign' : archive'[m] # Absent
    BY <1>2, <1>3, <1>4 DEF OnlineInv, Shelved, TypeOK
  <2>3. ASSUME NEW r \in rows' PROVE archive'[r.n] = r.h /\ r.h.s = "whole" /\ ~Mine(r.n)'
    <3>1. r \in rows /\ r.n \in Names /\ r.h \in Copies
      BY <1>4, <2>3 DEF OnlineInv, TypeOK
    <3>2. archive[r.n] = r.h /\ r.h.s = "whole" /\ ~Mine(r.n) /\ r.h # Absent
      BY <3>1, CopyFacts DEF OnlineInv, Shelved
    <3> QED
      BY <1>6, <3>1, <3>2 DEF Steady
  <2> QED
    BY <1>4, <2>1, <2>2, <2>3 DEF OnlineInv, Shelved
<1> QED
  BY <1>5, <1>6, <1>7, <1>8, <1>9 DEF OnlineInv

-----------------------------------------------------------------------------
(* Metadata and name *)

LEMMA ExifStep ==
    ASSUME OnlineInv, Exif
    PROVE  OnlineInv' /\ Steady
<1>1. cur' \in Curs /\ cur'.f = cur.f /\ cur'.pc = "resolve" /\ cur'.n = cur.n /\ cur'.h = cur.h
  BY GoFacts DEF Exif, OnlineInv, Steps
<1>2. pass.on /\ ~safe /\ F \in Files
  BY DEF Exif, At, OnlineInv, AtWork
<1>3. idle' \in {"clean", "no process", idle} /\ faults' \in Nat
  BY FaultFacts DEF Exif, AfterError, OnlineInv
<1>4. meta' = meta \/ meta' = [meta EXCEPT ![F] = F]
  BY DEF Exif, Answer, OnlineInv
<1>5. MetadataIsOwn' /\ meta' \in [Files -> Files \cup {Nothing}]
  BY <1>2, <1>4 DEF OnlineInv, TypeOK, MetadataIsOwn
<1>6. idle' \in {"no process", "clean"} \cup Files /\ idle' \notin Files
  BY <1>3, Bounds DEF OnlineInv, TypeOK
<1>7. TypeOK' /\ Results
  BY <1>1, <1>3, <1>5, <1>6 DEF Exif, OnlineInv, TypeOK, disk, Results
<1>8. AtWork' /\ ~Own'
  BY <1>1, <1>2 DEF Exif, AtWork, Own, F
<1> QED
  BY <1>5, <1>6, <1>7, <1>8, Quiet DEF Exif

LEMMA LooksFacts ==
    ASSUME OnlineInv, NEW f \in Files, NEW lucky, NEW n \in Names, Same(n, f, lucky)
    PROVE  /\ archive[n] \in {Whole(card.content[f]), [c |-> card.content[f], s |-> "rotten archive"]}
           /\ local[n] \in {Whole(card.content[f]), [c |-> card.content[f], s |-> "rotten local"]}
           /\ ~Media(f) => archive[n] = Whole(card.content[f])
<1>1. \A x \in Copies \cup {Absent}, s \in {"whole", "rotten archive", "rotten local"} :
          x.c = card.content[f] /\ x.s = s => x = [c |-> card.content[f], s |-> s]
  <2>1. Absent.s = "absent"
    BY CopyFacts
  <2>2. ASSUME NEW x \in Copies, NEW s \in {"whole", "rotten archive", "rotten local"}, x.c = card.content[f], x.s = s
        PROVE  x = [c |-> card.content[f], s |-> s]
    BY <2>2 DEF Copies
  <2> QED
    BY <2>1, <2>2
<1>2. archive[n] \in Copies \cup {Absent} /\ local[n] \in Copies \cup {Absent}
  BY DEF OnlineInv, TypeOK
<1>3. archive[n].s # "rotten local" /\ local[n].s # "rotten archive"
  BY DEF OnlineInv, Shelved
<1>4. \A x : Looks(x, f, lucky) => x.c = card.content[f] /\ (x.s = "whole" \/ (Media(f) /\ x.s \in {"rotten archive", "rotten local"}))
  BY DEF Looks
<1>5. archive[n].c = card.content[f] /\ (archive[n].s = "whole" \/ (Media(f) /\ archive[n].s = "rotten archive"))
  BY <1>3, <1>4 DEF Same
<1>6. local[n].c = card.content[f] /\ (local[n].s = "whole" \/ (Media(f) /\ local[n].s = "rotten local"))
  BY <1>3, <1>4 DEF Same
<1>7. /\ archive[n] = Whole(card.content[f]) \/ (Media(f) /\ archive[n] = [c |-> card.content[f], s |-> "rotten archive"])
  BY <1>1, <1>2, <1>5 DEF Whole
<1>8. local[n] = Whole(card.content[f]) \/ (Media(f) /\ local[n] = [c |-> card.content[f], s |-> "rotten local"])
  BY <1>1, <1>2, <1>6 DEF Whole
<1> QED
  BY <1>7, <1>8

\* The name a file is given holds this file or nothing.
LEMMA FoundFacts ==
    ASSUME OnlineInv, NEW f \in Files, NEW lucky, NEW k \in ResolveDestination(f, lucky)
    PROVE  /\ k \in Nat /\ <<card.base[f], k>> \in Names
           /\ Same(<<card.base[f], k>>, f, lucky) \/ Vacant(<<card.base[f], k>>)
<1>1. k \in Usable(f, lucky)
  BY DEF ResolveDestination
<1>2. k \in Suffixes /\ (Same(<<card.base[f], k>>, f, lucky) \/ Vacant(<<card.base[f], k>>))
  BY <1>1 DEF Usable
<1>3. MaxSuffix \in Nat
  BY Bounds
<1>4. k \in Nat
  BY <1>2, <1>3 DEF Suffixes
<1>5. card.base[f] \in Bases
  BY CardFacts DEF OnlineInv, TypeOK
<1> QED
  BY <1>2, <1>4, <1>5 DEF Names

LEMMA ResolveStep ==
    ASSUME OnlineInv, Resolve
    PROVE  OnlineInv' /\ Steady
<1>1. PICK lucky \in BOOLEAN :
       LET found == ResolveDestination(F, lucky) IN
       \/ (Fault \/ (NoFault /\ found = {})) /\ Ends("failed") /\ UNCHANGED pass
       \/ \E k \in found :
             LET n == <<card.base[F], k>> IN
             /\ NoFault /\ pass' = IF k > 1 THEN [pass EXCEPT !.sfx = [g \in Files |-> IF g \in Stem(F) THEN k ELSE @[g]]] ELSE pass
             /\ \/ Vacant(n) /\ cur' = [cur EXCEPT !.pc = "archive", !.n = n] /\ UNCHANGED result
                \/ ~Vacant(n) /\ Media(F) /\ cur' = [cur EXCEPT !.pc = "lookup", !.n = n] /\ UNCHANGED result
                \/ ~Vacant(n) /\ ~Media(F) /\ Ends("skipped")
  BY DEF Resolve
<1>2. pass.on /\ ~safe /\ F \in Files /\ cur.pc = "resolve"
  BY DEF Resolve, At, OnlineInv, AtWork
<1>3. UNCHANGED <<card, cfg, disk, rows, node, meta, safe, idle, crashes, passes, events>>
  BY DEF Resolve, Kept, disk
<1>4. CASE (Fault \/ NoFault) /\ Ends("failed") /\ UNCHANGED pass
  <2>1. faults' \in Nat /\ pass' \in Passes /\ pass'.on = pass.on
    BY <1>4, FaultFacts DEF OnlineInv, TypeOK
  <2> QED
    BY <1>2, <1>3, <1>4, <2>1, QuietEnd
<1>5. ASSUME NEW k \in ResolveDestination(F, lucky), NEW n, n = <<card.base[F], k>>,
             NoFault, pass' = IF k > 1 THEN [pass EXCEPT !.sfx = [g \in Files |-> IF g \in Stem(F) THEN k ELSE @[g]]] ELSE pass,
             \/ Vacant(n) /\ cur' = [cur EXCEPT !.pc = "archive", !.n = n] /\ UNCHANGED result
             \/ ~Vacant(n) /\ Media(F) /\ cur' = [cur EXCEPT !.pc = "lookup", !.n = n] /\ UNCHANGED result
             \/ ~Vacant(n) /\ ~Media(F) /\ Ends("skipped")
      PROVE  OnlineInv' /\ Steady
  <2>1. k \in Nat /\ n \in Names /\ (Same(n, F, lucky) \/ Vacant(n))
    BY <1>2, <1>5, FoundFacts
  <2>2. pass' \in Passes /\ pass'.on = pass.on
    <3>1. pass \in Passes /\ pass.sfx \in [Files -> Nat]
      BY DEF OnlineInv, TypeOK, Passes
    <3> DEFINE sfx == [g \in Files |-> IF g \in Stem(F) THEN k ELSE pass.sfx[g]]
    <3>2. sfx \in [Files -> Nat]
      BY <2>1, <3>1
    <3>3. pass' = [pass EXCEPT !.sfx = sfx] \/ pass' = pass
      BY <1>5, <3>1
    <3> HIDE DEF sfx
    <3> QED
      BY <3>1, <3>2, <3>3 DEF Passes
  <2>3. faults' \in Nat
    BY <1>5, FaultFacts DEF OnlineInv
  <2>4. CASE ~Vacant(n) /\ ~Media(F) /\ Ends("skipped")
    <3>1. archive[n] = Whole(card.content[F])
      BY <1>2, <2>1, <2>4, LooksFacts
    <3>2. Good(F)
      BY <1>2, <2>1, <2>4, <3>1 DEF Good, Stored, Mine, Own
    <3> QED
      BY <1>2, <1>3, <2>2, <2>3, <2>4, <3>2, QuietEnd
  <2>5. ASSUME NEW p \in {"archive", "lookup"}, cur' = [cur EXCEPT !.pc = p, !.n = n]
        PROVE  cur' \in Curs /\ cur'.pc = p /\ cur'.n = n /\ cur'.f = cur.f
    BY <2>1, <2>5 DEF OnlineInv, TypeOK, Curs, Steps
  <2>6. CASE Vacant(n) /\ cur' = [cur EXCEPT !.pc = "archive", !.n = n] /\ UNCHANGED result
    <3>1. cur' \in Curs /\ cur'.pc = "archive" /\ cur'.n = n /\ cur'.f = cur.f
      BY <2>5, <2>6
    <3>2. AtWork' /\ ~Own'
      BY <1>2, <1>3, <2>1, <2>2, <3>1 DEF AtWork, Own, F
    <3> QED
      BY <1>3, <2>2, <2>3, <2>6, <3>1, <3>2, QuietGo
  <2>7. CASE ~Vacant(n) /\ Media(F) /\ cur' = [cur EXCEPT !.pc = "lookup", !.n = n] /\ UNCHANGED result
    <3>1. cur' \in Curs /\ cur'.pc = "lookup" /\ cur'.n = n /\ cur'.f = cur.f
      BY <2>5, <2>7
    <3>2. /\ archive[n] \in {Whole(card.content[F]), [c |-> card.content[F], s |-> "rotten archive"]}
          /\ local[n] \in {Whole(card.content[F]), [c |-> card.content[F], s |-> "rotten local"]}
      BY <1>2, <2>1, <2>7, LooksFacts
    <3>3. archive' = archive /\ local' = local /\ card' = card
      BY <1>3 DEF disk
    <3>4. AtWork' /\ ~Own'
      BY <1>2, <1>3, <2>1, <2>2, <2>7, <3>1, <3>2, <3>3 DEF AtWork, Own, F, Media, Whole
    <3> QED
      BY <1>3, <2>2, <2>3, <2>7, <3>1, <3>4, QuietGo
  <2> QED
    BY <1>5, <2>4, <2>6, <2>7
<1> QED
  BY <1>1, <1>4, <1>5

-----------------------------------------------------------------------------
(* Writing and removing *)

\* A step that touches the disks at no other name than the one at work, and
\* only where the walk has a copy of its own or nothing is archived.
LEMMA AtOneName ==
    ASSUME OnlineInv, TypeOK', AtWork', UNCHANGED <<card, foreign, rows, node>>,
           Own \/ archive[cur.n] = Absent, Own' => cur'.n = cur.n,
           \A n \in Names \ {cur.n} : archive'[n] = archive[n] /\ local'[n] = local[n],
           archive'[cur.n].s # "rotten local", local'[cur.n].s # "rotten archive",
           Results, MetadataIsOwn', idle' \notin Files
    PROVE  OnlineInv' /\ Steady
<1>1. Steady
  BY DEF Steady, Mine
<1>2. NodesKept /\ RowsKept /\ RowsSound
  BY DEF NodesKept, RowsKept, RowsSound
<1>3. \A n \in Names : archive'[n].s # "rotten local" /\ local'[n].s # "rotten archive"
  BY DEF OnlineInv, Shelved
<1> QED
  BY <1>1, <1>2, <1>3, Preserved

LEMMA ArchiveFacts ==
    ASSUME TypeOK, cur.n \in Names, NEW x \in Copies \cup {Absent}, Archive(x)
    PROVE  archive' \in [Names -> Copies \cup {Absent}] /\ archive'[cur.n] = x /\ \A n \in Names \ {cur.n} : archive'[n] = archive[n]
BY DEF TypeOK, Archive

LEMMA LocalFacts ==
    ASSUME TypeOK, cur.n \in Names, NEW x \in Copies \cup {Absent}, Local(x)
    PROVE  local' \in [Names -> Copies \cup {Absent}] /\ local'[cur.n] = x /\ \A n \in Names \ {cur.n} : local'[n] = local[n]
BY DEF TypeOK, Local

LEMMA AtWorkFacts ==
    ASSUME OnlineInv, pass.on
    PROVE  /\ ~safe
           /\ cur.pc # "next" => F \in Files /\ card.content[F] \in Contents
           /\ cur.pc \notin {"next", "exif", "resolve"} => cur.n \in Names
<1>1. cur.pc # "next" => F \in Files
  BY DEF OnlineInv, AtWork
<1> QED
  BY <1>1, CardFacts DEF OnlineInv, AtWork, TypeOK

\* What a step of the walk on its own copies leaves alone.
Beside == UNCHANGED <<card, cfg, foreign, rows, node, pass, meta, safe, idle, crashes, passes, events>>

\* A step that takes away copies of the walk's own, if any, and ends the file.
LEMMA RemovedEnd ==
    ASSUME OnlineInv, pass.on, Own, Beside, faults' \in Nat,
           UNCHANGED archive \/ Archive(Absent), UNCHANGED local \/ Local(Absent),
           NEW res \in {"ok", "skipped", "failed"}, Ends(res),
           NEW g \in Files, g = F, res # "failed" => Good(g) \/ Good(g)'
    PROVE  OnlineInv' /\ Steady
<1>1. ~safe /\ F \in Files /\ cur.n \in Names
  BY AtWorkFacts DEF Own
<1>2. /\ cur' \in Curs /\ cur'.pc = "next"
      /\ result' \in [Files -> {"none", "ok", "skipped", "failed"}]
      /\ result'[F] = res /\ \A f \in Files \ {F} : result'[f] = result[f]
  BY <1>1, EndsFacts DEF OnlineInv
<1>3. /\ archive' \in [Names -> Copies \cup {Absent}] /\ archive'[cur.n] \in {archive[cur.n], Absent}
      /\ \A n \in Names \ {cur.n} : archive'[n] = archive[n]
  BY <1>1, ArchiveFacts DEF OnlineInv, TypeOK
<1>4. /\ local' \in [Names -> Copies \cup {Absent}] /\ local'[cur.n] \in {local[cur.n], Absent}
      /\ \A n \in Names \ {cur.n} : local'[n] = local[n]
  BY <1>1, LocalFacts DEF OnlineInv, TypeOK
<1>5. TypeOK' /\ MetadataIsOwn' /\ idle' \notin Files
  BY <1>2, <1>3, <1>4, ZenonT(30) DEF OnlineInv, TypeOK, Beside, MetadataIsOwn
<1>6. AtWork' /\ ~Own'
  BY <1>1, <1>2, AtRest DEF Beside, Own
<1>7. Results
  <2> SUFFICES ASSUME NEW f \in Files, safe' \/ result'[f] \in {"ok", "skipped"}
               PROVE  safe \/ result[f] \in {"ok", "skipped"} \/ Good(f) \/ Good(f)'
    BY DEF Results
  <2>1. CASE f = F
    <3>1. res # "failed"
      BY <1>1, <1>2, <2>1 DEF Beside
    <3> QED
      BY <2>1, <3>1
  <2>2. CASE f # F
    BY <1>2, <2>2 DEF Beside
  <2> QED
    BY <2>1, <2>2
<1>8. archive'[cur.n].s # "rotten local" /\ local'[cur.n].s # "rotten archive"
  <2>1. archive[cur.n].s # "rotten local" /\ local[cur.n].s # "rotten archive"
    BY <1>1 DEF OnlineInv, Shelved
  <2>2. Absent.s = "absent"
    BY CopyFacts
  <2> QED
    BY <1>3, <1>4, <2>1, <2>2
<1> QED
  BY <1>3, <1>4, <1>5, <1>6, <1>7, <1>8, AtOneName DEF Beside

LEMMA CreateArchiveStep ==
    ASSUME OnlineInv, CreateArchive
    PROVE  OnlineInv' /\ Steady
<1>1. pass.on /\ cur.pc = "archive" /\ ~safe /\ F \in Files /\ card.content[F] \in Contents /\ cur.n \in Names
  BY AtWorkFacts DEF CreateArchive, At
<1>2. UNCHANGED local /\ Beside
  BY DEF CreateArchive, Kept, Beside
<1>3. faults' \in Nat /\ pass' \in Passes /\ pass'.on = pass.on
  BY <1>2, FaultFacts DEF CreateArchive, OnlineInv, Beside, TypeOK
<1>4. CASE Ends("failed") /\ UNCHANGED archive
  BY <1>1, <1>2, <1>3, <1>4, QuietEnd DEF Beside, disk
<1>5. CASE /\ MayCreate(archive[cur.n]) /\ Archive([c |-> card.content[F], s |-> "partial"]) /\ Go("local")
           /\ UNCHANGED result
  <2> DEFINE x == [c |-> card.content[F], s |-> "partial"]
  <2>1. x \in Copies /\ x # Absent /\ x.s = "partial" /\ archive[cur.n] = Absent
    BY <1>1, <1>5, WrittenFacts DEF MayCreate
  <2>2. Archive(x)
    BY <1>5
  <2> HIDE DEF x
  <2>3. archive' \in [Names -> Copies \cup {Absent}] /\ archive'[cur.n] = x /\ \A n \in Names \ {cur.n} : archive'[n] = archive[n]
    BY <1>1, <2>1, <2>2, ArchiveFacts DEF OnlineInv
  <2>4. cur' \in Curs /\ cur'.f = cur.f /\ cur'.pc = "local" /\ cur'.n = cur.n
    BY <1>5, GoFacts DEF OnlineInv, Steps
  <2>5. cur.n \notin foreign
    BY <2>1 DEF OnlineInv, Shelved
  <2>6. TypeOK' /\ MetadataIsOwn' /\ Results /\ idle' \notin Files
    BY <1>2, <1>3, <1>5, <2>3, <2>4 DEF OnlineInv, TypeOK, Beside, MetadataIsOwn, Results
  <2>7. AtWork'
    BY <1>1, <1>2, <2>1, <2>3, <2>4, <2>5 DEF AtWork, Own, F, Beside
  <2>8. archive'[cur.n].s # "rotten local" /\ local'[cur.n].s # "rotten archive"
    BY <1>1, <1>2, <2>1, <2>3 DEF OnlineInv, Shelved
  <2> QED
    BY <1>2, <2>1, <2>3, <2>4, <2>6, <2>7, <2>8, AtOneName DEF Beside
<1> QED
  BY <1>4, <1>5 DEF CreateArchive

LEMMA OwnFacts ==
    ASSUME OnlineInv, pass.on, Own
    PROVE  ~safe /\ F \in Files /\ card.content[F] \in Contents /\ cur.n \in Names /\ archive[cur.n] # Absent /\ cur.n \notin foreign
BY AtWorkFacts DEF Own, OnlineInv, AtWork

LEMMA CreateLocalStep ==
    ASSUME OnlineInv, CreateLocal
    PROVE  OnlineInv' /\ Steady
<1>1. pass.on /\ Own /\ cur.pc = "local"
  BY DEF CreateLocal, At, Own
<1>2. ~safe /\ F \in Files /\ card.content[F] \in Contents /\ cur.n \in Names /\ archive[cur.n] # Absent /\ cur.n \notin foreign
  BY <1>1, OwnFacts
<1>3. Beside /\ faults' \in Nat
  BY FaultFacts DEF CreateLocal, Kept, Beside, OnlineInv
<1>4. CASE Archive(Absent) /\ Ends("failed") /\ UNCHANGED local
  BY <1>1, <1>2, <1>3, <1>4, RemovedEnd
<1>5. CASE Local([c |-> card.content[F], s |-> "partial"]) /\ Go("copy") /\ UNCHANGED <<archive, result>>
  <2> DEFINE x == [c |-> card.content[F], s |-> "partial"]
  <2>1. x \in Copies /\ x # Absent /\ x.s = "partial"
    BY <1>2, WrittenFacts
  <2>2. Local(x)
    BY <1>5
  <2> HIDE DEF x
  <2>3. local' \in [Names -> Copies \cup {Absent}] /\ local'[cur.n] = x /\ \A n \in Names \ {cur.n} : local'[n] = local[n]
    BY <1>2, <2>1, <2>2, LocalFacts DEF OnlineInv
  <2>4. cur' \in Curs /\ cur'.f = cur.f /\ cur'.pc = "copy" /\ cur'.n = cur.n
    BY <1>5, GoFacts DEF OnlineInv, Steps
  <2>5. TypeOK' /\ MetadataIsOwn' /\ Results /\ idle' \notin Files
    BY <1>3, <1>5, <2>3, <2>4 DEF OnlineInv, TypeOK, Beside, MetadataIsOwn, Results
  <2>6. AtWork'
    BY <1>1, <1>2, <1>3, <1>5, <2>4 DEF AtWork, Own, F, Beside
  <2>7. archive'[cur.n].s # "rotten local" /\ local'[cur.n].s # "rotten archive"
    BY <1>2, <1>5, <2>1, <2>3 DEF OnlineInv, Shelved
  <2> QED
    BY <1>1, <1>3, <1>5, <2>3, <2>4, <2>5, <2>6, <2>7, AtOneName DEF Beside
<1> QED
  BY <1>4, <1>5 DEF CreateLocal

LEMMA DualWriteStep ==
    ASSUME OnlineInv, DualWrite
    PROVE  OnlineInv' /\ Steady
<1>1. pass.on /\ Own /\ cur.pc = "copy"
  BY DEF DualWrite, At, Own
<1>2. ~safe /\ F \in Files /\ card.content[F] \in Contents /\ cur.n \in Names /\ archive[cur.n] # Absent /\ cur.n \notin foreign
  BY <1>1, OwnFacts
<1>3. Beside /\ faults' \in Nat
  BY FaultFacts DEF DualWrite, Kept, Beside, OnlineInv, Breaks
<1>4. CASE BothRemoved /\ Ends("failed")
  BY <1>1, <1>2, <1>3, <1>4, RemovedEnd DEF BothRemoved
<1>5. ASSUME NEW x \in Copies, NEW y \in Copies, x.s \in {"whole", "rotten archive"}, y.s \in {"whole", "rotten local"},
             Archive(x), Local(y), UNCHANGED result,
             cur' = [cur EXCEPT !.h = Whole(card.content[F]), !.pc = IF Media(F) THEN "prescreen" ELSE "verify"]
      PROVE  OnlineInv' /\ Steady
  <2>1. archive' \in [Names -> Copies \cup {Absent}] /\ archive'[cur.n] = x /\ \A n \in Names \ {cur.n} : archive'[n] = archive[n]
    BY <1>2, <1>5, ArchiveFacts DEF OnlineInv
  <2>2. local' \in [Names -> Copies \cup {Absent}] /\ local'[cur.n] = y /\ \A n \in Names \ {cur.n} : local'[n] = local[n]
    BY <1>2, <1>5, LocalFacts DEF OnlineInv
  <2>3. /\ cur' \in Curs /\ cur'.f = cur.f /\ cur'.n = cur.n /\ cur'.h = Whole(card.content[F])
        /\ cur'.pc = IF Media(F) THEN "prescreen" ELSE "verify"
    <3> DEFINE p == IF Media(F) THEN "prescreen" ELSE "verify"
               h == Whole(card.content[F])
    <3>1. p \in Steps /\ h \in Copies
      BY <1>2, WholeFacts DEF Steps
    <3>2. cur' = [cur EXCEPT !.h = h, !.pc = p] /\ cur \in Curs
      BY <1>5 DEF OnlineInv, TypeOK
    <3> HIDE DEF p, h
    <3>3. cur' \in Curs /\ cur'.f = cur.f /\ cur'.n = cur.n /\ cur'.h = h /\ cur'.pc = p
      BY <3>1, <3>2 DEF Curs
    <3> QED
      BY <3>3 DEF p, h
  <2>4. TypeOK' /\ MetadataIsOwn' /\ Results /\ idle' \notin Files
    BY <1>3, <1>5, <2>1, <2>2, <2>3 DEF OnlineInv, TypeOK, Beside, MetadataIsOwn, Results
  <2>5. x # Absent
    BY <1>5, CopyFacts
  <2>6. AtWork'
    BY <1>1, <1>2, <1>3, <2>1, <2>3, <2>5 DEF AtWork, Own, F, Beside, Media, Whole
  <2>7. archive'[cur.n].s # "rotten local" /\ local'[cur.n].s # "rotten archive"
    BY <1>5, <2>1, <2>2
  <2> QED
    BY <1>1, <1>3, <2>1, <2>2, <2>3, <2>4, <2>6, <2>7, AtOneName DEF Beside
<1>6. \A s \in {"whole", "rotten archive", "rotten local"} :
          [c |-> card.content[F], s |-> s] \in Copies /\ [c |-> card.content[F], s |-> s].s = s
  BY <1>2, WrittenFacts
<1>7. Whole(card.content[F]) \in Copies /\ Whole(card.content[F]).s = "whole"
  BY <1>2, WholeFacts
<1>8. CASE /\ UNCHANGED result
           /\ cur' = [cur EXCEPT !.h = Whole(card.content[F]), !.pc = IF Media(F) THEN "prescreen" ELSE "verify"]
           /\ \/ NoFault /\ Archive(Whole(card.content[F])) /\ Local(Whole(card.content[F]))
              \/ Fault /\ Archive([c |-> card.content[F], s |-> "rotten archive"]) /\ Local(Whole(card.content[F]))
              \/ Fault /\ Archive(Whole(card.content[F])) /\ Local([c |-> card.content[F], s |-> "rotten local"])
  <2>1. PICK x \in Copies, y \in Copies :
            x.s \in {"whole", "rotten archive"} /\ y.s \in {"whole", "rotten local"} /\ Archive(x) /\ Local(y)
    BY <1>6, <1>7, <1>8
  <2> QED
    BY <1>5, <1>8, <2>1
<1> QED
  BY <1>4, <1>8 DEF DualWrite

-----------------------------------------------------------------------------
(* Duplicates and verification *)

\* What a step that touches neither disks nor queue nor server leaves alone.
Still == UNCHANGED <<card, cfg, disk, rows, node, meta, safe, idle, crashes, passes, events>>

\* The walk goes on with a copy of its own.
LEMMA OwnGo ==
    ASSUME OnlineInv, pass.on, cur.pc \in {"prescreen", "confirm", "verify"}, Still, UNCHANGED result,
           pass' \in Passes, pass'.on = pass.on, faults' \in Nat,
           NEW p \in {"confirm", "remove", "verify", "insert"}, Go(p), p # "verify" => Media(F),
           p = "remove" => \E q \in Known(cur.h) : q # cur.n, p = "insert" => archive[cur.n] = cur.h
    PROVE  OnlineInv' /\ Steady
<1>1. ~safe /\ F \in Files /\ cur.n \in Names /\ archive[cur.n] # Absent /\ cur.n \notin foreign
  BY OwnFacts DEF Own
<1>2. cur.h = Whole(card.content[F])
  BY DEF OnlineInv, AtWork
<1>3. cur' \in Curs /\ cur'.f = cur.f /\ cur'.pc = p /\ cur'.n = cur.n /\ cur'.h = cur.h
  BY GoFacts DEF OnlineInv, Steps
<1>4. archive' = archive /\ local' = local /\ foreign' = foreign /\ card' = card /\ node' = node /\ safe' = safe
  BY DEF Still, disk
<1>5. p = "remove" => \E q \in Known(cur.h)' : q # cur'.n
  BY <1>3, <1>4 DEF Known
<1>6. AtWork'
  BY <1>1, <1>2, <1>3, <1>4, <1>5 DEF AtWork, Own, F, Media, Whole
<1>7. Own' => Own /\ cur'.n = cur.n
  BY <1>3 DEF Own
<1> QED
  BY <1>3, <1>6, <1>7, QuietGo DEF Still

LEMMA PrescreenStep ==
    ASSUME OnlineInv, Prescreen
    PROVE  OnlineInv' /\ Steady
<1>1. pass.on /\ cur.pc = "prescreen" /\ Media(F)
  BY DEF Prescreen, At, OnlineInv, AtWork
<1>2. Still /\ UNCHANGED result
  BY DEF Prescreen, Kept, Still, disk
<1>3. faults' \in Nat
  BY FaultFacts DEF Prescreen, OnlineInv, Works, Breaks
<1>4. pass' \in Passes /\ pass'.on = pass.on
  <2>1. UNCHANGED pass \/ \E d \in {"full only", "unavailable"} : pass' = [pass EXCEPT !.dedup = d]
    BY DEF Prescreen
  <2> QED
    BY <2>1, DedupFacts DEF OnlineInv, TypeOK
<1>5. Go("confirm") \/ Go("verify")
  BY DEF Prescreen
<1>6. CASE Go("confirm")
  BY <1>1, <1>2, <1>3, <1>4, <1>6, OwnGo
<1>7. CASE Go("verify")
  BY <1>1, <1>2, <1>3, <1>4, <1>7, OwnGo
<1> QED
  BY <1>5, <1>6, <1>7

LEMMA ConfirmStep ==
    ASSUME OnlineInv, Confirm
    PROVE  OnlineInv' /\ Steady
<1>1. pass.on /\ cur.pc = "confirm" /\ Media(F)
  BY DEF Confirm, At, OnlineInv, AtWork
<1>2. Still /\ UNCHANGED result
  BY DEF Confirm, Kept, Still, disk
<1>3. faults' \in Nat
  BY FaultFacts DEF Confirm, OnlineInv, Works, Breaks
<1>4. pass' \in Passes /\ pass'.on = pass.on
  <2>1. UNCHANGED pass \/ pass' = [pass EXCEPT !.dedup = "unavailable"]
    BY DEF Confirm
  <2> QED
    BY <2>1, DedupFacts DEF OnlineInv, TypeOK
<1>5. CASE Go("verify")
  BY <1>1, <1>2, <1>3, <1>4, <1>5, OwnGo
<1>6. CASE Go("remove") /\ \E p \in Known(cur.h) : p # cur.n
  BY <1>1, <1>2, <1>3, <1>4, <1>6, OwnGo
<1>7. Go("verify") \/ (Go("remove") /\ \E p \in Known(cur.h) : p # cur.n)
  BY DEF Confirm, IsDuplicate
<1> QED
  BY <1>5, <1>6, <1>7

\* A live node that does not rest on the walk's own copy makes a file good.
LEMMA KnownIsGood ==
    ASSUME OnlineInv, NEW f \in Files, NEW p \in Known(Whole(card.content[f])), ~Mine(p), Media(f)
    PROVE  Good(f)
<1>1. Registered(card.content[f])
  BY DEF Registered
<1>2. CASE p = Library
  <2>1. node[Library] = Whole(card.content[f])
    BY <1>2 DEF Known
  <2> QED
    BY <1>1, <2>1 DEF Good
<1>3. CASE p # Library
  <2>1. p \in Names /\ archive[p] = Whole(card.content[f])
    BY <1>3 DEF Known, OnlineInv, TypeOK
  <2>2. Stored(card.content[f])
    BY <2>1 DEF Stored
  <2> QED
    BY <1>1, <2>2 DEF Good
<1> QED
  BY <1>2, <1>3

LEMMA RemoveStep ==
    ASSUME OnlineInv, RemoveDuplicate
    PROVE  OnlineInv' /\ Steady
<1>1. pass.on /\ cur.pc = "remove" /\ Own /\ Media(F) /\ cur.h = Whole(card.content[F])
  BY DEF RemoveDuplicate, At, OnlineInv, AtWork, Own
<1>2. F \in Files
  BY <1>1, OwnFacts
<1>3. Beside /\ faults' \in Nat
  BY FaultFacts DEF RemoveDuplicate, Kept, Beside, OnlineInv
<1>4. PICK p \in Known(cur.h) : p # cur.n
  BY <1>1 DEF OnlineInv, AtWork
<1>5. Good(F)
  <2>1. ~Mine(p)
    BY <1>4 DEF Mine
  <2> QED
    BY <1>1, <1>2, <1>4, <2>1, KnownIsGood
<1>6. /\ Ends("skipped") /\ (UNCHANGED archive \/ Archive(Absent)) /\ (UNCHANGED local \/ Local(Absent))
  BY DEF RemoveDuplicate, BothRemoved
<1> QED
  BY <1>1, <1>2, <1>3, <1>5, <1>6, RemovedEnd

LEMMA VerifyStep ==
    ASSUME OnlineInv, Verify
    PROVE  OnlineInv' /\ Steady
<1>1. pass.on /\ cur.pc = "verify" /\ Own /\ cur.h = Whole(card.content[F])
  BY DEF Verify, At, OnlineInv, AtWork, Own
<1>2. F \in Files /\ cur.n \in Names
  BY <1>1, OwnFacts
<1>3. Beside /\ faults' \in Nat
  BY FaultFacts DEF Verify, Kept, Beside, OnlineInv
<1>4. CASE BothRemoved /\ Ends("failed")
  BY <1>1, <1>2, <1>3, <1>4, RemovedEnd DEF BothRemoved
<1>5. CASE Verified(cur.n, cur.h) /\ UNCHANGED <<archive, local>> /\ Media(F) /\ Go("insert") /\ UNCHANGED result
  <2>1. Still
    BY <1>3, <1>5 DEF Beside, Still, disk
  <2>2. pass' \in Passes /\ pass'.on = pass.on
    BY <1>3 DEF Beside, OnlineInv, TypeOK
  <2>3. archive[cur.n] = cur.h
    BY <1>5 DEF Verified
  <2> QED
    BY <1>1, <1>3, <1>5, <2>1, <2>2, <2>3, OwnGo
<1>6. CASE Verified(cur.n, cur.h) /\ UNCHANGED <<archive, local>> /\ ~Media(F) /\ Ends("skipped")
  <2>1. PICK g \in Files, n \in Names : g = F /\ ~Media(g) /\ archive[n] = Whole(card.content[g])
    BY <1>1, <1>2, <1>6 DEF Verified
  <2>2. cur'.pc = "next"
    BY <1>6, NoCurFacts DEF Ends
  <2>3. archive' = archive /\ card' = card
    BY <1>3, <1>6 DEF Beside
  <2>4. ~Mine(n)' /\ ~Media(g)' /\ archive'[n] = Whole(card.content[g])'
    BY <2>1, <2>2, <2>3 DEF Mine, Own, Media, Whole
  <2>5. Good(g)'
    BY <2>1, <2>4 DEF Good, Stored
  <2> QED
    BY <1>1, <1>3, <1>6, <2>1, <2>5, RemovedEnd
<1> QED
  BY <1>4, <1>5, <1>6 DEF Verify

-----------------------------------------------------------------------------
(* Registration *)

LEMMA InsertStep ==
    ASSUME OnlineInv, Insert
    PROVE  OnlineInv' /\ Steady
<1>1. /\ pass.on /\ cur.pc = "insert" /\ Media(F) /\ cur.h = Whole(card.content[F]) /\ archive[cur.n] = cur.h
      /\ cur.n \in Names /\ F \in Files /\ ~safe /\ card.content[F] \in Contents
  BY AtWorkFacts DEF Insert, At, OnlineInv, AtWork
<1>2. UNCHANGED <<card, cfg, disk, node, pass, meta, safe, idle, crashes, passes, events>> /\ faults' \in Nat
  BY FaultFacts DEF Insert, Kept, disk, OnlineInv
<1>3. CASE Ends("failed") /\ UNCHANGED rows
  BY <1>1, <1>2, <1>3, QuietEnd DEF OnlineInv, TypeOK
<1>4. CASE /\ Go("post") /\ UNCHANGED result
           /\ rows' = IF cfg.queue THEN rows \cup {[n |-> cur.n, h |-> cur.h, st |-> "pending"]} ELSE rows
  <2>1. cur' \in Curs /\ cur'.f = cur.f /\ cur'.pc = "post" /\ cur'.n = cur.n /\ cur'.h = cur.h
    BY <1>4, GoFacts DEF OnlineInv, Steps
  <2>2. cur.h \in Copies /\ cur.h.s = "whole"
    BY <1>1, WholeFacts
  <2>3. /\ rows' \subseteq [n : Names, h : Copies, st : {"pending", "submitted", "failed"}]
        /\ \A r \in rows' : r \in rows \/ (r.n = cur.n /\ r.h = cur.h)
        /\ \A r \in rows : r \in rows'
        /\ cfg.queue => \E r \in rows' : r.n = cur.n /\ r.h = cur.h
    <3> DEFINE q == [n |-> cur.n, h |-> cur.h, st |-> "pending"]
    <3>1. q \in [n : Names, h : Copies, st : {"pending", "submitted", "failed"}] /\ q.n = cur.n /\ q.h = cur.h
      BY <1>1, <2>2
    <3>2. rows' = IF cfg.queue THEN rows \cup {q} ELSE rows
      BY <1>4
    <3> HIDE DEF q
    <3> QED
      BY <3>1, <3>2 DEF OnlineInv, TypeOK
  <2>4. ~Own /\ ~Own'
    BY <1>1, <2>1 DEF Own
  <2>5. TypeOK' /\ MetadataIsOwn' /\ Results /\ idle' \notin Files
    BY <1>2, <1>4, <2>1, <2>3 DEF OnlineInv, TypeOK, disk, MetadataIsOwn, Results
  <2>6. AtWork'
    BY <1>1, <1>2, <2>1, <2>3 DEF AtWork, Own, F, Media, Whole, disk
  <2>7. Steady /\ NodesKept /\ RowsKept
    BY <1>2, <2>3, <2>4 DEF Steady, Mine, NodesKept, RowsKept, disk
  <2>8. RowsSound
    BY <1>1, <2>2, <2>3, <2>4 DEF RowsSound, Mine
  <2>9. \A n \in Names : archive'[n].s # "rotten local" /\ local'[n].s # "rotten archive"
    BY <1>2 DEF OnlineInv, Shelved, disk
  <2> QED
    BY <1>2, <2>5, <2>6, <2>7, <2>8, <2>9, Preserved DEF disk
<1> QED
  BY <1>3, <1>4 DEF Insert

LEMMA PostStep ==
    ASSUME OnlineInv, Post
    PROVE  OnlineInv' /\ Steady
<1> DEFINE row(st) == [n |-> cur.n, h |-> cur.h, st |-> st]
<1>1. /\ pass.on /\ cur.pc = "post" /\ Media(F) /\ cur.h = Whole(card.content[F]) /\ archive[cur.n] = cur.h
      /\ cur.n \in Names /\ F \in Files /\ ~safe /\ card.content[F] \in Contents
      /\ cfg.queue => \E r \in rows : r.n = cur.n /\ r.h = cur.h
  BY AtWorkFacts DEF Post, At, OnlineInv, AtWork
<1>2. UNCHANGED <<card, cfg, disk, pass, meta, safe, idle, crashes, passes, events>> /\ faults' \in Nat
  BY FaultFacts DEF Post, Kept, disk, OnlineInv, Works, Breaks
<1>3. cur.h \in Copies /\ cur.h.s = "whole" /\ ~Own
  BY <1>1, WholeFacts DEF Own
<1>4. PICK res \in {"ok", "failed"} :
          /\ Ends(res) /\ (res = "ok" => cfg.queue \/ Accepted(cur.n, cur.h))
          /\ UNCHANGED node \/ Accepted(cur.n, cur.h)
          /\ \/ UNCHANGED rows
             \/ rows' = (rows \ {row("pending")}) \cup {row("submitted")}
  BY DEF Post
<1>5. /\ cur' \in Curs /\ cur'.pc = "next"
      /\ result' \in [Files -> {"none", "ok", "skipped", "failed"}]
      /\ result'[F] = res /\ \A f \in Files \ {F} : result'[f] = result[f]
  BY <1>1, <1>4, EndsFacts DEF OnlineInv
<1>6. NodesKept /\ node' \in [Names \cup {Library} -> Copies \cup {Absent}]
  <2>1. CASE UNCHANGED node
    BY <2>1 DEF NodesKept, OnlineInv, TypeOK
  <2>2. CASE Accepted(cur.n, cur.h)
    BY <1>1, <1>3, <2>2, AcceptedFacts DEF OnlineInv
  <2> QED
    BY <1>4, <2>1, <2>2
<1>7. /\ rows' \subseteq [n : Names, h : Copies, st : {"pending", "submitted", "failed"}]
      /\ \A r \in rows' : r \in rows \/ (r.n = cur.n /\ r.h = cur.h)
      /\ RowsKept
  <2> DEFINE p == row("pending")
             q == row("submitted")
  <2>1. /\ p.n = cur.n /\ p.h = cur.h
        /\ q \in [n : Names, h : Copies, st : {"pending", "submitted", "failed"}] /\ q.n = cur.n /\ q.h = cur.h
    BY <1>1, <1>3
  <2>2. UNCHANGED rows \/ rows' = (rows \ {p}) \cup {q}
    BY <1>4
  <2> HIDE DEF p, q
  <2>3. CASE UNCHANGED rows
    BY <2>3 DEF OnlineInv, TypeOK, RowsKept
  <2>4. CASE rows' = (rows \ {p}) \cup {q}
    BY <2>1, <2>4 DEF OnlineInv, TypeOK, RowsKept
  <2> QED
    BY <2>2, <2>3, <2>4
<1>8. AtWork' /\ ~Own'
  BY <1>1, <1>2, <1>5, AtRest DEF Own
<1>9. TypeOK' /\ MetadataIsOwn' /\ idle' \notin Files
  BY <1>2, <1>5, <1>6, <1>7 DEF OnlineInv, TypeOK, MetadataIsOwn, disk
<1>10. Steady /\ RowsSound
  BY <1>1, <1>2, <1>3, <1>7, <1>8 DEF Steady, RowsSound, Mine, disk
<1>11. Results
  <2> SUFFICES ASSUME NEW f \in Files, safe' \/ result'[f] \in {"ok", "skipped"}
               PROVE  safe \/ result[f] \in {"ok", "skipped"} \/ Good(f) \/ Good(f)'
    BY DEF Results
  <2>1. CASE f # F
    BY <1>2, <1>5, <2>1
  <2>2. CASE f = F
    <3>1. res = "ok"
      BY <1>1, <1>2, <1>5, <2>2
    <3>2. Stored(card.content[f]) /\ Media(f)
      BY <1>1, <1>3, <2>2 DEF Stored, Mine
    <3>3. CASE cfg.queue
      <4>1. Registered(card.content[f])
        BY <1>1, <2>2, <3>3 DEF Registered
      <4> QED
        BY <3>2, <4>1 DEF Good
    <3>4. CASE Accepted(cur.n, cur.h)
      <4>1. PICK p \in {Library} \cup Names : node'[p] = cur.h /\ (p = Library \/ archive[p] = cur.h)
        BY <1>1, <1>3, <3>4, AcceptedFacts DEF OnlineInv
      <4>2. cur.h = Whole(card.content[f]) /\ archive' = archive /\ card' = card
        BY <1>1, <1>2, <2>2 DEF disk
      <4>3. p \in Known(Whole(card.content[f]))'
        BY <1>6, <4>1, <4>2 DEF Known, Whole
      <4>4. Registered(card.content[f])'
        BY <1>8, <4>3 DEF Registered, Mine
      <4>5. Stored(card.content[f])' /\ Media(f)'
        BY <1>1, <1>8, <2>2, <3>2, <4>2 DEF Stored, Mine, Media, Whole
      <4> QED
        BY <4>4, <4>5 DEF Good
    <3> QED
      BY <1>4, <3>1, <3>3, <3>4
  <2> QED
    BY <2>1, <2>2
<1>12. \A n \in Names : archive'[n].s # "rotten local" /\ local'[n].s # "rotten archive"
  BY <1>2 DEF OnlineInv, Shelved, disk
<1> QED
  BY <1>2, <1>6, <1>7, <1>8, <1>9, <1>10, <1>11, <1>12, Preserved DEF disk

\* What the walk knows of copies that were there before.
LEMMA OldFacts ==
    ASSUME OnlineInv, pass.on, cur.pc \in {"lookup", "hash", "verifyold"}
    PROVE  /\ ~safe /\ F \in Files /\ cur.n \in Names /\ card.content[F] \in Contents /\ Media(F) /\ ~Own
           /\ archive[cur.n] \in {Whole(card.content[F]), [c |-> card.content[F], s |-> "rotten archive"]}
           /\ local[cur.n] \in {Whole(card.content[F]), [c |-> card.content[F], s |-> "rotten local"]}
           /\ Whole(card.content[F]).s = "whole" /\ [c |-> card.content[F], s |-> "rotten archive"].s = "rotten archive"
           /\ [c |-> card.content[F], s |-> "rotten local"].s = "rotten local"
           /\ local[cur.n] \in Copies
<1>1. ~safe /\ F \in Files /\ cur.n \in Names /\ card.content[F] \in Contents
  BY AtWorkFacts
<1>2. Media(F) /\ ~Own
  BY DEF OnlineInv, AtWork, Own
<1>3. /\ archive[cur.n] \in {Whole(card.content[F]), [c |-> card.content[F], s |-> "rotten archive"]}
      /\ local[cur.n] \in {Whole(card.content[F]), [c |-> card.content[F], s |-> "rotten local"]}
  BY DEF OnlineInv, AtWork
<1>4. Whole(card.content[F]) \in Copies /\ Whole(card.content[F]).s = "whole"
  BY <1>1, WholeFacts
<1>5. /\ [c |-> card.content[F], s |-> "rotten archive"].s = "rotten archive"
      /\ [c |-> card.content[F], s |-> "rotten local"].s = "rotten local"
      /\ [c |-> card.content[F], s |-> "rotten local"] \in Copies
  BY <1>1, WrittenFacts
<1> QED
  BY <1>1, <1>2, <1>3, <1>4, <1>5

\* The walk goes on with copies that were there before.
LEMMA OldGo ==
    ASSUME OnlineInv, pass.on, cur.pc \in {"lookup", "hash", "verifyold"}, Still, UNCHANGED result,
           pass' \in Passes, pass'.on = pass.on, faults' \in Nat, cur' \in Curs, cur'.f = cur.f, cur'.n = cur.n,
           \/ cur'.pc = "hash" \/ (cur'.pc = "verifyold" /\ cur'.h = local[cur.n])
           \/ cur'.pc = "insert" /\ cur'.h = Whole(card.content[F]) /\ archive[cur.n] = cur'.h
    PROVE  OnlineInv' /\ Steady
<1>1. /\ ~safe /\ F \in Files /\ cur.n \in Names /\ Media(F)
      /\ archive[cur.n] \in {Whole(card.content[F]), [c |-> card.content[F], s |-> "rotten archive"]}
      /\ local[cur.n] \in {Whole(card.content[F]), [c |-> card.content[F], s |-> "rotten local"]}
  BY OldFacts
<1>2. archive' = archive /\ local' = local /\ card' = card /\ safe' = safe
  BY DEF Still, disk
<1>3. AtWork' /\ ~Own'
  BY <1>1, <1>2 DEF AtWork, Own, F, Media, Whole
<1> QED
  BY <1>3, QuietGo DEF Still

LEMMA LookupStep ==
    ASSUME OnlineInv, Lookup
    PROVE  OnlineInv' /\ Steady
<1>1. pass.on /\ cur.pc = "lookup"
  BY DEF Lookup, At
<1>2. Still /\ faults' \in Nat /\ pass' \in Passes /\ pass'.on = pass.on
  BY FaultFacts DEF Lookup, Kept, Still, disk, OnlineInv, TypeOK
<1>3. F \in Files /\ cur.n \in Names /\ Media(F) /\ ~Own
  BY <1>1, OldFacts
<1>4. CASE Ends("failed")
  BY <1>2, <1>3, <1>4, QuietEnd DEF Still
<1>5. CASE RegisteredByRow(cur.n) /\ Ends("skipped")
  <2>1. PICK r \in rows : r.n = cur.n
    BY <1>5 DEF RegisteredByRow
  <2>2. archive[cur.n] = r.h /\ r.h.s = "whole"
    BY <2>1 DEF OnlineInv, Shelved
  <2>3. archive[cur.n] = Whole(card.content[F])
    BY <1>1, <2>2, OldFacts
  <2>4. Good(F)
    BY <1>3, <2>2, <2>3 DEF Good, Stored, Registered, Mine
  <2> QED
    BY <1>2, <1>3, <1>5, <2>4, QuietEnd DEF Still
<1>6. CASE Go("hash") /\ UNCHANGED result
  <2>1. cur' \in Curs /\ cur'.f = cur.f /\ cur'.pc = "hash" /\ cur'.n = cur.n
    BY <1>6, GoFacts DEF OnlineInv, Steps
  <2> QED
    BY <1>1, <1>2, <1>6, <2>1, OldGo
<1> QED
  BY <1>4, <1>5, <1>6 DEF Lookup

LEMMA HashStep ==
    ASSUME OnlineInv, HashLocal
    PROVE  OnlineInv' /\ Steady
<1>1. pass.on /\ cur.pc = "hash"
  BY DEF HashLocal, At
<1>2. Still /\ faults' \in Nat
  BY FaultFacts DEF HashLocal, Kept, Still, disk, OnlineInv, Works, Breaks
<1>3. pass' \in Passes /\ pass'.on = pass.on
  <2>1. \/ UNCHANGED pass \/ pass' = [pass EXCEPT !.dedup = "unavailable"]
        \/ pass' = [pass EXCEPT !.dedup = IF cfg.old THEN "full only" ELSE @]
    BY DEF HashLocal
  <2>2. pass.dedup \in {"ask", "full only", "unavailable"}
    BY CurParts DEF OnlineInv
  <2>3. UNCHANGED pass \/ \E d \in {"ask", "full only", "unavailable"} : pass' = [pass EXCEPT !.dedup = d]
    <3>1. CASE pass' = [pass EXCEPT !.dedup = IF cfg.old THEN "full only" ELSE @]
      <4> DEFINE d == IF cfg.old THEN "full only" ELSE pass.dedup
      <4>1. d \in {"ask", "full only", "unavailable"}
        BY <2>2
      <4>2. pass' = [pass EXCEPT !.dedup = d]
        BY <3>1 DEF OnlineInv, TypeOK, Passes
      <4> QED
        BY <4>1, <4>2
    <3> QED
      BY <2>1, <3>1
  <2> QED
    BY <2>3, DedupFacts DEF OnlineInv, TypeOK
<1>4. F \in Files /\ cur.n \in Names /\ Media(F) /\ ~Own /\ local[cur.n] \in Copies
  BY <1>1, OldFacts
<1>5. CASE Ends("failed")
  BY <1>2, <1>3, <1>4, <1>5, QuietEnd DEF Still
<1>6. CASE Known(local[cur.n]) # {} /\ Ends("skipped")
  <2>1. PICK p \in Known(local[cur.n]) : TRUE
    BY <1>6
  <2>2. local[cur.n].s # "rotten local"
    BY <2>1 DEF Known, OnlineInv, Shelved, TypeOK
  <2>3. local[cur.n] = Whole(card.content[F])
    BY <1>1, <2>2, OldFacts
  <2>4. ~Mine(p) /\ p \in Known(Whole(card.content[F]))
    BY <1>4, <2>1, <2>3 DEF Mine
  <2>5. Good(F)
    BY <1>4, <2>4, KnownIsGood
  <2> QED
    BY <1>2, <1>3, <1>4, <1>6, <2>5, QuietEnd DEF Still
<1>7. CASE cur' = [cur EXCEPT !.h = local[cur.n], !.pc = "verifyold"] /\ UNCHANGED result
  <2>1. cur' \in Curs /\ cur'.f = cur.f /\ cur'.pc = "verifyold" /\ cur'.n = cur.n /\ cur'.h = local[cur.n]
    BY <1>4, <1>7 DEF OnlineInv, TypeOK, Curs, Steps
  <2> QED
    BY <1>1, <1>2, <1>3, <1>7, <2>1, OldGo
<1> QED
  BY <1>5, <1>6, <1>7 DEF HashLocal

LEMMA VerifyOldStep ==
    ASSUME OnlineInv, VerifyOld
    PROVE  OnlineInv' /\ Steady
<1>1. pass.on /\ cur.pc = "verifyold" /\ cur.h = local[cur.n]
  BY DEF VerifyOld, At, OnlineInv, AtWork
<1>2. Still /\ faults' \in Nat /\ pass' \in Passes /\ pass'.on = pass.on
  BY FaultFacts DEF VerifyOld, Kept, Still, disk, OnlineInv, Works, TypeOK
<1>3. F \in Files
  BY <1>1, OldFacts
<1>4. CASE Ends("failed")
  BY <1>2, <1>3, <1>4, QuietEnd DEF Still
<1>5. CASE ArchiveMatches(cur.n, cur.h) /\ Go("insert") /\ UNCHANGED result
  <2>1. cur' \in Curs /\ cur'.f = cur.f /\ cur'.pc = "insert" /\ cur'.n = cur.n /\ cur'.h = cur.h
    BY <1>5, GoFacts DEF OnlineInv, Steps
  <2>2. archive[cur.n] = local[cur.n]
    BY <1>1, <1>5 DEF ArchiveMatches
  <2>3. cur.h = Whole(card.content[F]) /\ archive[cur.n] = cur.h
    BY <1>1, <2>2, OldFacts
  <2> QED
    BY <1>1, <1>2, <1>5, <2>1, <2>3, OldGo
<1> QED
  BY <1>4, <1>5 DEF VerifyOld

-----------------------------------------------------------------------------
(* The theorems *)

LEMMA InitOnline == Init => OnlineInv
<1> SUFFICES ASSUME Init PROVE OnlineInv
  OBVIOUS
<1>1. PICK l \in {Absent} \cup {Whole(c) : c \in Contents} : node = [p \in Names \cup {Library} |-> IF p = Library THEN l ELSE Absent]
  BY DEF Init
<1>2. l \in Copies \cup {Absent} /\ l.s # "rotten local"
  <2>1. Absent.s = "absent"
    BY CopyFacts
  <2>2. \A c \in Contents : Whole(c) \in Copies /\ Whole(c).s = "whole"
    BY WholeFacts
  <2> QED
    BY <2>1, <2>2
<1>3. cur.pc = "next" /\ cur \in Curs /\ pass \in Passes /\ ~pass.on /\ ~safe /\ idle = "no process"
  BY NoCurFacts, NoPassFacts DEF Init
<1>4. TypeOK
  BY <1>1, <1>2, <1>3, Bounds DEF Init, TypeOK
<1>5. AtWork
  BY <1>3 DEF AtWork, Own
<1>6. Shelved
  BY <1>1, <1>2, CopyFacts DEF Init, Shelved
<1>7. Settled
  BY <1>3 DEF Init, Settled
<1>8. MetadataIsOwn /\ idle \notin Files
  BY <1>3, Bounds DEF Init, MetadataIsOwn
<1> QED
  BY <1>4, <1>5, <1>6, <1>7, <1>8 DEF OnlineInv

LEMMA NextOnline ==
    ASSUME OnlineInv, Next
    PROVE  OnlineInv' /\ Steady
BY ScanStep, OtherUserStep, DrainStep, StartStep, StopStep, EndStep, NextFileStep, ExifStep, ResolveStep,
   CreateArchiveStep, CreateLocalStep, DualWriteStep, PrescreenStep, ConfirmStep, RemoveStep, VerifyStep,
   InsertStep, PostStep, LookupStep, HashStep, VerifyOldStep, CrashStep
DEF Next

LEMMA StutterOnline ==
    ASSUME OnlineInv, UNCHANGED vars
    PROVE  OnlineInv'
<1>1. UNCHANGED <<card, cfg, disk, rows, node, pass, cur, result, meta, safe, idle, faults, crashes, passes, events>>
  BY DEF vars, walk, bounds
<1>2. archive' = archive /\ local' = local /\ foreign' = foreign
  BY <1>1 DEF disk
<1>3. TypeOK'
  BY <1>1, <1>2 DEF OnlineInv, TypeOK
<1>4. Steady /\ NodesKept /\ RowsKept
  BY <1>1, <1>2 DEF Steady, Mine, Own, NodesKept, RowsKept
<1>5. AtWork'
  BY <1>1, <1>2, <1>3, <1>4, AtWorkSame
<1>6. Results /\ MetadataIsOwn' /\ idle' \notin Files /\ (Own' => Own /\ cur'.n = cur.n)
  BY <1>1 DEF OnlineInv, Results, MetadataIsOwn, Own
<1> QED
  BY <1>1, <1>3, <1>5, <1>6, Quiet

\* The invariant of online ingest: what a file that went well relies on is
\* never a copy that the walk may still remove.
THEOREM OnlineInvariant == Spec => []OnlineInv
<1>1. OnlineInv /\ [Next]_vars => OnlineInv'
  BY NextOnline, StutterOnline
<1> QED
  BY InitOnline, <1>1, PTL DEF Spec

\* IngestCard's verdict "safe to eject" is true of every file of the card.
THEOREM OnlineWipeSafety == Spec => []OnlineSafeToWipe
<1>1. OnlineInv => OnlineSafeToWipe
  BY DEF OnlineInv, Settled, OnlineSafeToWipe, Stored
<1> QED
  BY <1>1, OnlineInvariant, PTL

\* After such a walk every media file is recorded in queue.db or known to the
\* server, by a node whose file is there.
THEOREM RegistrationSafety == Spec => []OnlineRegistered
<1>1. OnlineInv => OnlineRegistered
  BY DEF OnlineInv, Settled, OnlineRegistered, Registered
<1> QED
  BY <1>1, OnlineInvariant, PTL

\* Pool.Execute never hands a file the metadata of another one.
THEOREM MetadataSafety == Spec => []MetadataIsOwn
<1>1. OnlineInv => MetadataIsOwn
  BY DEF OnlineInv
<1> QED
  BY <1>1, OnlineInvariant, PTL

\* createExclusive and the clean-ups never touch a file of somebody else.
THEOREM OthersSafety == Spec => OthersUntouched
<1>1. OnlineInv /\ [Next]_vars => [\A n \in foreign : archive'[n] = archive[n]]_vars
  <2> SUFFICES ASSUME OnlineInv, Next, NEW n \in foreign PROVE archive'[n] = archive[n]
    OBVIOUS
  <2>1. Steady
    BY NextOnline
  <2>2. n \in Names /\ archive[n] # Absent /\ ~Mine(n)
    BY DEF OnlineInv, TypeOK, Shelved, AtWork, Mine
  <2> QED
    BY <2>1, <2>2 DEF Steady
<1> QED
  BY <1>1, OnlineInvariant, PTL DEF Spec, OthersUntouched

=============================================================================
