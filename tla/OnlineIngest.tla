---------------------------- MODULE OnlineIngest ----------------------------
(***************************************************************************)
(* Online ingest (internal/ingest/ingest.go, writer.go, verify.go,         *)
(* filter.go, cancel.go; internal/exiftool; cmd ingest.go): a walk over a  *)
(* card copies every file to archive and edit disk in one read, asks the   *)
(* server whether it has the content, reads both copies back and registers *)
(* the file, through queue.db when there is one.  A walk may be stopped    *)
(* between files, cut anywhere, or die; the next one finds what it left.   *)
(*                                                                         *)
(* A copy is what was written of which content; equal copies have equal    *)
(* hashes.  Names are a rendered base and a collision suffix.              *)
(***************************************************************************)
EXTENDS Integers, FiniteSets

CONSTANTS
    Files, Bases, Contents,
    Cards,       \* cards to consider: of every file its content, base, stem and kind
    Configs,     \* [queue, unbuffered, old]: a queue.db, unbuffered verify required, an old server
    MaxSuffix,   \* bound: collision suffixes
    MaxFaults,   \* bound: operations that fail or go wrong
    MaxCrashes,  \* bound: deaths of the agent
    MaxPasses,   \* bound: ingests of the card
    MaxEvents    \* bound: stops, cuts, scans by the server, files of other users

Kinds == {"media", "sidecar", "filtered", "unreadable"}

ASSUME OnlineAssumption ==
    /\ IsFiniteSet(Files) /\ Files \cap {"no process", "clean"} = {}
    /\ Configs \subseteq [queue : BOOLEAN, unbuffered : BOOLEAN, old : BOOLEAN]
    /\ {MaxSuffix, MaxFaults, MaxCrashes, MaxPasses, MaxEvents} \subseteq Nat
    /\ \A c \in Cards : /\ DOMAIN c.content = Files /\ DOMAIN c.base = Files /\ DOMAIN c.stem = Files /\ DOMAIN c.kind = Files
                        /\ \A f \in Files : c.content[f] \in Contents /\ c.base[f] \in Bases /\ c.kind[f] \in Kinds

Suffixes == 1..MaxSuffix
Names    == Bases \X Suffixes
Library  == <<"library", 0>>
NoName   == <<"none", 0>>
Absent   == [c |-> "none", s |-> "absent"]
Copies   == [c : Contents \cup {"other"}, s : {"whole", "partial", "rotten archive", "rotten local"}]
Whole(c) == [c |-> c, s |-> "whole"]
NoFile   == "nofile"
Nothing  == "nothing"

VARIABLES
    card, cfg,        \* the card; the configuration
    archive, local,   \* what is at every name
    foreign,          \* history: names at which another user put a file
    rows,             \* queue.db: [n, h, st]
    node,             \* the server's node of every path
    pass,             \* the walk: [on, todo, stop, cut, dedup, sfx]
    cur,              \* the file at work: [f, pc, n, h]
    result,           \* FileResult of every file in this walk
    meta,             \* the file whose metadata was taken for it
    idle,             \* the pooled exiftool process: unread output, if there is one
    safe,             \* the last walk ended well
    faults, crashes, passes, events   \* what is left of the bounds

disk   == <<archive, local, foreign>>
walk   == <<pass, cur, result, meta, safe>>
bounds == <<faults, crashes, passes, events>>
vars == <<card, cfg, disk, rows, node, walk, idle, bounds>>

NoPass == [on |-> FALSE, todo |-> {}, stop |-> FALSE, cut |-> FALSE, dedup |-> "ask", sfx |-> [f \in Files |-> 1]]
NoCur  == [f |-> NoFile, pc |-> "next", n |-> NoName, h |-> Absent]
Steps  == {"next", "exif", "resolve", "archive", "local", "copy", "prescreen", "confirm", "remove", "verify", "insert",
           "post", "lookup", "hash", "verifyold"}

Passes == [on : BOOLEAN, todo : SUBSET Files, stop : BOOLEAN, cut : BOOLEAN, dedup : {"ask", "full only", "unavailable"},
           sfx : [Files -> Nat]]
Curs   == [f : Files \cup {NoFile}, pc : Steps, n : Names \cup {NoName}, h : Copies \cup {Absent}]

TypeOK ==
    /\ card \in Cards /\ cfg \in Configs
    /\ archive \in [Names -> Copies \cup {Absent}] /\ local \in [Names -> Copies \cup {Absent}] /\ foreign \subseteq Names
    /\ rows \subseteq [n : Names, h : Copies, st : {"pending", "submitted", "failed"}]
    /\ node \in [Names \cup {Library} -> Copies \cup {Absent}]
    /\ pass \in Passes /\ cur \in Curs
    /\ result \in [Files -> {"none", "ok", "skipped", "failed"}] /\ meta \in [Files -> Files \cup {Nothing}]
    /\ idle \in Files \cup {"no process", "clean"} /\ safe \in BOOLEAN
    /\ {faults, crashes, passes, events} \subseteq Nat

Init ==
    /\ card \in Cards /\ cfg \in Configs
    /\ archive = [n \in Names |-> Absent] /\ local = [n \in Names |-> Absent] /\ foreign = {} /\ rows = {}
    /\ node \in {[p \in Names \cup {Library} |-> IF p = Library THEN l ELSE Absent] : l \in {Absent} \cup {Whole(c) : c \in Contents}}
    /\ pass = NoPass /\ cur = NoCur /\ result = [f \in Files |-> "none"] /\ meta = [f \in Files |-> Nothing]
    /\ idle = "no process" /\ safe = FALSE
    /\ faults = MaxFaults /\ crashes = MaxCrashes /\ passes = MaxPasses /\ events = MaxEvents

Fault   == faults > 0 /\ faults' = faults - 1
NoFault == UNCHANGED faults
Event   == events > 0 /\ events' = events - 1
Works   == NoFault /\ ~pass.cut
Breaks  == Fault \/ (NoFault /\ pass.cut)

-----------------------------------------------------------------------------
(* The server, the drain and other users *)

\* A scan of the archive indexes a file.
ServerScan(n) ==
    /\ archive[n] # Absent /\ node[n] # archive[n] /\ Event /\ node' = [node EXCEPT ![n] = archive[n]]
    /\ UNCHANGED <<card, cfg, disk, rows, walk, idle, faults, crashes, passes>>

\* The live nodes of a content.  A node whose file is gone has become MISSING
\* before the server is asked again.
Known(h) == {p \in DOMAIN node : node[p] = h /\ (p = Library \/ archive[p] = h)}

\* Content a live node has is not registered twice.
Accepted(n, h) == node' = IF Known(h) # {} THEN node ELSE [node EXCEPT ![n] = h]

\* The drain submits what is pending, or gives it up (module Drain).
DrainRow(r) ==
    /\ r.st = "pending"
    /\ \/ NoFault /\ Accepted(r.n, r.h) /\ rows' = (rows \ {r}) \cup {[r EXCEPT !.st = "submitted"]}
       \/ Fault /\ rows' = (rows \ {r}) \cup {[r EXCEPT !.st = "failed"]} /\ UNCHANGED node
    /\ UNCHANGED <<card, cfg, disk, walk, idle, crashes, passes, events>>

OtherUser(n) ==
    /\ archive[n] = Absent /\ Event /\ archive' = [archive EXCEPT ![n] = Whole("other")] /\ foreign' = foreign \cup {n}
    /\ UNCHANGED <<card, cfg, local, rows, node, walk, idle, faults, crashes, passes>>

-----------------------------------------------------------------------------
(* The walk *)

Cleared == result' = [f \in Files |-> "none"] /\ meta' = [f \in Files |-> Nothing]

StartPass ==
    /\ ~pass.on /\ passes > 0 /\ passes' = passes - 1 /\ safe' = FALSE
    /\ pass' = [NoPass EXCEPT !.on = TRUE, !.todo = Files] /\ cur' = NoCur
    /\ Cleared /\ UNCHANGED <<card, cfg, disk, rows, node, idle, faults, crashes, events>>

\* WithFileBoundaryCancel's stop, or the end of the walk's own context.
Stop ==
    /\ pass.on /\ Event
    /\ \/ pass' = [pass EXCEPT !.stop = TRUE]
       \/ pass' = [pass EXCEPT !.cut = TRUE]
    /\ UNCHANGED <<card, cfg, disk, rows, node, cur, result, meta, safe, idle, faults, crashes, passes>>

At(pc)    == pass.on /\ cur.pc = pc
F         == cur.f
Go(pc)    == cur' = [cur EXCEPT !.pc = pc]
Ends(res) == result' = [result EXCEPT ![F] = res] /\ cur' = NoCur
Kept      == UNCHANGED <<card, cfg, foreign, meta, safe, crashes, passes, events>>
Media(f)  == card.kind[f] = "media"

\* IngestSummary.OK and printIngestReport: nothing failed.
AllWell == \A f \in Files : result[f] \in {"ok", "skipped"}

\* A stop is seen at the next entry of the card, if there is one.
EndPass ==
    /\ At("next") /\ (pass.todo = {} \/ pass.stop \/ pass.cut)
    /\ pass' = NoPass
    /\ \/ safe' = (pass.todo = {} /\ AllWell)
       \/ (pass.stop \/ pass.cut) /\ safe' = FALSE
    /\ Cleared /\ UNCHANGED <<card, cfg, disk, rows, node, cur, idle, bounds>>

\* Entries that cannot be read fail, filtered ones are skipped.
NextFile ==
    /\ At("next") /\ ~pass.stop /\ ~pass.cut
    /\ \E f \in pass.todo :
          /\ pass' = [pass EXCEPT !.todo = @ \ {f}]
          /\ \/ card.kind[f] = "unreadable" /\ result' = [result EXCEPT ![f] = "failed"] /\ UNCHANGED cur
             \/ card.kind[f] = "filtered" /\ result' = [result EXCEPT ![f] = "skipped"] /\ UNCHANGED cur
             \/ card.kind[f] = "media" /\ cur' = [NoCur EXCEPT !.f = f, !.pc = "exif"] /\ UNCHANGED result
             \/ card.kind[f] = "sidecar" /\ cur' = [NoCur EXCEPT !.f = f, !.pc = "resolve"] /\ UNCHANGED result
    /\ UNCHANGED <<disk, rows, node, idle, faults>> /\ Kept

\* Variant: a process whose answer was not read goes back to the pool.
PutBack(unread) == unread

\* Execute: a process whose request ended in an error is closed.
AfterError(unread) == "no process"

\* process.execute: a process answers the request it has not answered yet.
Answer(unread, f) == IF unread \in Files THEN unread ELSE f

\* A pooled process, kept by the tray's engine from walk to walk, answers in
\* the order of the requests.  When it cannot be used a process is started
\* for this file alone; a cut walk goes without.
Exif ==
    /\ At("exif") /\ Go("resolve")
    /\ \/ ~pass.cut /\ idle' = "clean" /\ NoFault
          /\ meta' = [meta EXCEPT ![F] = Answer(idle, F)]
       \/ ~pass.cut /\ Fault /\ idle' = "no process" /\ meta' = [meta EXCEPT ![F] = F]
       \/ pass.cut /\ NoFault /\ idle' \in {idle, AfterError(F)} /\ UNCHANGED meta
    /\ UNCHANGED <<card, cfg, disk, rows, node, pass, result, safe, crashes, passes, events>>

\* filesMatch: size and samples.  A rotten media file may pass, a short one
\* does not.  Of a file as small as a sidecar the samples are all there is.
Looks(copy, f, lucky) ==
    copy.c = card.content[f] /\ (copy.s = "whole" \/ (lucky /\ Media(f) /\ copy.s \in {"rotten archive", "rotten local"}))

Same(n, f, lucky) == Looks(archive[n], f, lucky) /\ Looks(local[n], f, lucky)
Vacant(n)         == archive[n] = Absent /\ local[n] = Absent

\* ResolveDestination: the suffix a file of the same stem was given, then
\* the first name that holds this file or nothing.  (hashBudget, spent after
\* some 1,360 collisions, is never spent here.)
Usable(f, lucky)  == {k \in Suffixes : Same(<<card.base[f], k>>, f, lucky) \/ Vacant(<<card.base[f], k>>)}
ResolveDestination(f, lucky) ==
    IF pass.sfx[f] > 1 /\ pass.sfx[f] \in Usable(f, lucky) THEN {pass.sfx[f]}
    ELSE {k \in Usable(f, lucky) : \A j \in Usable(f, lucky) : k <= j}

\* The files that stemSuffix keeps together: same directory, same stem.
Stem(f) == {g \in Files : card.stem[g] = card.stem[f]}

\* The mapping to the container path is made before anything is written.
Resolve ==
    /\ At("resolve")
    /\ \E lucky \in BOOLEAN :
       LET found == ResolveDestination(F, lucky) IN
       \/ (Fault \/ (NoFault /\ found = {})) /\ Ends("failed") /\ UNCHANGED pass
       \/ \E k \in found :
             LET n == <<card.base[F], k>> IN
             /\ NoFault /\ pass' = IF k > 1 THEN [pass EXCEPT !.sfx = [g \in Files |-> IF g \in Stem(F) THEN k ELSE @[g]]] ELSE pass
             /\ \/ Vacant(n) /\ cur' = [cur EXCEPT !.pc = "archive", !.n = n] /\ UNCHANGED result
                \/ ~Vacant(n) /\ Media(F) /\ cur' = [cur EXCEPT !.pc = "lookup", !.n = n] /\ UNCHANGED result
                \/ ~Vacant(n) /\ ~Media(F) /\ Ends("skipped")
    /\ UNCHANGED <<archive, local, rows, node, idle>> /\ Kept

-----------------------------------------------------------------------------
(* A fresh copy *)

Archive(x) == archive' = [archive EXCEPT ![cur.n] = x]
Local(x)   == local' = [local EXCEPT ![cur.n] = x]

\* Variant: an existing file is opened for writing.
MayCreateOver(copy) == TRUE

\* createExclusive.
MayCreate(copy) == copy = Absent

CreateArchive ==
    /\ At("archive")
    /\ \/ NoFault /\ MayCreate(archive[cur.n]) /\ Archive([c |-> card.content[F], s |-> "partial"]) /\ Go("local") /\ UNCHANGED result
       \/ /\ (Fault \/ (NoFault /\ ~MayCreate(archive[cur.n]))) /\ Ends("failed") /\ UNCHANGED archive
    /\ UNCHANGED <<local, rows, node, pass, idle>> /\ Kept

CreateLocal ==
    /\ At("local")
    /\ \/ NoFault /\ MayCreate(local[cur.n]) /\ Local([c |-> card.content[F], s |-> "partial"]) /\ Go("copy") /\ UNCHANGED <<archive, result>>
       \/ /\ Fault /\ Archive(Absent) /\ Ends("failed") /\ UNCHANGED local
    /\ UNCHANGED <<rows, node, pass, idle>> /\ Kept

BothRemoved == Archive(Absent) /\ Local(Absent)

\* io.Copy, fsync, close; what reaches a disk may not be what was sent.
DualWrite ==
    /\ At("copy")
    /\ \/ /\ ~pass.cut /\ cur' = [cur EXCEPT !.h = Whole(card.content[F]), !.pc = IF Media(F) THEN "prescreen" ELSE "verify"]
          /\ \/ NoFault /\ Archive(Whole(card.content[F])) /\ Local(Whole(card.content[F]))
             \/ Fault /\ Archive([c |-> card.content[F], s |-> "rotten archive"]) /\ Local(Whole(card.content[F]))
             \/ Fault /\ Archive(Whole(card.content[F])) /\ Local([c |-> card.content[F], s |-> "rotten local"])
          /\ UNCHANGED result
       \/ Breaks /\ BothRemoved /\ Ends("failed")
    /\ UNCHANGED <<rows, node, pass, idle>> /\ Kept

\* checkContentDedup, the pre-screen by fast hash.  An old server answers
\* 400; a failure may end the asking for this walk.
Prescreen ==
    /\ At("prescreen")
    /\ \/ pass.dedup = "unavailable" /\ NoFault /\ Go("verify") /\ UNCHANGED pass
       \/ pass.dedup = "full only" /\ NoFault /\ Go("confirm") /\ UNCHANGED pass
       \/ pass.dedup = "ask" /\ cfg.old /\ Works /\ pass' = [pass EXCEPT !.dedup = "full only"] /\ Go("confirm")
       \/ /\ pass.dedup = "ask" /\ ~cfg.old /\ Works /\ UNCHANGED pass
          /\ Go(IF \E p \in DOMAIN node : node[p].c = cur.h.c THEN "confirm" ELSE "verify")
       \/ pass.dedup = "ask" /\ Breaks /\ Go("verify") /\ (UNCHANGED pass \/ pass' = [pass EXCEPT !.dedup = "unavailable"])
    /\ UNCHANGED <<archive, local, rows, node, result, idle>> /\ Kept

\* Variant: any live node counts.
IsDuplicateAnywhere(p) == TRUE

\* The copy just written, indexed by a scan, is no duplicate.
IsDuplicate(p) == p # cur.n

Confirm ==
    /\ At("confirm")
    /\ \/ Works /\ Known(cur.h) = {} /\ Go("verify") /\ UNCHANGED pass
       \/ \E p \in Known(cur.h) : Works /\ Go(IF IsDuplicate(p) THEN "remove" ELSE "verify") /\ UNCHANGED pass
       \/ Breaks /\ Go("verify") /\ (UNCHANGED pass \/ pass' = [pass EXCEPT !.dedup = "unavailable"])
    /\ UNCHANGED <<archive, local, rows, node, result, idle>> /\ Kept

\* removeDuplicateCopy of both; one that cannot be removed stays.
RemoveDuplicate ==
    /\ At("remove") /\ Ends("skipped")
    /\ \/ NoFault /\ BothRemoved
       \/ Fault /\ Archive(Absent) /\ UNCHANGED local
       \/ Fault /\ Local(Absent) /\ UNCHANGED archive
    /\ UNCHANGED <<rows, node, pass, idle>> /\ Kept

\* Verify of both copies, and the unbuffered read that may be required and
\* not to be had.
Verified(n, h) == archive[n] = h /\ local[n] = h

Verify ==
    /\ At("verify")
    /\ \/ /\ NoFault /\ Verified(cur.n, cur.h) /\ ~pass.cut /\ UNCHANGED <<archive, local>>
          /\ IF Media(F) THEN Go("insert") /\ UNCHANGED result ELSE Ends("skipped")
       \/ /\ (Fault \/ (NoFault /\ (cfg.unbuffered \/ pass.cut \/ ~Verified(cur.n, cur.h))))
          /\ BothRemoved /\ Ends("failed")
    /\ UNCHANGED <<rows, node, pass, idle>> /\ Kept

-----------------------------------------------------------------------------
(* registerNode *)

Insert ==
    /\ At("insert")
    /\ \/ ~cfg.queue /\ NoFault /\ Go("post") /\ UNCHANGED <<rows, result>>
       \/ cfg.queue /\ NoFault /\ rows' = rows \cup {[n |-> cur.n, h |-> cur.h, st |-> "pending"]} /\ Go("post") /\ UNCHANGED result
       \/ Fault /\ Ends("failed") /\ UNCHANGED rows
    /\ UNCHANGED <<archive, local, node, pass, idle>> /\ Kept

\* The POST and its record; the row stays pending when the record fails.  A
\* POST that fails may have been accepted.
Post ==
    LET row(st) == [n |-> cur.n, h |-> cur.h, st |-> st] IN
    /\ At("post")
    /\ \/ /\ Works /\ Accepted(cur.n, cur.h) /\ Ends("ok")
          /\ rows' = IF cfg.queue THEN (rows \ {row("pending")}) \cup {row("submitted")} ELSE rows
       \/ /\ Breaks /\ (UNCHANGED node \/ Accepted(cur.n, cur.h))
          /\ Ends(IF cfg.queue THEN "ok" ELSE "failed") /\ UNCHANGED rows
    /\ UNCHANGED <<archive, local, pass, idle>> /\ Kept

-----------------------------------------------------------------------------
(* confirmRegistered: both copies were there *)

\* Variant: the copies are taken for proof of registration.
RegisteredByFiles(n) == TRUE

RegisteredByRow(n) == cfg.queue /\ \E r \in rows : r.n = n /\ r.st # "failed"

Lookup ==
    /\ At("lookup")
    /\ \/ NoFault /\ RegisteredByRow(cur.n) /\ Ends("skipped")
       \/ NoFault /\ ~RegisteredByRow(cur.n) /\ Go("hash") /\ UNCHANGED result
       \/ cfg.queue /\ Fault /\ Ends("failed")
    /\ UNCHANGED <<archive, local, rows, node, pass, idle>> /\ Kept

\* The edit copy is read; a live node of that hash ends the matter, and the
\* server may not be able to say (serverHasLiveContent).
HashLocal ==
    /\ At("hash")
    /\ \/ /\ Works /\ pass.dedup # "unavailable"
          /\ pass' = [pass EXCEPT !.dedup = IF cfg.old THEN "full only" ELSE @]
          /\ IF Known(local[cur.n]) # {} THEN Ends("skipped")
             ELSE cur' = [cur EXCEPT !.h = local[cur.n], !.pc = "verifyold"] /\ UNCHANGED result
       \/ /\ Works /\ pass.dedup = "unavailable" /\ UNCHANGED <<pass, result>>
          /\ cur' = [cur EXCEPT !.h = local[cur.n], !.pc = "verifyold"]
       \/ /\ Fault /\ ~pass.cut /\ pass.dedup # "unavailable" /\ pass' \in {pass, [pass EXCEPT !.dedup = "unavailable"]}
          /\ cur' = [cur EXCEPT !.h = local[cur.n], !.pc = "verifyold"] /\ UNCHANGED result
       \/ Breaks /\ Ends("failed") /\ UNCHANGED pass
    /\ UNCHANGED <<archive, local, rows, node, idle>> /\ Kept

ArchiveMatches(n, h) == archive[n] = h

\* Nothing is deleted here: the copies are not this walk's.
VerifyOld ==
    /\ At("verifyold")
    /\ \/ Works /\ ArchiveMatches(cur.n, cur.h) /\ Go("insert") /\ UNCHANGED result
       \/ (Fault \/ (NoFault /\ (cfg.unbuffered \/ pass.cut \/ ~ArchiveMatches(cur.n, cur.h)))) /\ Ends("failed")
    /\ UNCHANGED <<archive, local, rows, node, pass, idle>> /\ Kept

\* The agent dies; what was being written stays as it is.
Crash ==
    /\ pass.on /\ crashes > 0 /\ crashes' = crashes - 1 /\ pass' = NoPass /\ cur' = NoCur /\ idle' = "no process"
    /\ Cleared /\ UNCHANGED <<card, cfg, disk, rows, node, safe, faults, passes, events>>

Next ==
    \/ \E n \in Names : ServerScan(n) \/ OtherUser(n)
    \/ \E r \in rows : DrainRow(r)
    \/ StartPass \/ Stop \/ EndPass \/ NextFile \/ Exif \/ Resolve
    \/ CreateArchive \/ CreateLocal \/ DualWrite \/ Prescreen \/ Confirm \/ RemoveDuplicate \/ Verify
    \/ Insert \/ Post \/ Lookup \/ HashLocal \/ VerifyOld \/ Crash

Spec == Init /\ [][Next]_vars

-----------------------------------------------------------------------------
(* Properties *)

(* IngestCard and the verdict "safe to eject": after a walk that ended     *)
(* well every file of the card is whole in the archive, or the library     *)
(* has the content, whatever earlier walks left behind.                    *)
OnlineSafeToWipe ==
    safe => \A f \in Files : card.kind[f] \in {"media", "sidecar"} =>
        \/ \E n \in Names : archive[n] = Whole(card.content[f])
        \/ Media(f) /\ node[Library] = Whole(card.content[f])

(* confirmRegistered and registerNode: after such a walk every media file  *)
(* is known to the server or recorded in queue.db for the drain.           *)
OnlineRegistered ==
    safe => \A f \in Files : Media(f) =>
        \/ \E r \in rows : r.h = Whole(card.content[f])
        \/ Known(Whole(card.content[f])) # {}

(* Pool.Execute: through cut walks and reused processes no file is named   *)
(* or registered after the metadata of another one.                        *)
MetadataIsOwn == \A f \in Files : meta[f] \in {f, Nothing}

(* createExclusive and the clean-up of DualWrite, Verify and the duplicate *)
(* check: a file that somebody else put into the archive stays as it is.   *)
OthersUntouched == [][\A n \in foreign : archive'[n] = archive[n]]_vars

-----------------------------------------------------------------------------
(* The invariant from which these follow *)

\* From its creation to its verification a copy is the walk's to remove.
Own     == cur.pc \in {"local", "copy", "prescreen", "confirm", "remove", "verify"}
Mine(n) == Own /\ n = cur.n

\* The file at work and the copies it has at its name.
AtWork ==
    /\ IF pass.on THEN ~safe ELSE cur.pc = "next"
    /\ cur.pc # "next" => F \in Files
    /\ cur.pc \notin {"next", "exif", "resolve"} => cur.n \in Names
    /\ cur.pc \in {"exif", "prescreen", "confirm", "remove", "insert", "post", "lookup", "hash", "verifyold"} => Media(F)
    /\ Own => archive[cur.n] # Absent /\ cur.n \notin foreign
    /\ cur.pc \in {"prescreen", "confirm", "remove", "verify", "insert", "post"} => cur.h = Whole(card.content[F])
    /\ cur.pc \in {"insert", "post"} => archive[cur.n] = cur.h
    /\ cur.pc = "remove" => \E p \in Known(cur.h) : p # cur.n
    /\ cur.pc = "post" /\ cfg.queue => \E r \in rows : r.n = cur.n /\ r.h = cur.h
    /\ cur.pc \in {"lookup", "hash", "verifyold"} =>
          /\ archive[cur.n] \in {Whole(card.content[F]), [c |-> card.content[F], s |-> "rotten archive"]}
          /\ local[cur.n] \in {Whole(card.content[F]), [c |-> card.content[F], s |-> "rotten local"]}
    /\ cur.pc = "verifyold" => cur.h = local[cur.n]

\* What is on the disks, in queue.db and known to the server.
Shelved ==
    /\ \A n \in Names : archive[n].s # "rotten local" /\ local[n].s # "rotten archive"
    /\ \A n \in foreign : archive[n] # Absent
    /\ \A r \in rows : archive[r.n] = r.h /\ r.h.s = "whole" /\ ~Mine(r.n)
    /\ node[Library].s # "rotten local"

Stored(c)     == \E n \in Names : archive[n] = Whole(c) /\ ~Mine(n)
Registered(c) == (\E r \in rows : r.h = Whole(c)) \/ \E p \in Known(Whole(c)) : ~Mine(p)

\* What a file that went well, and a card that did, can rely on: none of it
\* rests on a copy that may still be removed.
Settled ==
    \A f \in Files : safe \/ result[f] \in {"ok", "skipped"} =>
        /\ card.kind[f] \in {"media", "sidecar"} =>
              Stored(card.content[f]) \/ (Media(f) /\ node[Library] = Whole(card.content[f]))
        /\ Media(f) => Registered(card.content[f])

OnlineInv == TypeOK /\ AtWork /\ Shelved /\ Settled /\ MetadataIsOwn /\ idle \notin Files
=============================================================================
