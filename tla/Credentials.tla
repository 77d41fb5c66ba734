---------------------------- MODULE Credentials ----------------------------
(***************************************************************************)
(* Settings, pairing and rotated API keys (cmd settings.go, pair.go,       *)
(* deeplinkpair.go; internal/config; internal/branchdam client.go,         *)
(* keyrotation.go; internal/tray deeplink.go).  config.yaml is written by  *)
(* every save, by pairing, and by any client of the server that is handed  *)
(* a new key by a handshake.  A save reloads the file and replaces the     *)
(* client, while goroutines go on with the one they took.                  *)
(*                                                                         *)
(* Keys are numbered as the server hands them out; Paired is the key of    *)
(* another server, to which the agent may be paired.                       *)
(***************************************************************************)
EXTENDS Integers, FiniteSets

CONSTANTS
    Workers,       \* goroutines that talk to the server (drain, ingest, probe)
    Savers,        \* goroutines that save settings (window, menu)
    Link,          \* the goroutine that works through deep links
    Clients,       \* bound: clients in use at a time
    MaxRotations,  \* bound: keys handed out
    Budgets        \* bound: the [rotations, cancels, saves, mishaps] a behaviour may spend;
                   \* saves are saves, reloads and pairings, mishaps faults, hand edits and crashes

ASSUME CredentialsAssumption ==
    /\ IsFiniteSet(Clients) /\ Clients # {}
    /\ Workers \cap Savers = {} /\ Link \notin Workers \cup Savers
    /\ "free" \notin Workers \cup Savers \cup {Link}      \* Free below
    /\ MaxRotations \in Nat
    /\ Budgets \subseteq [rotations : 0..MaxRotations, cancels : Nat, saves : Nat, mishaps : Nat]

Menus   == Savers \cup {Link}
Threads == Workers \cup Menus
Paired  == 0
NoKey   == -1
Keys    == 0..(MaxRotations + 1)
Opts    == {"a", "b"}            \* settings that Validate accepts
Values  == Opts \cup {"rejected"}
Flaws  == {"none", "value", "yaml"}    \* of config.yaml: a value is not accepted, or it is no YAML
Free    == "free"

VARIABLES
    file,       \* config.yaml: [key, srv, opt, bad], bad being one of Flaws
    edited,     \* a hand edit that no reload has read
    cfg,        \* configSettings.cfg: [srv, opt]
    saveMu,
    patchMu, snap,      \* who rewrites config.yaml, and what each has read of it
    current, pending,   \* the server: the key in force, the one to be handed out
    past,               \* history: a key was "withdrawn" before its first use, another one
                        \* "overtaken" while it was adopted, the agent "restarted",
                        \* something was "saved"
    client,             \* of every client [srv, key, new, old, restore, refused, adoptMu]
    engine, drainer,    \* the clients installed
    pc, req,    \* of every thread its place, and its request [c, kind, key, tries, ok, offer]
    job,        \* what a thread saves: [kind, opt], then what it has loaded
    link,       \* deepLinkQueue: [has, running]
    left        \* what is left of the bounds

sys  == <<current, pending, past>>
conf == <<cfg, saveMu, edited, engine, drainer>>
disk == <<file, patchMu, snap>>
vars == <<disk, conf, sys, client, pc, req, job, link, left>>

First     == CHOOSE c \in Clients : TRUE
Fresh(f)  == [srv |-> f.srv, key |-> f.key, new |-> NoKey, old |-> NoKey, restore |-> NoKey, refused |-> {}, adoptMu |-> Free]
NoReq     == [c |-> First, kind |-> "none", key |-> NoKey, tries |-> 0, ok |-> FALSE, offer |-> NoKey]
NoJob     == [kind |-> "none", opt |-> "a", srv |-> 1]
NoFile    == [key |-> NoKey, srv |-> 1, opt |-> "a", bad |-> "none"]

AnyKey  == Keys \cup {NoKey}
Config  == [key : AnyKey, srv : {1, 2}, opt : Opts, bad : Flaws]
Client  == [srv : {1, 2}, key : Keys, new : AnyKey, old : AnyKey, restore : AnyKey,
            refused : SUBSET Keys, adoptMu : Threads \cup {Free}]
Request == [c : Clients, kind : {"none", "handshake", "upload", "confirm"}, key : AnyKey,
            tries : {0, 1}, ok : BOOLEAN, offer : AnyKey]
Job     == [kind : {"none", "set", "reload", "pair"}, opt : Values, srv : {1, 2}]

Places == {"off", "sent", "answered", "restore", "restoring", "adopt", "persist", "persisting", "switch",
           "lock", "patch", "patching", "load", "engine", "drainer", "take", "dialog"}

TypeOK ==
    /\ file \in Config /\ file.key \in Keys /\ edited \in BOOLEAN
    /\ cfg \in [srv : {1, 2}, opt : Opts]
    /\ saveMu \in Menus \cup {Free} /\ patchMu \in Threads \cup {Free} /\ snap \in [Threads -> Config]
    /\ current \in Keys /\ pending \in AnyKey
    /\ past \subseteq {"withdrawn", "overtaken", "restarted", "saved"}
    /\ client \in [Clients -> Client] /\ {engine, drainer} \subseteq Clients
    /\ pc \in [Threads -> Places] /\ req \in [Threads -> Request] /\ job \in [Menus -> Job]
    /\ link \in [has : BOOLEAN, running : BOOLEAN]
    /\ left \in [rotations : 0..MaxRotations, cancels : Nat, saves : Nat, mishaps : Nat]

Boot(f) ==
    /\ cfg' = [srv |-> f.srv, opt |-> f.opt] /\ saveMu' = Free /\ edited' = FALSE
    /\ patchMu' = Free /\ snap' = [t \in Threads |-> NoFile]
    /\ client' = [c \in Clients |-> Fresh(f)] /\ engine' = First /\ drainer' = First
    /\ pc' = [t \in Threads |-> "off"] /\ req' = [t \in Threads |-> NoReq] /\ job' = [t \in Menus |-> NoJob]
    /\ link' = [has |-> FALSE, running |-> FALSE]

Init ==
    /\ file = [key |-> 1, srv |-> 1, opt |-> "a", bad |-> "none"] /\ edited = FALSE
    /\ cfg = [srv |-> 1, opt |-> "a"] /\ saveMu = Free /\ patchMu = Free /\ snap = [t \in Threads |-> NoFile]
    /\ current = 1 /\ pending = NoKey /\ past = {}
    /\ client = [c \in Clients |-> Fresh(file)] /\ engine = First /\ drainer = First
    /\ pc = [t \in Threads |-> "off"] /\ req = [t \in Threads |-> NoReq] /\ job = [t \in Menus |-> NoJob]
    /\ link = [has |-> FALSE, running |-> FALSE]
    /\ left \in Budgets

Spend(what) == left[what] > 0 /\ left' = [left EXCEPT ![what] = @ - 1]
Fault       == Spend("mishaps")
NoFault     == UNCHANGED left

-----------------------------------------------------------------------------
(* The server and its operator *)

C(t) == client[req[t].c]

\* An answer under way that the server has left behind, or with a key to adopt.
Unsettled(t) == C(t).srv = 1 /\ req[t].ok /\ (req[t].key # current \/ req[t].offer # NoKey)

\* A key is rotated; one that was not yet used is replaced.
Rotate ==
    /\ Spend("rotations") /\ pending' = 1 + MaxRotations - left'.rotations
    /\ past' = past \cup (IF pending = NoKey THEN {} ELSE {"withdrawn"})
                    \cup (IF \E t \in Threads : Unsettled(t) THEN {"overtaken"} ELSE {})
    /\ UNCHANGED <<disk, conf, current, client, pc, req, job, link>>

Cancel ==
    /\ pending # NoKey /\ Spend("cancels") /\ pending' = NoKey /\ past' = past \cup {"withdrawn"}
    /\ UNCHANGED <<disk, conf, current, client, pc, req, job, link>>

Accepts(srv, key) == IF srv = 1 THEN key \in {current, pending} ELSE key = Paired

\* The first use of the new key revokes the old one.
Taken(srv, key) ==
    IF srv = 1 /\ key = pending THEN current' = key /\ pending' = NoKey ELSE UNCHANGED <<current, pending>>

-----------------------------------------------------------------------------
(* Client.do and Handshake *)

At(t, place) == pc[t] = place
Goes(t, place) == pc' = [pc EXCEPT ![t] = place]

\* The request is over; adoptRotation gives its lock back.
Finish(t) ==
    /\ Goes(t, IF t \in Menus THEN "engine" ELSE "off")
    /\ req' = [req EXCEPT ![t] = IF t \in Menus THEN [NoReq EXCEPT !.c = req[t].c] ELSE NoReq]

Unlocked(t, cl) == IF cl.adoptMu = t THEN [cl EXCEPT !.adoptMu = Free] ELSE cl
Put(t, cl) == client' = [client EXCEPT ![req[t].c] = cl]

\* A worker takes the client that is installed, and the key of the moment.
\* A request that offers no key is one that could be sent again, or an upload.
Begin(t, c, kind) ==
    /\ t \in Workers /\ At(t, "off") /\ c \in {engine, drainer} /\ kind \in {"handshake", "upload"}
    /\ req' = [req EXCEPT ![t] = [NoReq EXCEPT !.c = c, !.kind = kind, !.key = client[c].key]]
    /\ Goes(t, "sent") /\ UNCHANGED <<disk, conf, sys, client, job, link, left>>

\* send: an answer, or none, and then the request may have arrived.
Send(t) ==
    LET r == req[t] IN
    /\ At(t, "sent")
    /\ \/ /\ NoFault /\ Taken(C(t).srv, r.key) /\ Goes(t, "answered") /\ UNCHANGED client
          /\ req' = [req EXCEPT ![t].ok = Accepts(C(t).srv, r.key),
                                ![t].offer = IF r.kind = "handshake" /\ C(t).srv = 1 /\ r.key = current THEN pending ELSE NoKey]
       \/ /\ Fault /\ (UNCHANGED <<current, pending>> \/ Taken(C(t).srv, r.key))
          /\ Finish(t) /\ Put(t, Unlocked(t, C(t)))
    /\ UNCHANGED <<disk, conf, past, job, link>>

\* What follows an answer that needs no other request.
Rest(t, cl) ==
    IF req[t].ok /\ req[t].offer # NoKey THEN Goes(t, "adopt") /\ UNCHANGED req /\ Put(t, cl)
    ELSE Finish(t) /\ Put(t, Unlocked(t, cl))

\* observeAuth's decision: the client's new state and the key to try.
Decide(cl, key, ok) ==
    CASE cl.new # NoKey /\ key = cl.new /\ ok -> [cl |-> [cl EXCEPT !.new = NoKey, !.old = NoKey], retry |-> NoKey]
      [] cl.new # NoKey /\ key = cl.new /\ ~ok ->
            [cl |-> [cl EXCEPT !.new = NoKey, !.old = NoKey, !.refused = @ \cup {cl.new}, !.restore = cl.old,
                               !.key = IF @ = cl.new THEN cl.old ELSE @], retry |-> cl.old]
      [] ~(cl.new # NoKey /\ key = cl.new) /\ cl.restore # NoKey /\ key = cl.restore -> [cl |-> [cl EXCEPT !.restore = NoKey], retry |-> NoKey]
      [] OTHER -> [cl |-> cl, retry |-> IF ~ok /\ key # cl.key THEN cl.key ELSE NoKey]

Restoring(cl, key, ok) == ok /\ cl.restore # NoKey /\ key = cl.restore /\ key # cl.new

\* An upload cannot be sent again.
Observe(t) ==
    LET r == req[t]
        d == Decide(C(t), r.key, r.ok) IN
    /\ At(t, "answered")
    /\ \/ /\ Restoring(C(t), r.key, r.ok) /\ Goes(t, "restore") /\ Put(t, d.cl) /\ UNCHANGED req
       \/ /\ ~Restoring(C(t), r.key, r.ok) /\ d.retry \notin {NoKey, r.key} /\ r.tries = 0 /\ r.kind # "upload"
          /\ req' = [req EXCEPT ![t].key = d.retry, ![t].tries = 1] /\ Goes(t, "sent") /\ Put(t, d.cl)
       \/ /\ ~Restoring(C(t), r.key, r.ok) /\ (d.retry \in {NoKey, r.key} \/ r.tries = 1 \/ r.kind = "upload")
          /\ Rest(t, d.cl)
    /\ UNCHANGED <<disk, conf, sys, job, link, left>>

\* Variant: patches overlap.
PatchesOverlap == TRUE

PatchMuFree == patchMu = Free

\* Patch and SetRotatedAPIKey read the file and rewrite it whole, one at a time.
Rewrites == {"patch", "persist", "restore"}
Writes   == [patch |-> "patching", persist |-> "persisting", restore |-> "restoring"]

Read(t) ==
    /\ pc[t] \in Rewrites /\ PatchMuFree /\ patchMu' = t /\ snap' = [snap EXCEPT ![t] = file] /\ Goes(t, Writes[pc[t]])
    /\ UNCHANGED <<file, conf, sys, client, req, job, link, left>>

Unlock(t)      == patchMu' = Free /\ snap' = [snap EXCEPT ![t] = NoFile]
Patchable(f)   == f.bad # "yaml"
Rewritten(t, f)  == Patchable(snap[t]) /\ NoFault /\ file' = f
NotWritten(t)  == (Fault \/ (~Patchable(snap[t]) /\ NoFault)) /\ UNCHANGED file
SetKey(t, key) == Rewritten(t, [snap[t] EXCEPT !.key = key])

\* Variant: a failure is only logged.
NotArmed(cl, key) == cl

\* The key that works again is written back, outside keyMu; a failure is
\* made up for after the next request that is accepted.
Armed(cl, key) == IF cl.restore = NoKey /\ cl.key = key THEN [cl EXCEPT !.restore = key] ELSE cl

Restore(t) ==
    /\ At(t, "restoring") /\ Unlock(t)
    /\ \/ SetKey(t, req[t].key) /\ Rest(t, C(t))
       \/ NotWritten(t) /\ Rest(t, Armed(C(t), req[t].key))
    /\ UNCHANGED <<conf, sys, job, link>>

\* adoptRotation: one at a time, no key refused before, none sealed with a
\* key that the client no longer uses.
MayAdopt(cl, used, offer) == cl.adoptMu = Free /\ offer \notin cl.refused /\ cl.key = used /\ cl.new = NoKey

\* The server may not have been able to seal the key for this one.
OpenRotatedKey(offer) == {offer, NoKey}

Adopt(t) ==
    /\ At(t, "adopt")
    /\ \E key \in OpenRotatedKey(req[t].offer) :
          LET may == key # NoKey /\ MayAdopt(C(t), req[t].key, key) IN
          \/ may /\ Put(t, [C(t) EXCEPT !.adoptMu = t]) /\ Goes(t, "persist") /\ UNCHANGED req
          \/ ~may /\ Finish(t) /\ UNCHANGED client
    /\ UNCHANGED <<disk, conf, sys, job, link, left>>

Persist(t) ==
    /\ At(t, "persisting") /\ Unlock(t)
    /\ \/ SetKey(t, req[t].offer) /\ Goes(t, "switch") /\ UNCHANGED <<client, req>>
       \/ NotWritten(t) /\ Finish(t) /\ Put(t, Unlocked(t, C(t)))
    /\ UNCHANGED <<conf, sys, job, link>>

\* The switch, and the handshake that confirms it.  Nobody else changes the
\* key of a client while its adoptMu is held and no new key is on trial.
Switch(t) ==
    LET r == req[t] IN
    /\ At(t, "switch") /\ C(t).key = r.key
    /\ Put(t, [C(t) EXCEPT !.key = r.offer, !.new = r.offer, !.old = r.key]) /\ Goes(t, "sent")
    /\ req' = [req EXCEPT ![t] = [NoReq EXCEPT !.c = r.c, !.kind = "confirm", !.key = r.offer]]
    /\ UNCHANGED <<disk, conf, sys, job, link, left>>

-----------------------------------------------------------------------------
(* configSettings: saves, pairing, reload *)

\* A setter, Reload or Pair, from the window or the menu.
Want(t, kind, opt) ==
    /\ t \in Savers /\ At(t, "off") /\ Spend("saves") /\ past' = past \cup {"saved"}
    /\ job' = [job EXCEPT ![t] = [kind |-> kind, opt |-> opt, srv |-> 1]] /\ Goes(t, "lock")
    /\ UNCHANGED <<disk, conf, current, pending, client, req, link>>

WantSet(t, opt) == Want(t, "set", opt)
WantReload(t)   == Want(t, "reload", "a")
WantPair(t)     == Want(t, "pair", "a")

\* Variant: every save goes its own way.
SavesOverlap == TRUE

SaveMuFree == saveMu = Free

Done(t) ==
    /\ Goes(t, IF t = Link THEN "take" ELSE "off") /\ saveMu' = Free
    /\ job' = [job EXCEPT ![t] = NoJob] /\ req' = [req EXCEPT ![t] = NoReq]

\* The key must be settable and the configuration sound with the new value;
\* credentials are tried on their server.
validateChange(kind, opt) == kind # "set" \/ opt \in Opts
Hello(kind) == IF kind = "pair" THEN BOOLEAN ELSE {TRUE}

\* All of it in memory, before the file is touched.
Validate(t) ==
    /\ At(t, "lock") /\ SaveMuFree
    /\ \E ok \in Hello(job[t].kind) :
          LET valid == ok /\ validateChange(job[t].kind, job[t].opt) IN
          \/ valid /\ saveMu' = t /\ Goes(t, IF job[t].kind = "reload" THEN "load" ELSE "patch") /\ UNCHANGED <<req, job>>
          \/ ~valid /\ Done(t)
    /\ UNCHANGED <<disk, cfg, edited, engine, drainer, sys, client, link, left>>

PairedWith(f) == [f EXCEPT !.key = Paired, !.srv = 2]

Patch(t) ==
    /\ At(t, "patching") /\ Unlock(t)
    /\ \/ /\ Rewritten(t, IF job[t].kind = "pair" THEN PairedWith(snap[t]) ELSE [snap[t] EXCEPT !.opt = job[t].opt])
          /\ Goes(t, "load") /\ UNCHANGED <<saveMu, req, job>>
       \/ NotWritten(t) /\ Done(t)
    /\ UNCHANGED <<cfg, edited, engine, drainer, sys, client, link>>

InUse == {engine, drainer} \cup {req[t].c : t \in {u \in Threads : pc[u] # "off"}}

\* Load and Validate: a file that the agent can go on with.
firstBlockingProblem(f) == f.bad # "none" \/ f.opt \notin Opts

\* resolveServerConfig: a new client, and its handshake.
Connect(t, f) ==
    \E c \in Clients \ InUse :
        /\ client' = [client EXCEPT ![c] = Fresh(f)] /\ Goes(t, "sent")
        /\ req' = [req EXCEPT ![t] = [NoReq EXCEPT !.c = c, !.kind = "handshake", !.key = f.key]]

Load(t) ==
    /\ At(t, "load")
    /\ \/ firstBlockingProblem(file) /\ Done(t) /\ UNCHANGED <<client, edited>>
       \/ /\ ~firstBlockingProblem(file) /\ edited' = FALSE /\ Connect(t, file)
          /\ job' = [job EXCEPT ![t].opt = file.opt, ![t].srv = file.srv] /\ UNCHANGED saveMu
    /\ UNCHANGED <<disk, cfg, engine, drainer, sys, link, left>>

InstallEngine(t) ==
    /\ At(t, "engine") /\ cfg' = [srv |-> job[t].srv, opt |-> job[t].opt] /\ engine' = req[t].c /\ Goes(t, "drainer")
    /\ UNCHANGED <<disk, saveMu, edited, drainer, sys, client, req, job, link, left>>

InstallDrainer(t) ==
    /\ At(t, "drainer") /\ drainer' = req[t].c /\ Done(t)
    /\ UNCHANGED <<disk, cfg, edited, engine, sys, client, link, left>>

\* Another process writes config.yaml: an editor, or a pairing command.  Not
\* at the instant of a patch, for patchMu does not reach it.
Elsewhere(f) ==
    /\ patchMu = Free /\ file' = f /\ edited' = TRUE
    /\ UNCHANGED <<patchMu, snap, cfg, saveMu, engine, drainer, current, pending, client, pc, req, job, link>>

HandEdit(opt, bad) == Spend("mishaps") /\ Elsewhere([file EXCEPT !.opt = opt, !.bad = bad]) /\ UNCHANGED past

PairCommand ==
    /\ ~firstBlockingProblem(file) /\ Spend("saves") /\ Elsewhere(PairedWith(file)) /\ past' = past \cup {"saved"}

-----------------------------------------------------------------------------
(* Deep links *)

\* submitDeepLink: the latest link waits, one goroutine asks about it.
SubmitLink ==
    /\ Spend("saves") /\ past' = past \cup {"saved"} /\ link' = [has |-> TRUE, running |-> TRUE]
    /\ pc' = IF link.running THEN pc ELSE [pc EXCEPT ![Link] = "take"]
    /\ UNCHANGED <<disk, conf, current, pending, client, req, job>>

\* Variant: the goroutine ends and is still taken to run.
StaysRunning == UNCHANGED link

EndsRunning == link' = [link EXCEPT !.running = FALSE]

TakeLink ==
    /\ At(Link, "take")
    /\ \/ link.has /\ link' = [link EXCEPT !.has = FALSE] /\ Goes(Link, "dialog")
       \/ ~link.has /\ EndsRunning /\ Goes(Link, "off")
    /\ UNCHANGED <<disk, conf, sys, client, req, job, left>>

\* A link that started a process of its own is handed to the tray, or
\* settled there when no tray answers.
DeepLinkCommand == SubmitLink \/ PairCommand

ConfirmLink ==
    /\ At(Link, "dialog")
    /\ \/ job' = [job EXCEPT ![Link] = [kind |-> "pair", opt |-> "a", srv |-> 1]] /\ Goes(Link, "lock")
       \/ UNCHANGED job /\ Goes(Link, "take")
    /\ UNCHANGED <<disk, conf, sys, client, req, link, left>>

\* The agent dies and is started again, with a file that it can read.
Crash ==
    /\ ~firstBlockingProblem(file) /\ Spend("mishaps") /\ Boot(file) /\ past' = past \cup {"restarted"}
    /\ UNCHANGED <<file, current, pending>>

Step(t) ==
    \/ Send(t) \/ Observe(t) \/ Read(t) \/ Restore(t) \/ Adopt(t) \/ Persist(t) \/ Switch(t)
    \/ t \in Menus /\ (Validate(t) \/ Patch(t) \/ Load(t) \/ InstallEngine(t) \/ InstallDrainer(t))

Next ==
    \/ Rotate \/ Cancel
    \/ \E t \in Workers, c \in Clients, kind \in {"handshake", "upload"} : Begin(t, c, kind)
    \/ \E t \in Savers : WantReload(t) \/ WantPair(t) \/ \E opt \in Values : WantSet(t, opt)
    \/ PairCommand \/ DeepLinkCommand
    \/ \E opt \in Opts, bad \in Flaws : HandEdit(opt, bad)
    \/ \E t \in Threads : Step(t)
    \/ TakeLink \/ ConfirmLink \/ Crash

Spec == Init /\ [][Next]_vars

\* The workers go on, and their timers come round.
Fairness == \A t \in Workers : WF_vars(Step(t) \/ \E c \in Clients, kind \in {"handshake", "upload"} : Begin(t, c, kind))

FairSpec == Spec /\ Fairness

-----------------------------------------------------------------------------
(* Properties *)

\* At every instant, and so after any crash, the stored key is one that the
\* stored server accepts: a rotated key is stored before its first use
\* revokes the old one, and no save that rewrites config.yaml at the time
\* loses it (adoptRotation, patchLocked).  Unless the server took a key back,
\* or rotated once more while an earlier key was still being adopted.
StoredKeyLives ==
    file.srv = 1 /\ past \cap {"withdrawn", "overtaken"} = {} => Accepts(1, file.key)

\* What KeyPersister says of it: a rotated key is stored so that a restart
\* comes back on it, however fast the rotations follow each other.
RestartsOnIt == file.srv = 1 /\ "withdrawn" \notin past => Accepts(1, file.key)

Saving(t) == pc[t] \notin {"off", "lock", "take", "dialog"}

\* When no save is under way, the settings in memory, the engine and the
\* drainer are those of config.yaml, except for what was edited by hand and
\* not loaded (saveMu, reload).
SavedIsLive ==
    (\A t \in Menus : ~Saving(t)) /\ ~edited =>
        /\ cfg = [srv |-> file.srv, opt |-> file.opt]
        /\ engine = drainer /\ client[engine].srv = file.srv

Undisturbed == past \subseteq {"withdrawn"} /\ Patchable(file)

\* A key taken back before its first use is given up for the one it was to
\* replace, also in the file, as long as the agent goes on with the client
\* that knows of it and the file can be patched (observeAuth).
EventuallyRestored == ("withdrawn" \in past /\ Undisturbed) ~> (~Undisturbed \/ Accepts(1, file.key))

\* No deep link is left waiting: the goroutine that works through them ends
\* only when none waits, and whoever finds it ended begins it (submitDeepLink).
NoLinkStranded == link.has => pc[Link] # "off"

-----------------------------------------------------------------------------
(* Why it holds: an invariant that every step preserves *)

Asking   == {"sent", "answered", "restore", "restoring", "adopt", "persist", "persisting", "switch"}
Adopting == {"adopt", "persist", "persisting", "switch"}
Writing  == {"patching", "persisting", "restoring"}

\* Requests, jobs and clients have what their place needs.
Equipped ==
    /\ \A t \in Threads :
          /\ pc[t] \in Asking => req[t].key \in Keys
          /\ pc[t] \in Adopting => req[t].offer \in Keys
          /\ pc[t] \notin Asking => req[t].key = NoKey
          /\ pc[t] \notin Asking \ {"sent"} => ~req[t].ok
          /\ ~req[t].ok => req[t].offer = NoKey
    /\ \A t \in Menus : pc[t] \in Asking \cup {"patch", "patching", "engine", "drainer"} => job[t].opt \in Opts
    /\ \A t \in Menus : job[t].kind # "set" => job[t].opt \in Opts
    /\ \A c \in Clients : client[c].new # NoKey => client[c].old \in Keys

\* saveMu is held by the goroutine that saves, patchMu by the one that has
\* read config.yaml to rewrite it, and nobody else writes it meanwhile.
Locked ==
    /\ \A t \in Menus : Saving(t) <=> saveMu = t
    /\ \A t \in Threads : pc[t] \in Writing <=> patchMu = t
    /\ \A t \in Threads : patchMu = t => snap[t] = file

LinkInv == (link.running <=> pc[Link] # "off") /\ (link.has => link.running)

\* A reload goes through: what it has loaded, it installs.
Loaded == Asking \cup {"engine", "drainer"}
SaveInv ==
    /\ file.bad # "none" => edited
    /\ (\A t \in Menus : pc[t] # "drainer") => engine = drainer
    /\ (\A t \in Menus : pc[t] \notin Loaded \cup {"load"}) /\ ~edited =>
          cfg = [srv |-> file.srv, opt |-> file.opt] /\ client[engine].srv = file.srv
    /\ \A t \in Menus : pc[t] \in Loaded =>
          /\ client[req[t].c].srv = job[t].srv
          /\ ~edited => job[t].srv = file.srv /\ job[t].opt = file.opt
    /\ \A t \in Menus : pc[t] = "drainer" => engine = req[t].c /\ cfg = [srv |-> job[t].srv, opt |-> job[t].opt]

\* The keys known anywhere, and which of them the server may still take.
HasSeen(c) == {client[c].key, client[c].new, client[c].old, client[c].restore} \cup client[c].refused
Carries(t) == {req[t].key, req[t].offer}
Known == {k \in AnyKey : k = file.key \/ (\E c \in Clients : k \in HasSeen(c)) \/ (\E t \in Threads : k \in Carries(t))}
Kept  == past \cap {"withdrawn", "overtaken"} = {}

KeyOrder ==
    /\ current <= 1 + MaxRotations - left.rotations
    /\ pending # NoKey => pending = 1 + MaxRotations - left.rotations /\ current < pending

\* Nobody offers a key of another server, or to a client of another server.
OfferInv ==
    /\ \A t \in Threads : req[t].offer # NoKey => req[t].ok /\ C(t).srv = 1 /\ req[t].key < req[t].offer
    /\ \A c \in Clients : client[c].new # NoKey => client[c].srv = 1 /\ client[c].old < client[c].new

InForce == IF pending = NoKey THEN current ELSE pending

\* What a thread has been told, and by which key: an offer is the key to come,
\* a key that was refused is a revoked one, and one that was accepted and has
\* been revoked since is the last before the one in force.  No key comes back
\* to life, and so none is written back.
Told(t) ==
    /\ req[t].offer # NoKey => req[t].offer = InForce
    /\ pc[t] = "answered" /\ ~req[t].ok /\ C(t).srv = 1 => req[t].key < current
    /\ req[t].ok /\ C(t).srv = 1 => \/ req[t].key \in {current, pending}
                                    \/ pending = NoKey /\ \A k \in Known : k <= req[t].key \/ k >= current
    /\ pc[t] \notin {"restore", "restoring"}

GivenUp(c) == client[c].restore # NoKey => client[c].srv = 1 /\ \E k \in client[c].refused : client[c].restore < k /\ k < current

\* A key that is not stored is not used.
Unstored == pending # NoKey /\ file.srv = 1 /\ file.key # pending
Unused ==
    /\ \A c \in Clients : client[c].key # pending /\ client[c].old # pending
    /\ \A t \in Threads : req[t].key # pending /\ (pc[t] = "switch" => req[t].offer # pending)

KeyInv ==
    /\ file.srv = 1 => file.key \in {current, pending}
    /\ \A k \in Known : k <= current \/ k = pending
    /\ \A t \in Threads : Told(t)
    /\ \A c \in Clients : GivenUp(c)
    /\ Unstored => Unused

SaveBase == TypeOK /\ Equipped /\ Locked /\ LinkInv /\ SaveInv
CredInv  == SaveBase /\ KeyOrder /\ OfferInv /\ (Kept => KeyInv)
=============================================================================
