------------------------- MODULE CredentialsProofs -------------------------
(***************************************************************************)
(* Proofs about Credentials: the three safety invariants that its runs     *)
(* check, from one invariant in two parts.  SaveBase is about locks, saves *)
(* and deep links; the rest of CredInv orders the keys.                    *)
(***************************************************************************)
EXTENDS Credentials, TLAPS

-----------------------------------------------------------------------------
(* Facts about the constants *)

(* The kinds of threads, and that NoKey and Free are none of the others. *)
LEMMA Kinds ==
    /\ Menus \subseteq Threads /\ Link \in Menus /\ Link \notin Workers /\ Link \notin Savers
    /\ Workers \subseteq Threads /\ Savers \subseteq Menus /\ Workers \cap Menus = {}
    /\ Free \notin Threads
    /\ NoKey \notin Keys /\ Keys \subseteq Int /\ Paired \in Keys /\ 1 \in Keys /\ MaxRotations \in Nat
    /\ \A k \in Keys : k >= 0 /\ k <= MaxRotations + 1
    /\ Opts \subseteq Values
  BY CredentialsAssumption DEF Menus, Threads, Free, NoKey, Keys, Paired, Opts, Values

(* What a thread, a job and a patch begin with. *)
LEMMA Blank ==
    /\ First \in Clients
    /\ NoReq \in Request /\ NoJob \in Job /\ NoFile \in Config
    /\ ~NoReq.ok /\ NoReq.offer = NoKey /\ NoReq.key = NoKey /\ NoReq.tries = 0
  <1>1. First \in Clients BY CredentialsAssumption DEF First
  <1>2. QED BY <1>1 DEF NoReq, Request, NoJob, Job, NoFile, Config, AnyKey, Opts, Values, Flaws

(* A new client is one. *)
LEMMA FreshType ==
    ASSUME NEW f \in Config, f.key \in Keys
    PROVE  Fresh(f) \in Client /\ Fresh(f).srv = f.srv /\ Fresh(f).key = f.key /\ Fresh(f).new = NoKey
           /\ Fresh(f).old = NoKey /\ Fresh(f).restore = NoKey /\ Fresh(f).refused = {}
  BY DEF Fresh, Client, Config, AnyKey

(* What a thread with a type has. *)
LEMMA Fields ==
    ASSUME TypeOK
    PROVE  /\ \A t \in Threads :
                 /\ pc[t] \in Places /\ req[t] \in Request /\ req[t].c \in Clients
                 /\ req[t].key \in AnyKey /\ req[t].offer \in AnyKey /\ req[t].ok \in BOOLEAN /\ req[t].tries \in {0, 1}
                 /\ req[t].kind \in {"none", "handshake", "upload", "confirm"}
                 /\ C(t) \in Client /\ snap[t] \in Config /\ C(t) = client[req[t].c]
           /\ \A c \in Clients : 
                 /\ client[c] \in Client /\ client[c].srv \in {1, 2} /\ client[c].key \in Keys
                 /\ client[c].new \in AnyKey /\ client[c].old \in AnyKey /\ client[c].restore \in AnyKey
                 /\ client[c].refused \subseteq Keys /\ client[c].adoptMu \in Threads \cup {Free}
           /\ \A t \in Menus : job[t] \in Job /\ job[t].opt \in Values /\ job[t].srv \in {1, 2}
  <1>1. ASSUME NEW t \in Threads PROVE /\ pc[t] \in Places /\ req[t] \in Request /\ snap[t] \in Config
    BY DEF TypeOK
  <1>2. ASSUME NEW c \in Clients PROVE client[c] \in Client
    BY DEF TypeOK
  <1>3. ASSUME NEW t \in Menus PROVE job[t] \in Job
    BY DEF TypeOK
  <1>4. ASSUME NEW r \in Request
        PROVE /\ r.c \in Clients /\ r.key \in AnyKey /\ r.offer \in AnyKey /\ r.ok \in BOOLEAN /\ r.tries \in {0, 1}
              /\ r.kind \in {"none", "handshake", "upload", "confirm"}
    BY DEF Request
  <1>5. ASSUME NEW cl \in Client
        PROVE /\ cl.srv \in {1, 2} /\ cl.key \in Keys /\ cl.new \in AnyKey /\ cl.old \in AnyKey
              /\ cl.restore \in AnyKey /\ cl.refused \subseteq Keys /\ cl.adoptMu \in Threads \cup {Free}
    BY DEF Client
  <1>6. ASSUME NEW j \in Job PROVE j.opt \in Values /\ j.srv \in {1, 2}
    BY DEF Job
  <1>7. ASSUME NEW t \in Threads
        PROVE  /\ pc[t] \in Places /\ req[t] \in Request /\ req[t].c \in Clients
               /\ req[t].key \in AnyKey /\ req[t].offer \in AnyKey /\ req[t].ok \in BOOLEAN /\ req[t].tries \in {0, 1}
               /\ req[t].kind \in {"none", "handshake", "upload", "confirm"}
               /\ C(t) \in Client /\ snap[t] \in Config /\ C(t) = client[req[t].c]
    <2>1. /\ pc[t] \in Places /\ req[t] \in Request /\ snap[t] \in Config BY <1>1
    <2>2. /\ req[t].c \in Clients
          /\ req[t].key \in AnyKey /\ req[t].offer \in AnyKey /\ req[t].ok \in BOOLEAN /\ req[t].tries \in {0, 1}
          /\ req[t].kind \in {"none", "handshake", "upload", "confirm"} BY <2>1, <1>4
    <2>3. client[req[t].c] \in Client BY <2>2, <1>2
    <2>4. QED BY <2>1, <2>2, <2>3 DEF C
  <1>8. ASSUME NEW c \in Clients
        PROVE /\ client[c] \in Client /\ client[c].srv \in {1, 2} /\ client[c].key \in Keys
              /\ client[c].new \in AnyKey /\ client[c].old \in AnyKey /\ client[c].restore \in AnyKey
              /\ client[c].refused \subseteq Keys /\ client[c].adoptMu \in Threads \cup {Free}
    <2>1. client[c] \in Client BY <1>2
    <2>2. QED BY <2>1, <1>5
  <1>9. ASSUME NEW t \in Menus PROVE job[t] \in Job /\ job[t].opt \in Values /\ job[t].srv \in {1, 2}
    BY <1>3, <1>6
  <1>10. QED BY <1>7, <1>8, <1>9

-----------------------------------------------------------------------------
(* Types *)

(* A thread goes on, and the others stay. *)
LEMMA GoesType ==
    ASSUME TypeOK, NEW t \in Threads, NEW place \in Places, Goes(t, place)
    PROVE  pc' \in [Threads -> Places] /\ pc'[t] = place /\ \A u \in Threads : u # t => pc'[u] = pc[u]
  BY DEF TypeOK, Goes

(* A fault, a save and a key taken back are spent, and leave the rotations. *)
LEMMA FaultType ==
    ASSUME left \in [rotations : 0..MaxRotations, cancels : Nat, saves : Nat, mishaps : Nat],
           Fault \/ Spend("saves") \/ Spend("cancels")
    PROVE  /\ left' \in [rotations : 0..MaxRotations, cancels : Nat, saves : Nat, mishaps : Nat]
           /\ left'.rotations = left.rotations
  <1>1. CASE Spend("mishaps") BY <1>1 DEF Spend
  <1>2. CASE Spend("saves") BY <1>2 DEF Spend
  <1>3. CASE Spend("cancels") BY <1>3 DEF Spend
  <1>4. QED BY <1>1, <1>2, <1>3 DEF Fault

(* A client is put back, and the others stay. *)
LEMMA PutType ==
    ASSUME TypeOK, NEW t \in Threads, NEW cl \in Client, Put(t, cl)
    PROVE  /\ client' \in [Clients -> Client] /\ client'[req[t].c] = cl
           /\ \A c \in Clients : c # req[t].c => client'[c] = client[c]
  <1>1. req[t].c \in Clients BY Fields
  <1>2. QED BY <1>1 DEF TypeOK, Put

(* An unlocked client differs in its lock at most. *)
LEMMA UnlockedType ==
    ASSUME NEW t, NEW cl \in Client
    PROVE  LET ul == Unlocked(t, cl) IN
           /\ ul \in Client /\ ul.srv = cl.srv /\ ul.key = cl.key /\ ul.new = cl.new /\ ul.old = cl.old
           /\ ul.restore = cl.restore /\ ul.refused = cl.refused
           /\ ul.adoptMu = (IF cl.adoptMu = t THEN Free ELSE cl.adoptMu)
  BY DEF Unlocked, Client

(* A client with a key to be written back differs in that. *)
LEMMA ArmedType ==
    ASSUME NEW cl \in Client, NEW key \in Keys
    PROVE  LET ar == Armed(cl, key) IN
           /\ ar \in Client /\ ar.srv = cl.srv /\ ar.key = cl.key /\ ar.new = cl.new /\ ar.old = cl.old
           /\ ar.refused = cl.refused /\ ar.adoptMu = cl.adoptMu
  BY DEF Armed, Client, AnyKey

(* A request that is over. *)
LEMMA FinishType ==
    ASSUME TypeOK, NEW t \in Threads, Finish(t)
    PROVE  /\ pc' \in [Threads -> Places] /\ req' \in [Threads -> Request]
           /\ pc'[t] = IF t \in Menus THEN "engine" ELSE "off"
           /\ ~req'[t].ok /\ req'[t].offer = NoKey /\ req'[t].key = NoKey
           /\ t \in Menus => req'[t].c = req[t].c
           /\ \A u \in Threads : u # t => pc'[u] = pc[u] /\ req'[u] = req[u]
  <1>1. pc \in [Threads -> Places] /\ req \in [Threads -> Request] BY DEF TypeOK
  <1>2. req[t].c \in Clients /\ NoReq \in Request BY Fields, Blank
  <1>3. "engine" \in Places /\ "off" \in Places BY DEF Places
  <1>4. [NoReq EXCEPT !.c = req[t].c] \in Request BY <1>2 DEF Request
  <1>5. QED BY <1>1, <1>2, <1>3, <1>4, Blank DEF Finish, Goes, NoReq

(* What an answer is followed by, when no other request is needed. *)
RestAfter(t, cl) ==
    /\ pc' \in [Threads -> Places] /\ req' \in [Threads -> Request] /\ client' \in [Clients -> Client]
    /\ \/ /\ req[t].ok /\ req[t].offer # NoKey /\ pc'[t] = "adopt" /\ req' = req /\ client'[req[t].c] = cl
       \/ /\ ~(req[t].ok /\ req[t].offer # NoKey)
          /\ pc'[t] = IF t \in Menus THEN "engine" ELSE "off"
          /\ ~req'[t].ok /\ req'[t].offer = NoKey /\ req'[t].key = NoKey
          /\ t \in Menus => req'[t].c = req[t].c
          /\ client'[req[t].c] = Unlocked(t, cl)
    /\ \A u \in Threads : u # t => pc'[u] = pc[u] /\ req'[u] = req[u]
    /\ \A c \in Clients : c # req[t].c => client'[c] = client[c]

LEMMA RestType ==
    ASSUME TypeOK, NEW t \in Threads, NEW cl \in Client, Rest(t, cl)
    PROVE  RestAfter(t, cl)
  <1>1. CASE req[t].ok /\ req[t].offer # NoKey
    <2>1. Goes(t, "adopt") /\ req' = req /\ Put(t, cl) BY <1>1 DEF Rest
    <2>2. pc' \in [Threads -> Places] /\ pc'[t] = "adopt" /\ \A u \in Threads : u # t => pc'[u] = pc[u]
      BY <2>1, GoesType DEF Places
    <2>3. QED BY <1>1, <2>1, <2>2, PutType DEF TypeOK, RestAfter
  <1>2. CASE ~(req[t].ok /\ req[t].offer # NoKey)
    <2>1. Finish(t) /\ Put(t, Unlocked(t, cl)) BY <1>2 DEF Rest
    <2>2. Unlocked(t, cl) \in Client BY UnlockedType
    <2>3. QED BY <1>2, <2>1, <2>2, FinishType, PutType DEF RestAfter
  <1>3. QED BY <1>1, <1>2

(* Decide: the client that a request leaves, and what may be tried next. *)
LEMMA DecideType ==
    ASSUME NEW cl \in Client, NEW key \in Keys, NEW ok \in BOOLEAN, cl.new # NoKey => cl.old \in Keys
    PROVE  LET d == Decide(cl, key, ok) IN
           /\ d.cl \in Client /\ d.retry \in AnyKey /\ (d.retry # NoKey => ~ok)
           /\ d.cl.srv = cl.srv /\ d.cl.adoptMu = cl.adoptMu
           /\ d.cl.new # NoKey => d.cl.new = cl.new /\ d.cl.old = cl.old
  <1>1. /\ cl.srv \in {1, 2} /\ cl.key \in Keys /\ cl.new \in AnyKey /\ cl.old \in AnyKey
        /\ cl.restore \in AnyKey /\ cl.refused \subseteq Keys /\ cl.adoptMu \in Threads \cup {Free}
    BY DEF Client
  <1>2. CASE cl.new # NoKey /\ key = cl.new /\ ok
    <2>1. Decide(cl, key, ok) = [cl |-> [cl EXCEPT !.new = NoKey, !.old = NoKey], retry |-> NoKey]
      BY <1>2 DEF Decide
    <2> DEFINE n == [cl EXCEPT !.new = NoKey, !.old = NoKey]
    <2>2. Decide(cl, key, ok).cl = n /\ Decide(cl, key, ok).retry = NoKey BY <2>1
    <2>3. n \in Client /\ n.srv = cl.srv /\ n.adoptMu = cl.adoptMu /\ n.new = NoKey
      BY <1>1 DEF Client, AnyKey
    <2> HIDE DEF n
    <2>4. QED BY <2>2, <2>3 DEF AnyKey
  <1>3. CASE cl.new # NoKey /\ key = cl.new /\ ~ok
    <2>1. Decide(cl, key, ok)
            = [cl |-> [cl EXCEPT !.new = NoKey, !.old = NoKey, !.refused = @ \cup {cl.new}, !.restore = cl.old,
                                 !.key = IF @ = cl.new THEN cl.old ELSE @], retry |-> cl.old]
      BY <1>3 DEF Decide
    <2>2. cl.old \in Keys /\ cl.refused \cup {cl.new} \subseteq Keys BY <1>1, <1>3 DEF AnyKey
    <2> DEFINE kept == IF cl.key = cl.new THEN cl.old ELSE cl.key
               known == cl.refused \cup {cl.new}
               n == [cl EXCEPT !.new = NoKey, !.old = NoKey, !.refused = known, !.restore = cl.old, !.key = kept]
    <2>3. Decide(cl, key, ok).cl = n /\ Decide(cl, key, ok).retry = cl.old BY <2>1
    <2>4. kept \in Keys /\ known \in SUBSET Keys BY <2>2, <1>1
    <2> HIDE DEF kept, known
    <2>5. n \in Client /\ n.srv = cl.srv /\ n.adoptMu = cl.adoptMu /\ n.new = NoKey
      BY <2>2, <2>4, <1>1 DEF Client, AnyKey
    <2> HIDE DEF n
    <2>6. QED BY <1>3, <2>2, <2>3, <2>5 DEF AnyKey
  <1>4. CASE ~(cl.new # NoKey /\ key = cl.new) /\ cl.restore # NoKey /\ key = cl.restore
    <2>1. Decide(cl, key, ok) = [cl |-> [cl EXCEPT !.restore = NoKey], retry |-> NoKey]
      BY <1>4 DEF Decide
    <2> DEFINE n == [cl EXCEPT !.restore = NoKey]
    <2>2. Decide(cl, key, ok).cl = n /\ Decide(cl, key, ok).retry = NoKey BY <2>1
    <2>3. n \in Client /\ n.srv = cl.srv /\ n.adoptMu = cl.adoptMu /\ n.new = cl.new /\ n.old = cl.old
      BY <1>1 DEF Client, AnyKey
    <2> HIDE DEF n
    <2>4. QED BY <2>2, <2>3 DEF AnyKey
  <1>5. CASE ~(cl.new # NoKey /\ key = cl.new) /\ ~(cl.restore # NoKey /\ key = cl.restore)
    <2>1. Decide(cl, key, ok) = [cl |-> cl, retry |-> IF ~ok /\ key # cl.key THEN cl.key ELSE NoKey]
      BY <1>5 DEF Decide
    <2>2. QED BY <2>1, <1>1 DEF AnyKey
  <1>6. QED BY <1>2, <1>3, <1>4, <1>5

(* A thread that goes on leaves the others equipped. *)
LEMMA EquipOne ==
    ASSUME TypeOK, Equipped, NEW t \in Threads,
           \A u \in Threads : u # t => pc'[u] = pc[u] /\ req'[u] = req[u],
           \A u \in Menus : u # t => job'[u] = job[u],
           pc'[t] \in Asking => req'[t].key \in Keys,
           pc'[t] \in Adopting => req'[t].offer \in Keys,
           pc'[t] \notin Asking => req'[t].key = NoKey,
           pc'[t] \notin Asking \ {"sent"} => ~req'[t].ok,
           ~req'[t].ok => req'[t].offer = NoKey,
           t \in Menus /\ pc'[t] \in Asking \cup {"patch", "patching", "engine", "drainer"} => job'[t].opt \in Opts,
           t \in Menus /\ job'[t].kind # "set" => job'[t].opt \in Opts,
           \A c \in Clients : client'[c].new # NoKey => client'[c].old \in Keys
    PROVE  Equipped'
  BY Kinds DEF Equipped

(* Whether a key is accepted is decided. *)
LEMMA AcceptsType == ASSUME NEW srv, NEW key PROVE Accepts(srv, key) \in BOOLEAN
  <1>1. CASE srv = 1
    <2>1. CASE key \in {current, pending} BY <1>1, <2>1 DEF Accepts
    <2>2. CASE key \notin {current, pending} BY <1>1, <2>2 DEF Accepts
    <2>3. QED BY <2>1, <2>2
  <1>2. CASE srv # 1
    <2>1. CASE key = Paired BY <1>2, <2>1 DEF Accepts
    <2>2. CASE key # Paired BY <1>2, <2>2 DEF Accepts
    <2>3. QED BY <2>1, <2>2
  <1>3. QED BY <1>1, <1>2

LEMMA SendBase ==
    ASSUME SaveBase, NEW t \in Threads, Send(t)
    PROVE  TypeOK' /\ Equipped'
  <1>0. TypeOK /\ Equipped BY DEF SaveBase
  <1>1. /\ At(t, "sent") /\ UNCHANGED <<disk, conf, past, job, link>> BY DEF Send
  <1>2. /\ req[t].key \in Keys /\ ~req[t].ok /\ req[t].offer = NoKey
        /\ t \in Menus => job[t].opt \in Opts
    BY <1>0, <1>1 DEF Equipped, At, Asking
  <1>3. \A c \in Clients : client[c].new # NoKey => client[c].old \in Keys BY <1>0 DEF Equipped
  <1>4. (UNCHANGED <<current, pending>> \/ Taken(C(t).srv, req[t].key)) => current' \in Keys /\ pending' \in AnyKey
    BY <1>0, <1>2 DEF TypeOK, Taken, AnyKey
  <1>5. CASE /\ NoFault /\ Taken(C(t).srv, req[t].key) /\ Goes(t, "answered") /\ UNCHANGED client
             /\ req' = [req EXCEPT ![t].ok = Accepts(C(t).srv, req[t].key),
                                ![t].offer = IF req[t].kind = "handshake" /\ C(t).srv = 1 /\ req[t].key = current THEN pending ELSE NoKey]
    <2>1. pc' \in [Threads -> Places] /\ pc'[t] = "answered" /\ \A u \in Threads : u # t => pc'[u] = pc[u]
      BY <1>0, <1>5, GoesType DEF Places
    <2>2. Accepts(C(t).srv, req[t].key) \in BOOLEAN BY AcceptsType
    <2> DEFINE ok == Accepts(C(t).srv, req[t].key)
               offer == IF req[t].kind = "handshake" /\ C(t).srv = 1 /\ req[t].key = current THEN pending ELSE NoKey
    <2>3. offer \in AnyKey /\ (~ok => offer = NoKey)
      <3>1. pending \in AnyKey BY <1>0 DEF TypeOK
      <3>2. offer = pending \/ offer = NoKey OBVIOUS
      <3>3. offer # NoKey => ok BY DEF Accepts
      <3>4. QED BY <3>1, <3>2, <3>3 DEF AnyKey
    <2>4. req' = [req EXCEPT ![t].ok = ok, ![t].offer = offer] BY <1>5
    <2>5. ok \in BOOLEAN BY <2>2
    <2> HIDE DEF ok, offer
    <2>6. req \in [Threads -> Request] /\ req[t] \in Request BY <1>0, Fields DEF TypeOK
    <2>7. /\ req' \in [Threads -> Request] /\ req'[t] = [req[t] EXCEPT !.ok = ok, !.offer = offer]
          /\ \A u \in Threads : u # t => req'[u] = req[u]
      <3>1. [req[t] EXCEPT !.ok = ok, !.offer = offer] \in Request BY <2>3, <2>5, <2>6 DEF Request
      <3>2. QED BY <2>4, <2>6, <3>1
    <2>8. req'[t].ok = ok /\ req'[t].offer = offer /\ req'[t].key = req[t].key BY <2>6, <2>7 DEF Request
    <2>9. TypeOK' BY <1>0, <1>1, <1>4, <1>5, <2>1, <2>7 DEF TypeOK, disk, conf, NoFault
    <2>10. Equipped'
      BY <1>0, <1>1, <1>2, <1>3, <1>5, <2>1, <2>3, <2>7, <2>8, EquipOne DEF Asking, Adopting
    <2>11. QED BY <2>9, <2>10
  <1>6. CASE /\ Fault /\ (UNCHANGED <<current, pending>> \/ Taken(C(t).srv, req[t].key))
             /\ Finish(t) /\ Put(t, Unlocked(t, C(t)))
    <2>1. C(t) \in Client /\ req[t].c \in Clients /\ C(t) = client[req[t].c] BY <1>0, Fields
    <2>2. Unlocked(t, C(t)) \in Client /\ Unlocked(t, C(t)).new = C(t).new /\ Unlocked(t, C(t)).old = C(t).old
      BY <2>1, UnlockedType
    <2>3. /\ client' \in [Clients -> Client] /\ client'[req[t].c] = Unlocked(t, C(t))
          /\ \A c \in Clients : c # req[t].c => client'[c] = client[c]
      BY <1>0, <1>6, <2>2, PutType
    <2>4. left' \in [rotations : 0..MaxRotations, cancels : Nat, saves : Nat, mishaps : Nat]
      BY <1>0, <1>6 DEF TypeOK, Fault, Spend
    <2>5. TypeOK' BY <1>0, <1>1, <1>4, <1>6, <2>3, <2>4, FinishType DEF TypeOK, disk, conf
    <2>6. Equipped'
      BY <1>0, <1>1, <1>2, <1>3, <1>6, <2>1, <2>2, <2>3, FinishType, EquipOne DEF Asking, Adopting
    <2>7. QED BY <2>5, <2>6
  <1>7. QED BY <1>5, <1>6 DEF Send

LEMMA ObserveBase ==
    ASSUME SaveBase, NEW t \in Threads, Observe(t)
    PROVE  TypeOK' /\ Equipped'
  <1>0. TypeOK /\ Equipped BY DEF SaveBase
  <1> DEFINE d == Decide(C(t), req[t].key, req[t].ok)
  <1>1. At(t, "answered") /\ UNCHANGED <<disk, conf, sys, job, link, left>> BY DEF Observe
  <1>2. /\ req[t].key \in Keys /\ (~req[t].ok => req[t].offer = NoKey)
        /\ t \in Menus => job[t].opt \in Opts
    BY <1>0, <1>1 DEF Equipped, At, Asking
  <1>3. \A c \in Clients : client[c].new # NoKey => client[c].old \in Keys BY <1>0 DEF Equipped
  <1>4. /\ C(t) \in Client /\ req[t].c \in Clients /\ C(t) = client[req[t].c] /\ req[t].ok \in BOOLEAN
        /\ req[t] \in Request /\ req[t].offer \in AnyKey
    BY <1>0, Fields
  <1>5. C(t).new # NoKey => C(t).old \in Keys BY <1>3, <1>4
  <1>6. /\ d.cl \in Client /\ d.retry \in AnyKey /\ (d.retry # NoKey => ~req[t].ok)
        /\ d.cl.new # NoKey => d.cl.new = C(t).new /\ d.cl.old = C(t).old
    BY <1>2, <1>4, <1>5, DecideType
  <1>7. /\ Unlocked(t, d.cl) \in Client /\ Unlocked(t, d.cl).new = d.cl.new /\ Unlocked(t, d.cl).old = d.cl.old
    BY <1>6, UnlockedType
  <1>8. \/ Restoring(C(t), req[t].key, req[t].ok) /\ Goes(t, "restore") /\ Put(t, d.cl) /\ UNCHANGED req
        \/ /\ d.retry \notin {NoKey, req[t].key} /\ req' = [req EXCEPT ![t].key = d.retry, ![t].tries = 1]
           /\ Goes(t, "sent") /\ Put(t, d.cl) /\ ~Restoring(C(t), req[t].key, req[t].ok)
        \/ Rest(t, d.cl)
    BY DEF Observe
  <1> HIDE DEF d
  <1>9. CASE Restoring(C(t), req[t].key, req[t].ok) /\ Goes(t, "restore") /\ Put(t, d.cl) /\ UNCHANGED req
    <2>1. pc' \in [Threads -> Places] /\ pc'[t] = "restore" /\ \A u \in Threads : u # t => pc'[u] = pc[u]
      BY <1>0, <1>9, GoesType DEF Places
    <2>2. /\ client' \in [Clients -> Client] /\ client'[req[t].c] = d.cl
          /\ \A c \in Clients : c # req[t].c => client'[c] = client[c]
      BY <1>0, <1>6, <1>9, PutType
    <2>3. TypeOK' BY <1>0, <1>1, <1>9, <2>1, <2>2 DEF TypeOK, disk, conf, sys
    <2>4. \A c \in Clients : client'[c].new # NoKey => client'[c].old \in Keys
      BY <1>3, <1>4, <1>5, <1>6, <2>2
    <2>5. Equipped'
      BY <1>0, <1>1, <1>2, <1>9, <2>1, <2>4, EquipOne DEF Asking, Adopting
    <2>6. QED BY <2>3, <2>5
  <1>10. CASE /\ d.retry \notin {NoKey, req[t].key} /\ req' = [req EXCEPT ![t].key = d.retry, ![t].tries = 1]
              /\ Goes(t, "sent") /\ Put(t, d.cl) /\ ~Restoring(C(t), req[t].key, req[t].ok)
    <2>1. pc' \in [Threads -> Places] /\ pc'[t] = "sent" /\ \A u \in Threads : u # t => pc'[u] = pc[u]
      BY <1>0, <1>10, GoesType DEF Places
    <2>2. /\ client' \in [Clients -> Client] /\ client'[req[t].c] = d.cl
          /\ \A c \in Clients : c # req[t].c => client'[c] = client[c]
      BY <1>0, <1>6, <1>10, PutType
    <2>3. [req[t] EXCEPT !.key = d.retry, !.tries = 1] \in Request BY <1>4, <1>6 DEF Request
    <2>4. /\ req' \in [Threads -> Request] /\ req'[t] = [req[t] EXCEPT !.key = d.retry, !.tries = 1]
          /\ \A u \in Threads : u # t => req'[u] = req[u]
      BY <1>0, <1>10, <2>3 DEF TypeOK
    <2>5. req'[t].key = d.retry /\ req'[t].ok = req[t].ok /\ req'[t].offer = req[t].offer
      BY <1>4, <2>4 DEF Request
    <2>6. TypeOK' BY <1>0, <1>1, <2>1, <2>2, <2>4 DEF TypeOK, disk, conf, sys
    <2>7. \A c \in Clients : client'[c].new # NoKey => client'[c].old \in Keys
      BY <1>3, <1>4, <1>5, <1>6, <2>2
    <2>8. d.retry \in Keys /\ ~req[t].ok BY <1>6, <1>10 DEF AnyKey
    <2>9. Equipped'
      BY <1>0, <1>1, <1>2, <2>1, <2>4, <2>5, <2>7, <2>8, EquipOne DEF Asking, Adopting
    <2>10. QED BY <2>6, <2>9
  <1>11. CASE Rest(t, d.cl)
    <2>1. RestAfter(t, d.cl) BY <1>0, <1>1, <1>6, <1>11, RestType DEF RestAfter, At, Asking
    <2>2. TypeOK' BY <1>0, <1>1, <2>1 DEF TypeOK, disk, conf, sys, RestAfter
    <2>3. \A c \in Clients : client'[c].new # NoKey => client'[c].old \in Keys
      <3>1. client'[req[t].c].new # NoKey => client'[req[t].c].old \in Keys
        BY <1>5, <1>6, <1>7, <2>1 DEF RestAfter
      <3>2. QED BY <1>3, <2>1, <3>1 DEF RestAfter
    <2>4. Equipped'
      <3>1. CASE req[t].ok /\ req[t].offer # NoKey /\ pc'[t] = "adopt" /\ req' = req
        <4>1. req[t].offer \in Keys BY <1>4, <3>1 DEF AnyKey
        <4>2. QED BY <1>0, <1>1, <1>2, <2>1, <2>3, <3>1, <4>1, EquipOne DEF Asking, Adopting, RestAfter
      <3>2. CASE /\ pc'[t] = IF t \in Menus THEN "engine" ELSE "off"
                 /\ ~req'[t].ok /\ req'[t].offer = NoKey /\ req'[t].key = NoKey
        <4>1. pc'[t] \notin Asking BY <3>2 DEF Asking
        <4>2. job' = job BY <1>1
        <4>3. pc'[t] \notin Adopting BY <4>1 DEF Asking, Adopting
        <4>4. QED BY <1>0, <1>2, <2>1, <2>3, <3>2, <4>1, <4>2, <4>3, EquipOne DEF RestAfter
      <3>3. QED BY <2>1, <3>1, <3>2 DEF RestAfter
    <2>5. QED BY <2>2, <2>4
  <1>12. QED BY <1>8, <1>9, <1>10, <1>11

LEMMA ReadBase ==
    ASSUME SaveBase, NEW t \in Threads, Read(t)
    PROVE  TypeOK' /\ Equipped'
  <1>0. TypeOK /\ Equipped BY DEF SaveBase
  <1>1. /\ pc[t] \in Rewrites /\ PatchMuFree /\ patchMu' = t /\ snap' = [snap EXCEPT ![t] = file]
        /\ Goes(t, Writes[pc[t]]) /\ UNCHANGED <<file, conf, sys, client, req, job, link, left>>
    BY DEF Read
  <1>2. pc' \in [Threads -> Places] /\ pc'[t] = Writes[pc[t]] /\ \A u \in Threads : u # t => pc'[u] = pc[u]
    BY <1>0, <1>1, GoesType DEF Places, Writes, Rewrites
  <1>3. snap' \in [Threads -> Config] BY <1>0, <1>1 DEF TypeOK
  <1>4. TypeOK' BY <1>0, <1>1, <1>2, <1>3 DEF TypeOK, conf, sys
  <1>5. \/ pc[t] = "patch" /\ pc'[t] = "patching"
        \/ pc[t] = "persist" /\ pc'[t] = "persisting"
        \/ pc[t] = "restore" /\ pc'[t] = "restoring"
    BY <1>1, <1>2 DEF Rewrites, Writes
  <1>6. Equipped'
    <2>1. /\ pc[t] \in Asking => req[t].key \in Keys
          /\ pc[t] \in Adopting => req[t].offer \in Keys
          /\ pc[t] \notin Asking => req[t].key = NoKey
          /\ pc[t] \notin Asking \ {"sent"} => ~req[t].ok
          /\ ~req[t].ok => req[t].offer = NoKey
          /\ t \in Menus /\ pc[t] \in Asking \cup {"patch", "patching", "engine", "drainer"} => job[t].opt \in Opts
          /\ t \in Menus /\ job[t].kind # "set" => job[t].opt \in Opts
          /\ \A c \in Clients : client[c].new # NoKey => client[c].old \in Keys
      BY <1>0 DEF Equipped
    <2>2. /\ pc'[t] \in Asking <=> pc[t] \in Asking
          /\ pc'[t] \in Adopting <=> pc[t] \in Adopting
          /\ pc'[t] # "sent" /\ pc[t] # "sent"
          /\ pc'[t] \in {"patch", "patching", "engine", "drainer"} => pc[t] \in {"patch", "patching", "engine", "drainer"}
      BY <1>5 DEF Asking, Adopting
    <2>3. req' = req /\ job' = job /\ client' = client BY <1>1
    <2>4. QED BY <1>0, <1>2, <2>1, <2>2, <2>3, EquipOne
  <1>7. QED BY <1>4, <1>6

(* A patch ends: nobody holds patchMu, and the file is one still. *)
LEMMA SetKeyType ==
    ASSUME TypeOK, NEW t \in Threads, NEW key \in Keys, Unlock(t), SetKey(t, key) \/ NotWritten(t)
    PROVE  /\ patchMu' = Free /\ snap' \in [Threads -> Config] /\ \A u \in Threads : u # t => snap'[u] = snap[u]
           /\ \/ SetKey(t, key) /\ file' = [snap[t] EXCEPT !.key = key] /\ file'.key = key
                 /\ file'.srv = snap[t].srv /\ file'.opt = snap[t].opt /\ file'.bad = snap[t].bad
              \/ NotWritten(t) /\ file' = file
           /\ file' \in Config /\ file'.key \in Keys
           /\ left' \in [rotations : 0..MaxRotations, cancels : Nat, saves : Nat, mishaps : Nat]
           /\ left'.rotations = left.rotations
  <1>1. snap[t] \in Config /\ NoFile \in Config BY Fields, Blank
  <1>2. patchMu' = Free /\ snap' \in [Threads -> Config] /\ \A u \in Threads : u # t => snap'[u] = snap[u]
    BY <1>1 DEF Unlock, TypeOK
  <1>3. left \in [rotations : 0..MaxRotations, cancels : Nat, saves : Nat, mishaps : Nat] BY DEF TypeOK
  <1>4. CASE SetKey(t, key)
    <2>1. file' = [snap[t] EXCEPT !.key = key] /\ left' = left BY <1>4 DEF SetKey, Rewritten, NoFault
    <2>2. QED BY <1>1, <1>2, <1>3, <1>4, <2>1 DEF Config, AnyKey
  <1>5. CASE NotWritten(t)
    <2>1. file' = file BY <1>5 DEF NotWritten
    <2>2. /\ left' \in [rotations : 0..MaxRotations, cancels : Nat, saves : Nat, mishaps : Nat]
          /\ left'.rotations = left.rotations
      BY <1>3, <1>5, FaultType DEF NotWritten, NoFault
    <2>3. file \in Config /\ file.key \in Keys BY DEF TypeOK
    <2>4. QED BY <1>2, <1>3, <1>5, <2>1, <2>2, <2>3
  <1>6. QED BY <1>4, <1>5

LEMMA RestoreBase ==
    ASSUME SaveBase, NEW t \in Threads, Restore(t)
    PROVE  TypeOK' /\ Equipped'
  <1>0. TypeOK /\ Equipped BY DEF SaveBase
  <1>1. At(t, "restoring") /\ Unlock(t) /\ UNCHANGED <<conf, sys, job, link>> BY DEF Restore
  <1>2. /\ req[t].key \in Keys /\ (~req[t].ok => req[t].offer = NoKey)
        /\ t \in Menus => job[t].opt \in Opts
    BY <1>0, <1>1 DEF Equipped, At, Asking
  <1>3. \A c \in Clients : client[c].new # NoKey => client[c].old \in Keys BY <1>0 DEF Equipped
  <1>4. C(t) \in Client /\ req[t].c \in Clients /\ C(t) = client[req[t].c] /\ req[t].offer \in AnyKey
    BY <1>0, Fields
  <1>5. SetKey(t, req[t].key) \/ NotWritten(t) BY DEF Restore
  <1>6. PICK cl \in {C(t), Armed(C(t), req[t].key)} : Rest(t, cl) BY DEF Restore
  <1>7. cl \in Client /\ cl.new = C(t).new /\ cl.old = C(t).old BY <1>2, <1>4, <1>6, ArmedType
  <1>8. /\ Unlocked(t, cl) \in Client /\ Unlocked(t, cl).new = cl.new /\ Unlocked(t, cl).old = cl.old
    BY <1>7, UnlockedType
  <1>9. RestAfter(t, cl) BY <1>0, <1>6, <1>7, RestType
  <1>10. TypeOK'
    BY <1>0, <1>1, <1>2, <1>5, <1>9, SetKeyType DEF TypeOK, conf, sys, RestAfter
  <1>11. \A c \in Clients : client'[c].new # NoKey => client'[c].old \in Keys
    <2>1. client'[req[t].c].new # NoKey => client'[req[t].c].old \in Keys
      BY <1>3, <1>4, <1>7, <1>8, <1>9 DEF RestAfter
    <2>2. QED BY <1>3, <1>9, <2>1 DEF RestAfter
  <1>12. Equipped'
    <2>1. CASE req[t].ok /\ req[t].offer # NoKey /\ pc'[t] = "adopt" /\ req' = req
      <3>1. req[t].offer \in Keys BY <1>4, <2>1 DEF AnyKey
      <3>2. QED BY <1>0, <1>1, <1>2, <1>9, <1>11, <2>1, <3>1, EquipOne DEF Asking, Adopting, RestAfter
    <2>2. CASE /\ pc'[t] = IF t \in Menus THEN "engine" ELSE "off"
               /\ ~req'[t].ok /\ req'[t].offer = NoKey /\ req'[t].key = NoKey
      <3>1. pc'[t] \notin Asking BY <2>2 DEF Asking
      <3>2. job' = job BY <1>1
      <3>3. pc'[t] \notin Adopting BY <3>1 DEF Asking, Adopting
      <3>4. QED BY <1>0, <1>2, <1>9, <1>11, <2>2, <3>1, <3>2, <3>3, EquipOne DEF RestAfter
    <2>3. QED BY <1>9, <2>1, <2>2 DEF RestAfter
  <1>13. QED BY <1>10, <1>12

LEMMA AdoptBase ==
    ASSUME SaveBase, NEW t \in Threads, Adopt(t)
    PROVE  TypeOK' /\ Equipped'
  <1>0. TypeOK /\ Equipped BY DEF SaveBase
  <1>1. At(t, "adopt") /\ UNCHANGED <<disk, conf, sys, job, link, left>> BY DEF Adopt
  <1>2. /\ req[t].key \in Keys /\ req[t].offer \in Keys /\ (~req[t].ok => req[t].offer = NoKey)
        /\ t \in Menus => job[t].opt \in Opts
    BY <1>0, <1>1 DEF Equipped, At, Asking, Adopting
  <1>3. \A c \in Clients : client[c].new # NoKey => client[c].old \in Keys BY <1>0 DEF Equipped
  <1>4. C(t) \in Client /\ req[t].c \in Clients /\ C(t) = client[req[t].c] BY <1>0, Fields
  <1>5. CASE Put(t, [C(t) EXCEPT !.adoptMu = t]) /\ Goes(t, "persist") /\ UNCHANGED req
    <2> DEFINE cl == [C(t) EXCEPT !.adoptMu = t]
    <2>1. cl \in Client /\ cl.new = C(t).new /\ cl.old = C(t).old BY <1>4 DEF Client
    <2>2. Put(t, cl) BY <1>5
    <2> HIDE DEF cl
    <2>3. /\ client' \in [Clients -> Client] /\ client'[req[t].c] = cl
          /\ \A c \in Clients : c # req[t].c => client'[c] = client[c]
      BY <1>0, <2>1, <2>2, PutType
    <2>4. pc' \in [Threads -> Places] /\ pc'[t] = "persist" /\ \A u \in Threads : u # t => pc'[u] = pc[u]
      BY <1>0, <1>5, GoesType DEF Places
    <2>5. TypeOK' BY <1>0, <1>1, <1>5, <2>3, <2>4 DEF TypeOK, disk, conf, sys
    <2>6. \A c \in Clients : client'[c].new # NoKey => client'[c].old \in Keys BY <1>3, <1>4, <2>1, <2>3
    <2>7. Equipped'
      BY <1>0, <1>1, <1>2, <1>5, <2>4, <2>6, EquipOne DEF Asking, Adopting
    <2>8. QED BY <2>5, <2>7
  <1>6. CASE Finish(t) /\ UNCHANGED client
    <2>1. TypeOK' BY <1>0, <1>1, <1>6, FinishType DEF TypeOK, disk, conf, sys
    <2>2. Equipped'
      BY <1>0, <1>1, <1>2, <1>3, <1>6, FinishType, EquipOne DEF Asking, Adopting
    <2>3. QED BY <2>1, <2>2
  <1>7. QED BY <1>5, <1>6 DEF Adopt

LEMMA PersistBase ==
    ASSUME SaveBase, NEW t \in Threads, Persist(t)
    PROVE  TypeOK' /\ Equipped'
  <1>0. TypeOK /\ Equipped BY DEF SaveBase
  <1>1. At(t, "persisting") /\ Unlock(t) /\ UNCHANGED <<conf, sys, job, link>> BY DEF Persist
  <1>2. /\ req[t].key \in Keys /\ req[t].offer \in Keys /\ (~req[t].ok => req[t].offer = NoKey)
        /\ t \in Menus => job[t].opt \in Opts
    BY <1>0, <1>1 DEF Equipped, At, Asking, Adopting
  <1>3. \A c \in Clients : client[c].new # NoKey => client[c].old \in Keys BY <1>0 DEF Equipped
  <1>4. C(t) \in Client /\ req[t].c \in Clients /\ C(t) = client[req[t].c] BY <1>0, Fields
  <1>5. SetKey(t, req[t].offer) \/ NotWritten(t) BY DEF Persist
  <1>6. CASE Goes(t, "switch") /\ UNCHANGED <<client, req>>
    <2>1. pc' \in [Threads -> Places] /\ pc'[t] = "switch" /\ \A u \in Threads : u # t => pc'[u] = pc[u]
      BY <1>0, <1>6, GoesType DEF Places
    <2>2. TypeOK' BY <1>0, <1>1, <1>2, <1>5, <1>6, <2>1, SetKeyType DEF TypeOK, conf, sys
    <2>3. Equipped'
      BY <1>0, <1>1, <1>2, <1>3, <1>6, <2>1, EquipOne DEF Asking, Adopting
    <2>4. QED BY <2>2, <2>3
  <1>7. CASE Finish(t) /\ Put(t, Unlocked(t, C(t)))
    <2>1. /\ Unlocked(t, C(t)) \in Client /\ Unlocked(t, C(t)).new = C(t).new /\ Unlocked(t, C(t)).old = C(t).old
      BY <1>4, UnlockedType
    <2>2. /\ client' \in [Clients -> Client] /\ client'[req[t].c] = Unlocked(t, C(t))
          /\ \A c \in Clients : c # req[t].c => client'[c] = client[c]
      BY <1>0, <1>7, <2>1, PutType
    <2>3. TypeOK' BY <1>0, <1>1, <1>2, <1>5, <1>7, <2>2, FinishType, SetKeyType DEF TypeOK, conf, sys
    <2>4. Equipped'
      BY <1>0, <1>1, <1>2, <1>3, <1>4, <1>7, <2>1, <2>2, FinishType, EquipOne DEF Asking, Adopting
    <2>5. QED BY <2>3, <2>4
  <1>8. QED BY <1>6, <1>7 DEF Persist

LEMMA SwitchBase ==
    ASSUME SaveBase, NEW t \in Threads, Switch(t)
    PROVE  TypeOK' /\ Equipped'
  <1>0. TypeOK /\ Equipped BY DEF SaveBase
  <1> DEFINE cl == [C(t) EXCEPT !.key = req[t].offer, !.new = req[t].offer, !.old = req[t].key]
             r == [NoReq EXCEPT !.c = req[t].c, !.kind = "confirm", !.key = req[t].offer]
  <1>1. /\ At(t, "switch") /\ Put(t, cl) /\ Goes(t, "sent") /\ req' = [req EXCEPT ![t] = r]
        /\ UNCHANGED <<disk, conf, sys, job, link, left>>
    BY DEF Switch
  <1>2. /\ req[t].key \in Keys /\ req[t].offer \in Keys
        /\ t \in Menus => job[t].opt \in Opts
    BY <1>0, <1>1 DEF Equipped, At, Asking, Adopting
  <1>3. \A c \in Clients : client[c].new # NoKey => client[c].old \in Keys BY <1>0 DEF Equipped
  <1>4. C(t) \in Client /\ req[t].c \in Clients BY <1>0, Fields
  <1>5. cl \in Client /\ cl.old = req[t].key BY <1>2, <1>4 DEF Client, AnyKey
  <1>6. r \in Request /\ r.key = req[t].offer /\ ~r.ok /\ r.offer = NoKey
    BY <1>2, <1>4, Blank DEF Request, AnyKey, NoReq
  <1> HIDE DEF cl, r
  <1>7. /\ client' \in [Clients -> Client] /\ client'[req[t].c] = cl
        /\ \A c \in Clients : c # req[t].c => client'[c] = client[c]
    BY <1>0, <1>1, <1>5, PutType
  <1>8. pc' \in [Threads -> Places] /\ pc'[t] = "sent" /\ \A u \in Threads : u # t => pc'[u] = pc[u]
    BY <1>0, <1>1, GoesType DEF Places
  <1>9. /\ req' \in [Threads -> Request] /\ req'[t] = r /\ \A u \in Threads : u # t => req'[u] = req[u]
    BY <1>0, <1>1, <1>6 DEF TypeOK
  <1>10. TypeOK' BY <1>0, <1>1, <1>7, <1>8, <1>9 DEF TypeOK, disk, conf, sys
  <1>11. \A c \in Clients : client'[c].new # NoKey => client'[c].old \in Keys
    BY <1>2, <1>3, <1>5, <1>7
  <1>12. Equipped'
    BY <1>0, <1>1, <1>2, <1>6, <1>8, <1>9, <1>11, EquipOne DEF Asking, Adopting
  <1>13. QED BY <1>10, <1>12

(* A save is over. *)
DoneAfter(t) ==
    /\ pc' \in [Threads -> Places] /\ req' \in [Threads -> Request] /\ job' \in [Menus -> Job] /\ saveMu' = Free
    /\ pc'[t] = IF t = Link THEN "take" ELSE "off"
    /\ ~req'[t].ok /\ req'[t].offer = NoKey /\ req'[t].key = NoKey /\ job'[t] = NoJob
    /\ \A u \in Threads : u # t => pc'[u] = pc[u] /\ req'[u] = req[u]
    /\ \A u \in Menus : u # t => job'[u] = job[u]

LEMMA DoneType ==
    ASSUME TypeOK, NEW t \in Menus, Done(t)
    PROVE  DoneAfter(t)
  <1>1. t \in Threads BY Kinds
  <1>2. "take" \in Places /\ "off" \in Places BY DEF Places
  <1>3. QED BY <1>1, <1>2, Blank DEF TypeOK, Done, Goes, DoneAfter

LEMMA DoneEquips ==
    ASSUME TypeOK, Equipped, NEW t \in Menus, DoneAfter(t),
           \A c \in Clients : client'[c].new # NoKey => client'[c].old \in Keys
    PROVE  Equipped'
  <1>1. t \in Threads BY Kinds
  <1>2. pc'[t] \notin Asking /\ pc'[t] \notin Adopting /\ pc'[t] \notin {"patch", "patching", "engine", "drainer"}
    BY DEF DoneAfter, Asking, Adopting
  <1>3. job'[t].opt \in Opts BY DEF DoneAfter, NoJob, Opts
  <1>4. QED BY <1>1, <1>2, <1>3, EquipOne DEF DoneAfter

LEMMA ValidateBase ==
    ASSUME SaveBase, NEW t \in Menus, Validate(t)
    PROVE  TypeOK' /\ Equipped'
  <1>0. TypeOK /\ Equipped /\ t \in Threads BY Kinds DEF SaveBase
  <1>1. At(t, "lock") /\ UNCHANGED <<disk, cfg, edited, engine, drainer, sys, client, link, left>> BY DEF Validate
  <1>2. /\ req[t].key = NoKey /\ ~req[t].ok /\ req[t].offer = NoKey
        /\ job[t].kind # "set" => job[t].opt \in Opts
    BY <1>0, <1>1 DEF Equipped, At, Asking
  <1>3. \A c \in Clients : client'[c].new # NoKey => client'[c].old \in Keys BY <1>0, <1>1 DEF Equipped
  <1>4. CASE /\ validateChange(job[t].kind, job[t].opt)
             /\ saveMu' = t /\ Goes(t, IF job[t].kind = "reload" THEN "load" ELSE "patch") /\ UNCHANGED <<req, job>>
    <2> DEFINE place == IF job[t].kind = "reload" THEN "load" ELSE "patch"
    <2>1. place \in {"load", "patch"} /\ place \in Places BY DEF Places
    <2>2. Goes(t, place) BY <1>4
    <2> HIDE DEF place
    <2>3. pc' \in [Threads -> Places] /\ pc'[t] = place /\ \A u \in Threads : u # t => pc'[u] = pc[u]
      BY <1>0, <2>1, <2>2, GoesType
    <2>4. TypeOK' BY <1>0, <1>1, <1>4, <2>3 DEF TypeOK, disk, sys
    <2>5. job[t].opt \in Opts BY <1>2, <1>4 DEF validateChange
    <2>6. pc'[t] \notin Asking /\ pc'[t] \notin Adopting BY <2>1, <2>3 DEF Asking, Adopting
    <2>7. req' = req /\ job' = job BY <1>4
    <2>8. Equipped' BY <1>0, <1>2, <1>3, <2>3, <2>5, <2>6, <2>7, EquipOne
    <2>9. QED BY <2>4, <2>8
  <1>5. CASE Done(t)
    <2>1. DoneAfter(t) BY <1>0, <1>5, DoneType
    <2>2. TypeOK' BY <1>0, <1>1, <2>1 DEF TypeOK, disk, sys, DoneAfter
    <2>3. Equipped' BY <1>0, <1>3, <2>1, DoneEquips
    <2>4. QED BY <2>2, <2>3
  <1>6. QED BY <1>4, <1>5 DEF Validate

(* What a patch leaves of config.yaml. *)
LEMMA PatchedType ==
    ASSUME TypeOK, Equipped, NEW t \in Menus, pc[t] = "patching",
           NEW f, f = IF job[t].kind = "pair" THEN PairedWith(snap[t]) ELSE [snap[t] EXCEPT !.opt = job[t].opt]
    PROVE  /\ f \in Config /\ f.key \in {Paired, snap[t].key} /\ f.bad = snap[t].bad
           /\ f.srv = 1 => f.key = snap[t].key /\ snap[t].srv = 1
  <1>1. snap[t] \in Config /\ job[t].opt \in Opts BY Fields, Kinds DEF Equipped
  <1>2. CASE job[t].kind = "pair"
    <2>1. f = [snap[t] EXCEPT !.key = Paired, !.srv = 2] BY <1>2 DEF PairedWith
    <2>2. snap[t].key \in AnyKey /\ Paired \in AnyKey BY <1>1, Kinds DEF Config, AnyKey
    <2>3. f \in Config /\ f.key = Paired /\ f.srv = 2 /\ f.bad = snap[t].bad BY <1>1, <2>1, <2>2 DEF Config
    <2>4. QED BY <2>3
  <1>3. CASE job[t].kind # "pair"
    <2>1. f = [snap[t] EXCEPT !.opt = job[t].opt] BY <1>3
    <2>2. QED BY <1>1, <2>1 DEF Config
  <1>4. QED BY <1>2, <1>3

LEMMA PatchBase ==
    ASSUME SaveBase, NEW t \in Menus, Patch(t)
    PROVE  TypeOK' /\ Equipped'
  <1>0. TypeOK /\ Equipped /\ t \in Threads /\ Locked BY Kinds DEF SaveBase
  <1> DEFINE f == IF job[t].kind = "pair" THEN PairedWith(snap[t]) ELSE [snap[t] EXCEPT !.opt = job[t].opt]
  <1>1. /\ At(t, "patching") /\ Unlock(t) /\ UNCHANGED <<cfg, edited, engine, drainer, sys, client, link>>
        /\ \/ Rewritten(t, f) /\ Goes(t, "load") /\ UNCHANGED <<saveMu, req, job>>
           \/ NotWritten(t) /\ Done(t)
    BY DEF Patch
  <1>2. /\ f \in Config /\ f.key \in {Paired, snap[t].key} BY <1>0, <1>1, PatchedType DEF At
  <1> HIDE DEF f
  <1>3. /\ req[t].key = NoKey /\ ~req[t].ok /\ req[t].offer = NoKey
        /\ job[t].opt \in Opts
    BY <1>0, <1>1 DEF Equipped, At, Asking
  <1>4. \A c \in Clients : client'[c].new # NoKey => client'[c].old \in Keys BY <1>0, <1>1 DEF Equipped
  <1>5. patchMu' = Free /\ snap' \in [Threads -> Config]
    BY <1>0, <1>1, Blank DEF Unlock, TypeOK
  <1>6. f.key \in Keys
    <2>1. snap[t] = file BY <1>0, <1>1 DEF Locked, At, Writing
    <2>2. QED BY <1>0, <1>2, <2>1, Kinds DEF TypeOK
  <1>7. CASE Rewritten(t, f) /\ Goes(t, "load") /\ UNCHANGED <<saveMu, req, job>>
    <2>1. pc' \in [Threads -> Places] /\ pc'[t] = "load" /\ \A u \in Threads : u # t => pc'[u] = pc[u]
      BY <1>0, <1>7, GoesType DEF Places
    <2>2. file' = f /\ left' = left BY <1>7 DEF Rewritten, NoFault
    <2>3. TypeOK' BY <1>0, <1>1, <1>2, <1>5, <1>6, <1>7, <2>1, <2>2 DEF TypeOK, sys
    <2>4. Equipped' BY <1>0, <1>3, <1>4, <1>7, <2>1, EquipOne DEF Asking, Adopting
    <2>5. QED BY <2>3, <2>4
  <1>8. CASE NotWritten(t) /\ Done(t)
    <2>1. DoneAfter(t) BY <1>0, <1>8, DoneType
    <2>2. file' = file BY <1>8 DEF NotWritten
    <2>3. left' \in [rotations : 0..MaxRotations, cancels : Nat, saves : Nat, mishaps : Nat]
      BY <1>0, <1>8, FaultType DEF NotWritten, NoFault, TypeOK
    <2>4. TypeOK' BY <1>0, <1>1, <1>5, <2>1, <2>2, <2>3 DEF TypeOK, sys, DoneAfter
    <2>5. Equipped' BY <1>0, <1>4, <2>1, DoneEquips
    <2>6. QED BY <2>4, <2>5
  <1>9. QED BY <1>1, <1>7, <1>8

(* A new client for the file takes the place of one that nobody uses. *)
ConnectAfter(t, c) ==
    /\ c \in Clients \ InUse
    /\ client' \in [Clients -> Client] /\ client'[c] = Fresh(file) /\ \A d \in Clients : d # c => client'[d] = client[d]
    /\ pc' \in [Threads -> Places] /\ pc'[t] = "sent" /\ req' \in [Threads -> Request]
    /\ req'[t].c = c /\ req'[t].key = file.key /\ ~req'[t].ok /\ req'[t].offer = NoKey /\ req'[t].kind = "handshake"
    /\ \A u \in Threads : u # t => pc'[u] = pc[u] /\ req'[u] = req[u]

LEMMA ConnectType ==
    ASSUME TypeOK, NEW t \in Threads, Connect(t, file)
    PROVE  \E c \in Clients : ConnectAfter(t, c)
  <1>1. PICK c \in Clients \ InUse :
            /\ client' = [client EXCEPT ![c] = Fresh(file)] /\ Goes(t, "sent")
            /\ req' = [req EXCEPT ![t] = [NoReq EXCEPT !.c = c, !.kind = "handshake", !.key = file.key]]
    BY DEF Connect
  <1> DEFINE r == [NoReq EXCEPT !.c = c, !.kind = "handshake", !.key = file.key]
  <1>2. file \in Config /\ file.key \in Keys BY DEF TypeOK
  <1>3. r \in Request /\ r.c = c /\ r.key = file.key /\ ~r.ok /\ r.offer = NoKey /\ r.kind = "handshake"
    BY <1>2, Blank DEF Request, AnyKey, NoReq
  <1>4. Fresh(file) \in Client BY <1>2, FreshType
  <1>5. pc' \in [Threads -> Places] /\ pc'[t] = "sent" /\ \A u \in Threads : u # t => pc'[u] = pc[u]
    BY <1>1, GoesType DEF Places
  <1>6. req' = [req EXCEPT ![t] = r] BY <1>1
  <1> HIDE DEF r
  <1>7. /\ req' \in [Threads -> Request] /\ req'[t] = r /\ \A u \in Threads : u # t => req'[u] = req[u]
    BY <1>3, <1>6 DEF TypeOK
  <1>8. /\ client' \in [Clients -> Client] /\ client'[c] = Fresh(file)
        /\ \A d \in Clients : d # c => client'[d] = client[d]
    BY <1>1, <1>4 DEF TypeOK
  <1>9. ConnectAfter(t, c) BY <1>1, <1>3, <1>5, <1>7, <1>8 DEF ConnectAfter
  <1>10. QED BY <1>1, <1>9

LEMMA LoadBase ==
    ASSUME SaveBase, NEW t \in Menus, Load(t)
    PROVE  TypeOK' /\ Equipped'
  <1>0. TypeOK /\ Equipped /\ t \in Threads BY Kinds DEF SaveBase
  <1>1. /\ At(t, "load") /\ UNCHANGED <<disk, cfg, engine, drainer, sys, link, left>> BY DEF Load
  <1>2. \A c \in Clients : client[c].new # NoKey => client[c].old \in Keys BY <1>0 DEF Equipped
  <1>3. CASE firstBlockingProblem(file) /\ Done(t) /\ UNCHANGED <<client, edited>>
    <2>1. DoneAfter(t) BY <1>0, <1>3, DoneType
    <2>2. TypeOK' BY <1>0, <1>1, <1>3, <2>1 DEF TypeOK, disk, sys, DoneAfter
    <2>3. Equipped' BY <1>0, <1>2, <1>3, <2>1, DoneEquips
    <2>4. QED BY <2>2, <2>3
  <1>4. CASE /\ ~firstBlockingProblem(file) /\ edited' = FALSE /\ Connect(t, file)
             /\ job' = [job EXCEPT ![t].opt = file.opt, ![t].srv = file.srv] /\ UNCHANGED saveMu
    <2>1. PICK c \in Clients : ConnectAfter(t, c) BY <1>0, <1>4, ConnectType
    <2>2. file \in Config /\ file.key \in Keys /\ file.opt \in Opts /\ file.srv \in {1, 2}
      <3>1. file \in Config /\ file.key \in Keys BY <1>0 DEF TypeOK
      <3>2. QED BY <3>1 DEF Config
    <2>3. job' \in [Menus -> Job] /\ job'[t].opt = file.opt /\ \A u \in Menus : u # t => job'[u] = job[u]
      <3>1. job \in [Menus -> Job] /\ job[t] \in Job BY <1>0, Fields DEF TypeOK
      <3>2. [job[t] EXCEPT !.opt = file.opt, !.srv = file.srv] \in Job BY <2>2, <3>1, Kinds DEF Job
      <3>3. [job[t] EXCEPT !.opt = file.opt, !.srv = file.srv].opt = file.opt BY <3>1 DEF Job
      <3>4. job' = [job EXCEPT ![t] = [job[t] EXCEPT !.opt = file.opt, !.srv = file.srv]] BY <1>4
      <3>5. QED BY <3>1, <3>2, <3>3, <3>4
    <2>4. TypeOK' BY <1>0, <1>1, <1>4, <2>1, <2>3 DEF TypeOK, disk, sys, ConnectAfter
    <2>5. \A d \in Clients : client'[d].new # NoKey => client'[d].old \in Keys
      BY <1>2, <2>1, <2>2, FreshType DEF ConnectAfter
    <2>6. Equipped'
      BY <1>0, <2>1, <2>2, <2>3, <2>5, EquipOne DEF Asking, Adopting, ConnectAfter
    <2>7. QED BY <2>4, <2>6
  <1>5. QED BY <1>3, <1>4 DEF Load

LEMMA InstallEngineBase ==
    ASSUME SaveBase, NEW t \in Menus, InstallEngine(t)
    PROVE  TypeOK' /\ Equipped'
  <1>0. TypeOK /\ Equipped /\ t \in Threads BY Kinds DEF SaveBase
  <1>1. /\ At(t, "engine") /\ cfg' = [srv |-> job[t].srv, opt |-> job[t].opt] /\ engine' = req[t].c /\ Goes(t, "drainer")
        /\ UNCHANGED <<disk, saveMu, edited, drainer, sys, client, req, job, link, left>>
    BY DEF InstallEngine
  <1>2. /\ req[t].key = NoKey /\ ~req[t].ok /\ req[t].offer = NoKey /\ job[t].opt \in Opts
    BY <1>0, <1>1 DEF Equipped, At, Asking
  <1>3. \A c \in Clients : client[c].new # NoKey => client[c].old \in Keys BY <1>0 DEF Equipped
  <1>4. job[t].srv \in {1, 2} /\ req[t].c \in Clients BY <1>0, Fields
  <1>5. pc' \in [Threads -> Places] /\ pc'[t] = "drainer" /\ \A u \in Threads : u # t => pc'[u] = pc[u]
    BY <1>0, <1>1, GoesType DEF Places
  <1>6. TypeOK' BY <1>0, <1>1, <1>2, <1>4, <1>5 DEF TypeOK, disk, sys
  <1>7. Equipped' BY <1>0, <1>1, <1>2, <1>3, <1>5, EquipOne DEF Asking, Adopting
  <1>8. QED BY <1>6, <1>7

LEMMA InstallDrainerBase ==
    ASSUME SaveBase, NEW t \in Menus, InstallDrainer(t)
    PROVE  TypeOK' /\ Equipped'
  <1>0. TypeOK /\ Equipped /\ t \in Threads BY Kinds DEF SaveBase
  <1>1. /\ At(t, "drainer") /\ drainer' = req[t].c /\ Done(t)
        /\ UNCHANGED <<disk, cfg, edited, engine, sys, client, link, left>>
    BY DEF InstallDrainer
  <1>2. \A c \in Clients : client[c].new # NoKey => client[c].old \in Keys BY <1>0 DEF Equipped
  <1>3. req[t].c \in Clients BY <1>0, Fields
  <1>4. DoneAfter(t) BY <1>0, <1>1, DoneType
  <1>5. TypeOK' BY <1>0, <1>1, <1>3, <1>4 DEF TypeOK, disk, sys, DoneAfter
  <1>6. Equipped' BY <1>0, <1>1, <1>2, <1>4, DoneEquips
  <1>7. QED BY <1>5, <1>6

LEMMA RotateBase ==
    ASSUME SaveBase, Rotate
    PROVE  /\ TypeOK' /\ Equipped'
           /\ left.rotations > 0 /\ left'.rotations = left.rotations - 1 /\ pending' = 1 + MaxRotations - left'.rotations
  <1>0. TypeOK /\ Equipped BY DEF SaveBase
  <1>1. /\ Spend("rotations") /\ pending' = 1 + MaxRotations - left'.rotations
        /\ past' = past \cup (IF pending = NoKey THEN {} ELSE {"withdrawn"})
                        \cup (IF \E t \in Threads : Unsettled(t) THEN {"overtaken"} ELSE {})
        /\ UNCHANGED <<disk, conf, current, client, pc, req, job, link>>
    BY DEF Rotate
  <1>2. left \in [rotations : 0..MaxRotations, cancels : Nat, saves : Nat, mishaps : Nat] BY <1>0 DEF TypeOK
  <1>3. /\ left' \in [rotations : 0..MaxRotations, cancels : Nat, saves : Nat, mishaps : Nat]
        /\ left.rotations > 0 /\ left'.rotations = left.rotations - 1
    BY <1>1, <1>2, Kinds DEF Spend
  <1>4. pending' \in AnyKey
    <2>1. left'.rotations \in 0..MaxRotations BY <1>3
    <2>2. QED BY <1>1, <2>1, Kinds DEF AnyKey, Keys
  <1>5. TypeOK' BY <1>0, <1>1, <1>3, <1>4 DEF TypeOK, disk, conf
  <1>6. Equipped' BY <1>0, <1>1 DEF Equipped
  <1>7. QED BY <1>1, <1>3, <1>5, <1>6

LEMMA CancelBase ==
    ASSUME SaveBase, Cancel
    PROVE  TypeOK' /\ Equipped' /\ left'.rotations = left.rotations
  <1>0. TypeOK /\ Equipped BY DEF SaveBase
  <1>1. left \in [rotations : 0..MaxRotations, cancels : Nat, saves : Nat, mishaps : Nat] BY <1>0 DEF TypeOK
  <1>2. /\ left' \in [rotations : 0..MaxRotations, cancels : Nat, saves : Nat, mishaps : Nat]
        /\ left'.rotations = left.rotations
    BY <1>1, FaultType DEF Cancel
  <1>3. TypeOK' BY <1>0, <1>2 DEF TypeOK, Cancel, disk, conf, AnyKey
  <1>4. Equipped' BY <1>0 DEF Equipped, Cancel
  <1>5. QED BY <1>2, <1>3, <1>4

LEMMA BeginBase ==
    ASSUME SaveBase, NEW t \in Workers, NEW c \in Clients, NEW kind \in {"handshake", "upload"}, Begin(t, c, kind)
    PROVE  TypeOK' /\ Equipped'
  <1>0. TypeOK /\ Equipped /\ t \in Threads /\ t \notin Menus BY Kinds DEF SaveBase
  <1> DEFINE r == [NoReq EXCEPT !.c = c, !.kind = kind, !.key = client[c].key]
  <1>1. /\ At(t, "off") /\ req' = [req EXCEPT ![t] = r] /\ Goes(t, "sent")
        /\ UNCHANGED <<disk, conf, sys, client, job, link, left>>
    BY DEF Begin
  <1>2. client[c].key \in Keys BY <1>0, Fields
  <1>3. r \in Request /\ r.key = client[c].key /\ ~r.ok /\ r.offer = NoKey
    BY <1>2, Blank DEF Request, AnyKey, NoReq
  <1> HIDE DEF r
  <1>4. pc' \in [Threads -> Places] /\ pc'[t] = "sent" /\ \A u \in Threads : u # t => pc'[u] = pc[u]
    BY <1>0, <1>1, GoesType DEF Places
  <1>5. /\ req' \in [Threads -> Request] /\ req'[t] = r /\ \A u \in Threads : u # t => req'[u] = req[u]
    BY <1>0, <1>1, <1>3 DEF TypeOK
  <1>6. TypeOK' BY <1>0, <1>1, <1>4, <1>5 DEF TypeOK, disk, conf, sys
  <1>7. \A d \in Clients : client[d].new # NoKey => client[d].old \in Keys BY <1>0 DEF Equipped
  <1>8. Equipped' BY <1>0, <1>1, <1>2, <1>3, <1>4, <1>5, <1>7, EquipOne DEF Asking, Adopting
  <1>9. QED BY <1>6, <1>8

LEMMA WantBase ==
    ASSUME SaveBase, NEW t \in Savers, NEW kind \in {"set", "reload", "pair"}, NEW opt \in Values,
           kind # "set" => opt = "a", Want(t, kind, opt)
    PROVE  TypeOK' /\ Equipped' /\ left'.rotations = left.rotations
  <1>0. TypeOK /\ Equipped /\ t \in Threads /\ t \in Menus BY Kinds DEF SaveBase
  <1> DEFINE j == [kind |-> kind, opt |-> opt, srv |-> 1]
  <1>1. /\ At(t, "off") /\ Spend("saves") /\ past' = past \cup {"saved"}
        /\ job' = [job EXCEPT ![t] = j] /\ Goes(t, "lock")
        /\ UNCHANGED <<disk, conf, current, pending, client, req, link>>
    BY DEF Want
  <1>2. j \in Job /\ j.opt = opt /\ j.kind = kind BY DEF Job
  <1> HIDE DEF j
  <1>3. pc' \in [Threads -> Places] /\ pc'[t] = "lock" /\ \A u \in Threads : u # t => pc'[u] = pc[u]
    BY <1>0, <1>1, GoesType DEF Places
  <1>4. /\ left' \in [rotations : 0..MaxRotations, cancels : Nat, saves : Nat, mishaps : Nat]
        /\ left'.rotations = left.rotations
    BY <1>0, <1>1, FaultType DEF TypeOK
  <1>5. job' \in [Menus -> Job] /\ job'[t] = j /\ \A u \in Menus : u # t => job'[u] = job[u]
    BY <1>0, <1>1, <1>2 DEF TypeOK
  <1>6. TypeOK' BY <1>0, <1>1, <1>3, <1>4, <1>5 DEF TypeOK, disk, conf
  <1>7. /\ req[t].key = NoKey /\ ~req[t].ok /\ req[t].offer = NoKey
        /\ \A c \in Clients : client[c].new # NoKey => client[c].old \in Keys
    BY <1>0, <1>1 DEF Equipped, At, Asking
  <1>8. job'[t].kind # "set" => job'[t].opt \in Opts BY <1>2, <1>5 DEF Opts
  <1>9. Equipped' BY <1>0, <1>1, <1>3, <1>5, <1>7, <1>8, EquipOne DEF Asking, Adopting
  <1>10. QED BY <1>4, <1>6, <1>9

LEMMA ElsewhereBase ==
    ASSUME SaveBase, NEW f \in Config, f.key \in Keys, Elsewhere(f),
           Spend("mishaps") \/ Spend("saves"), past' = past \/ past' = past \cup {"saved"}
    PROVE  TypeOK' /\ Equipped' /\ left'.rotations = left.rotations
  <1>0. TypeOK /\ Equipped BY DEF SaveBase
  <1>1. /\ left' \in [rotations : 0..MaxRotations, cancels : Nat, saves : Nat, mishaps : Nat]
        /\ left'.rotations = left.rotations
    BY <1>0, FaultType DEF TypeOK, Fault
  <1>2. TypeOK' BY <1>0, <1>1 DEF TypeOK, Elsewhere
  <1>3. Equipped' BY <1>0 DEF Equipped, Elsewhere
  <1>4. QED BY <1>1, <1>2, <1>3

(* What is written elsewhere is a configuration. *)
LEMMA HandEditType ==
    ASSUME TypeOK, NEW opt \in Opts, NEW bad \in Flaws
    PROVE  LET f == [file EXCEPT !.opt = opt, !.bad = bad] IN
           f \in Config /\ f.key = file.key /\ f.srv = file.srv /\ f.key \in Keys
  BY DEF TypeOK, Config

LEMMA PairedType ==
    ASSUME TypeOK
    PROVE  LET f == PairedWith(file) IN f \in Config /\ f.key = Paired /\ f.srv = 2 /\ f.key \in Keys
  BY Kinds DEF TypeOK, Config, PairedWith, AnyKey

LEMMA SubmitLinkBase ==
    ASSUME SaveBase, SubmitLink
    PROVE  TypeOK' /\ Equipped' /\ left'.rotations = left.rotations
  <1>0. TypeOK /\ Equipped /\ LinkInv /\ Link \in Threads BY Kinds DEF SaveBase
  <1>1. /\ Spend("saves") /\ past' = past \cup {"saved"} /\ link' = [has |-> TRUE, running |-> TRUE]
        /\ pc' = IF link.running THEN pc ELSE [pc EXCEPT ![Link] = "take"]
        /\ UNCHANGED <<disk, conf, current, pending, client, req, job>>
    BY DEF SubmitLink
  <1>2. /\ left' \in [rotations : 0..MaxRotations, cancels : Nat, saves : Nat, mishaps : Nat]
        /\ left'.rotations = left.rotations
    BY <1>0, <1>1, FaultType DEF TypeOK
  <1>3. pc' \in [Threads -> Places] BY <1>0, <1>1 DEF TypeOK, Places
  <1>4. TypeOK' BY <1>0, <1>1, <1>2, <1>3 DEF TypeOK, disk, conf
  <1>5. CASE link.running BY <1>0, <1>1, <1>2, <1>4, <1>5 DEF Equipped
  <1>6. CASE ~link.running
    <2>1. pc'[Link] = "take" /\ \A u \in Threads : u # Link => pc'[u] = pc[u]
      BY <1>0, <1>1, <1>6 DEF TypeOK
    <2>2. pc[Link] = "off" BY <1>0, <1>6 DEF LinkInv
    <2>3. /\ req[Link].key = NoKey /\ ~req[Link].ok /\ req[Link].offer = NoKey
          /\ job[Link].kind # "set" => job[Link].opt \in Opts
          /\ \A c \in Clients : client[c].new # NoKey => client[c].old \in Keys
      BY <1>0, <2>2, Kinds DEF Equipped, Asking
    <2>4. Equipped' BY <1>0, <1>1, <2>1, <2>3, EquipOne DEF Asking, Adopting
    <2>5. QED BY <1>2, <1>4, <2>4
  <1>7. QED BY <1>5, <1>6

LEMMA TakeLinkBase ==
    ASSUME SaveBase, TakeLink
    PROVE  TypeOK' /\ Equipped'
  <1>0. TypeOK /\ Equipped /\ Link \in Threads BY Kinds DEF SaveBase
  <1>1. At(Link, "take") /\ UNCHANGED <<disk, conf, sys, client, req, job, left>> BY DEF TakeLink
  <1>2. PICK place \in {"dialog", "off"} : Goes(Link, place) BY DEF TakeLink
  <1>3. pc' \in [Threads -> Places] /\ pc'[Link] = place /\ \A u \in Threads : u # Link => pc'[u] = pc[u]
    BY <1>0, <1>2, GoesType DEF Places
  <1>4. link' \in [has : BOOLEAN, running : BOOLEAN] BY <1>0 DEF TakeLink, EndsRunning, TypeOK
  <1>5. TypeOK' BY <1>0, <1>1, <1>3, <1>4 DEF TypeOK, disk, conf, sys
  <1>6. /\ req[Link].key = NoKey /\ ~req[Link].ok /\ req[Link].offer = NoKey
        /\ Link \in Menus /\ (job[Link].kind # "set" => job[Link].opt \in Opts)
        /\ \A c \in Clients : client[c].new # NoKey => client[c].old \in Keys
    BY <1>0, <1>1, Kinds DEF Equipped, Asking, At
  <1>7. Equipped' BY <1>0, <1>1, <1>2, <1>3, <1>6, EquipOne DEF Asking, Adopting
  <1>8. QED BY <1>5, <1>7

LEMMA ConfirmLinkBase ==
    ASSUME SaveBase, ConfirmLink
    PROVE  TypeOK' /\ Equipped'
  <1>0. TypeOK /\ Equipped /\ Link \in Threads /\ Link \in Menus BY Kinds DEF SaveBase
  <1>1. At(Link, "dialog") /\ UNCHANGED <<disk, conf, sys, client, req, link, left>> BY DEF ConfirmLink
  <1>2. PICK place \in {"lock", "take"} : Goes(Link, place) BY DEF ConfirmLink
  <1>3. pc' \in [Threads -> Places] /\ pc'[Link] = place /\ \A u \in Threads : u # Link => pc'[u] = pc[u]
    BY <1>0, <1>2, GoesType DEF Places
  <1>4. job' = job \/ job' = [job EXCEPT ![Link] = [kind |-> "pair", opt |-> "a", srv |-> 1]]
    BY DEF ConfirmLink
  <1>5. [kind |-> "pair", opt |-> "a", srv |-> 1] \in Job BY Kinds DEF Job, Opts
  <1>6. /\ job' \in [Menus -> Job] /\ \A u \in Menus : u # Link => job'[u] = job[u]
        /\ job'[Link] = job[Link] \/ (job'[Link].kind = "pair" /\ job'[Link].opt = "a")
    BY <1>0, <1>4, <1>5 DEF TypeOK
  <1>7. TypeOK' BY <1>0, <1>1, <1>3, <1>6 DEF TypeOK, disk, conf, sys
  <1>8. /\ req[Link].key = NoKey /\ ~req[Link].ok /\ req[Link].offer = NoKey
        /\ job[Link].kind # "set" => job[Link].opt \in Opts
        /\ \A c \in Clients : client[c].new # NoKey => client[c].old \in Keys
    BY <1>0, <1>1 DEF Equipped, Asking, At
  <1>9. job'[Link].kind # "set" => job'[Link].opt \in Opts BY <1>6, <1>8 DEF Opts
  <1>10. Equipped' BY <1>0, <1>1, <1>2, <1>3, <1>6, <1>8, <1>9, EquipOne DEF Asking, Adopting
  <1>11. QED BY <1>7, <1>10

(* The agent starts with what config.yaml says. *)
LEMMA BootType ==
    ASSUME NEW f \in Config, f.key \in Keys, Boot(f), file' = f,
           current' \in Keys, pending' \in AnyKey, past' \subseteq {"withdrawn", "overtaken", "restarted", "saved"},
           left' \in [rotations : 0..MaxRotations, cancels : Nat, saves : Nat, mishaps : Nat]
    PROVE  TypeOK' /\ Equipped'
  <1>1. Fresh(f) \in Client /\ Fresh(f).new = NoKey BY FreshType
  <1>2. f.srv \in {1, 2} /\ f.opt \in Opts BY DEF Config
  <1>3. TypeOK'
    BY <1>1, <1>2, Blank, Kinds DEF TypeOK, Boot, Places
  <1>4. Equipped'
    BY <1>1, Blank DEF Equipped, Boot, Asking, Adopting, NoJob, Opts
  <1>5. QED BY <1>3, <1>4

LEMMA CrashBase ==
    ASSUME SaveBase, Crash
    PROVE  TypeOK' /\ Equipped' /\ left'.rotations = left.rotations
  <1>0. TypeOK BY DEF SaveBase
  <1>1. /\ left' \in [rotations : 0..MaxRotations, cancels : Nat, saves : Nat, mishaps : Nat]
        /\ left'.rotations = left.rotations
    BY <1>0, FaultType DEF TypeOK, Crash, Fault
  <1>2. /\ Boot(file) /\ file' = file /\ current' = current /\ pending' = pending
        /\ past' = past \cup {"restarted"} BY DEF Crash
  <1>3. /\ file \in Config /\ file.key \in Keys /\ current \in Keys /\ pending \in AnyKey
        /\ past \subseteq {"withdrawn", "overtaken", "restarted", "saved"}
    BY <1>0 DEF TypeOK
  <1>4. QED BY <1>1, <1>2, <1>3, BootType

LEMMA InitBase == Init => TypeOK /\ Equipped
  <1>1. SUFFICES ASSUME Init PROVE TypeOK /\ Equipped OBVIOUS
  <1>2. file \in Config /\ file.key \in Keys BY <1>1, Kinds DEF Init, Config, AnyKey, Opts, Flaws
  <1>3. Fresh(file) \in Client /\ Fresh(file).new = NoKey BY <1>2, FreshType
  <1>4. left \in [rotations : 0..MaxRotations, cancels : Nat, saves : Nat, mishaps : Nat]
    BY <1>1, CredentialsAssumption DEF Init
  <1>5. TypeOK
    BY <1>1, <1>2, <1>3, <1>4, Blank, Kinds DEF TypeOK, Init, Places, AnyKey, Opts
  <1>6. Equipped
    BY <1>1, <1>3, Blank DEF Equipped, Init, Asking, Adopting, NoJob, Opts
  <1>7. QED BY <1>5, <1>6

-----------------------------------------------------------------------------
(* Locks, deep links and saves *)

Quiet == {"off", "lock", "take", "dialog"}

(* The locks stay as they are, as a thread goes on. *)
LEMMA LocksOn ==
    ASSUME Locked, NEW t \in Threads,
           \A u \in Threads : u # t => pc'[u] = pc[u],
           t \in Menus => (pc'[t] \in Quiet <=> pc[t] \in Quiet),
           pc'[t] \in Writing <=> pc[t] \in Writing,
           saveMu' = saveMu, patchMu' = patchMu, snap' = snap, file' = file
    PROVE  Locked'
  <1>1. \A u \in Menus : Saving(u)' <=> saveMu' = u BY Kinds DEF Locked, Saving, Quiet
  <1>2. \A u \in Threads : pc'[u] \in Writing <=> patchMu' = u BY DEF Locked
  <1>3. QED BY <1>1, <1>2 DEF Locked

(* A patch ends. *)
LEMMA LocksOff ==
    ASSUME Locked, NEW t \in Threads,
           \A u \in Threads : u # t => pc'[u] = pc[u],
           t \in Menus => (pc'[t] \in Quiet <=> pc[t] \in Quiet),
           pc[t] \in Writing, pc'[t] \notin Writing, saveMu' = saveMu, patchMu' = Free
    PROVE  Locked'
  <1>1. \A u \in Menus : Saving(u)' <=> saveMu' = u BY Kinds DEF Locked, Saving, Quiet
  <1>2. \A u \in Threads : ~(pc'[u] \in Writing) /\ patchMu' # u BY Kinds DEF Locked
  <1>3. QED BY <1>1, <1>2 DEF Locked

(* A save ends, and a patch of its own with it. *)
LEMMA LocksDone ==
    ASSUME TypeOK, Locked, NEW t \in Menus, DoneAfter(t), pc[t] \notin Quiet \/ saveMu = Free,
           \/ pc[t] \notin Writing /\ patchMu' = patchMu /\ snap' = snap /\ file' = file
           \/ pc[t] \in Writing /\ patchMu' = Free
    PROVE  Locked'
  <1>1. pc'[t] \in Quiet /\ pc'[t] \notin Writing /\ saveMu' = Free BY DEF DoneAfter, Quiet, Writing
  <1>2. \A u \in Menus : u # t => pc'[u] = pc[u] BY Kinds DEF DoneAfter
  <1>3. \A u \in Menus : u # t => pc[u] \in Quiet
    BY Kinds DEF Locked, Saving, Quiet
  <1>4. \A u \in Menus : Saving(u)' <=> saveMu' = u BY <1>1, <1>2, <1>3, Kinds DEF Saving, Quiet
  <1>5. \A u \in Threads : pc'[u] \in Writing <=> patchMu' = u
    BY <1>1, Kinds DEF Locked, DoneAfter
  <1>6. \A u \in Threads : patchMu' = u => snap'[u] = file' BY Kinds DEF Locked
  <1>7. QED BY <1>4, <1>5, <1>6 DEF Locked

(* The goroutine for deep links neither ends nor begins. *)
LEMMA LinkOn ==
    ASSUME LinkInv, link' = link, pc'[Link] # "off" <=> pc[Link] # "off"
    PROVE  LinkInv'
  BY DEF LinkInv

(* Nothing of what a save has to do with changes. *)
LEMMA SaveOn ==
    ASSUME SaveInv, NEW t \in Threads,
           \A u \in Threads : u # t => pc'[u] = pc[u] /\ req'[u] = req[u],
           UNCHANGED <<cfg, edited, engine, drainer, job>>,
           file'.srv = file.srv /\ file'.opt = file.opt /\ file'.bad = file.bad,
           \A c \in Clients : client'[c].srv = client[c].srv,
           engine \in Clients, \A u \in Threads : req[u].c \in Clients,
           t \in Menus => /\ pc'[t] \in Loaded => pc[t] \in Loaded /\ req'[t].c = req[t].c
                          /\ pc'[t] = "drainer" <=> pc[t] = "drainer"
                          /\ pc[t] \in Loaded \cup {"load"} => pc'[t] \in Loaded \cup {"load"}
    PROVE  SaveInv'
  <1>1. \A u \in Menus : /\ pc'[u] \in Loaded => pc[u] \in Loaded /\ req'[u].c = req[u].c
                         /\ pc'[u] = "drainer" <=> pc[u] = "drainer"
                         /\ pc[u] \in Loaded \cup {"load"} => pc'[u] \in Loaded \cup {"load"}
    BY Kinds
  <1>2. file'.bad # "none" => edited' BY DEF SaveInv
  <1>3. (\A u \in Menus : pc'[u] # "drainer") => engine' = drainer' BY <1>1 DEF SaveInv
  <1>4. (\A u \in Menus : pc'[u] \notin Loaded \cup {"load"}) /\ ~edited' =>
            cfg' = [srv |-> file'.srv, opt |-> file'.opt] /\ client'[engine'].srv = file'.srv
    BY <1>1 DEF SaveInv
  <1>5. \A u \in Menus : pc'[u] \in Loaded =>
            /\ client'[req'[u].c].srv = job'[u].srv
            /\ ~edited' => job'[u].srv = file'.srv /\ job'[u].opt = file'.opt
    BY <1>1, Kinds DEF SaveInv
  <1>6. \A u \in Menus : pc'[u] = "drainer" => engine' = req'[u].c /\ cfg' = [srv |-> job'[u].srv, opt |-> job'[u].opt]
    BY <1>1 DEF SaveInv, Loaded
  <1>7. QED BY <1>2, <1>3, <1>4, <1>5, <1>6 DEF SaveInv

(* A request goes on: no save begins or ends. *)
Talks(t) ==
    /\ pc[t] \in Asking /\ pc'[t] \in Asking \cup (IF t \in Menus THEN {"engine"} ELSE {"off"})
    /\ \A u \in Threads : u # t => pc'[u] = pc[u] /\ req'[u] = req[u]
    /\ t \in Menus => req'[t].c = req[t].c
    /\ \A c \in Clients : client'[c].srv = client[c].srv
    /\ UNCHANGED <<conf, job, link>>

LEMMA TalkSave ==
    ASSUME SaveBase, NEW t \in Threads, Talks(t),
           \/ /\ UNCHANGED <<patchMu, snap, file>> /\ (pc'[t] \in Writing <=> pc[t] \in Writing)
           \/ /\ pc[t] \in Writing /\ pc'[t] \notin Writing /\ patchMu' = Free
              /\ file'.srv = file.srv /\ file'.opt = file.opt /\ file'.bad = file.bad
    PROVE  Locked' /\ LinkInv' /\ SaveInv'
  <1>0. TypeOK /\ Locked /\ LinkInv /\ SaveInv BY DEF SaveBase
  <1>1. t \in Menus => pc[t] \notin Quiet /\ pc'[t] \notin Quiet /\ pc[t] \in Loaded /\ pc'[t] \in Loaded
                       /\ pc[t] # "drainer" /\ pc'[t] # "drainer"
    BY DEF Talks, Asking, Quiet, Loaded
  <1>2. UNCHANGED <<cfg, saveMu, edited, engine, drainer, job, link>> BY DEF Talks, conf
  <1>3. Locked'
    <2>1. CASE UNCHANGED <<patchMu, snap, file>> /\ (pc'[t] \in Writing <=> pc[t] \in Writing)
      BY <1>0, <1>1, <1>2, <2>1, LocksOn DEF Talks
    <2>2. CASE pc[t] \in Writing /\ pc'[t] \notin Writing /\ patchMu' = Free
      BY <1>0, <1>1, <1>2, <2>2, LocksOff DEF Talks
    <2>3. QED BY <2>1, <2>2
  <1>4. LinkInv'
    <2>1. pc'[Link] # "off" <=> pc[Link] # "off" BY <1>1, Kinds DEF Talks, Quiet
    <2>2. QED BY <1>0, <1>2, <2>1, LinkOn
  <1>5. file'.srv = file.srv /\ file'.opt = file.opt /\ file'.bad = file.bad OBVIOUS
  <1>6. engine \in Clients /\ \A u \in Threads : req[u].c \in Clients BY <1>0, Fields DEF TypeOK
  <1>7. SaveInv' BY <1>0, <1>1, <1>2, <1>5, <1>6, SaveOn DEF Talks
  <1>8. QED BY <1>3, <1>4, <1>7

(* The client of a request put back, with its server. *)
LEMMA PutSrv ==
    ASSUME TypeOK, NEW t \in Threads, NEW cl \in Client, cl.srv = C(t).srv, Put(t, cl)
    PROVE  \A c \in Clients : client'[c].srv = client[c].srv
  BY PutType, Fields

LEMMA RestSrv ==
    ASSUME TypeOK, NEW t \in Threads, NEW cl \in Client, cl.srv = C(t).srv, RestAfter(t, cl)
    PROVE  /\ \A c \in Clients : client'[c].srv = client[c].srv
           /\ t \in Menus => req'[t].c = req[t].c
           /\ pc'[t] \in {"adopt"} \cup (IF t \in Menus THEN {"engine"} ELSE {"off"})
           /\ \A u \in Threads : u # t => pc'[u] = pc[u] /\ req'[u] = req[u]
  <1>1. Unlocked(t, cl).srv = cl.srv BY UnlockedType
  <1>2. C(t) = client[req[t].c] /\ req[t].c \in Clients BY Fields
  <1>3. \A c \in Clients : client'[c].srv = client[c].srv BY <1>1, <1>2 DEF RestAfter
  <1>4. QED BY <1>3 DEF RestAfter

LEMMA SendSave ==
    ASSUME SaveBase, NEW t \in Threads, Send(t)
    PROVE  SaveBase'
  <1>0. TypeOK /\ UNCHANGED <<disk, conf, past, job, link>> /\ pc[t] = "sent" BY DEF SaveBase, Send, At
  <1>1. UNCHANGED <<patchMu, snap, file, conf, job, link>> BY <1>0 DEF disk
  <1>2. CASE /\ Goes(t, "answered") /\ UNCHANGED client
             /\ req' = [req EXCEPT ![t].ok = Accepts(C(t).srv, req[t].key),
                                ![t].offer = IF req[t].kind = "handshake" /\ C(t).srv = 1 /\ req[t].key = current THEN pending ELSE NoKey]
    <2>1. pc'[t] = "answered" /\ \A u \in Threads : u # t => pc'[u] = pc[u]
      BY <1>0, <1>2, GoesType DEF Places
    <2>2. req'[t].c = req[t].c /\ \A u \in Threads : u # t => req'[u] = req[u]
      <3>1. req \in [Threads -> Request] /\ req[t] \in Request BY <1>0, Fields DEF TypeOK
      <3>2. QED BY <1>2, <3>1 DEF Request
    <2>3. Talks(t) BY <1>0, <1>1, <1>2, <2>1, <2>2 DEF Talks, Asking
    <2>4. QED BY <1>0, <1>1, <2>1, <2>3, TalkSave, SendBase DEF SaveBase, Writing
  <1>3. CASE Finish(t) /\ Put(t, Unlocked(t, C(t)))
    <2>1. C(t) \in Client BY <1>0, Fields
    <2>2. Unlocked(t, C(t)) \in Client /\ Unlocked(t, C(t)).srv = C(t).srv BY <2>1, UnlockedType
    <2>3. \A c \in Clients : client'[c].srv = client[c].srv BY <1>0, <1>3, <2>2, PutSrv
    <2>4. Talks(t) BY <1>0, <1>1, <1>3, <2>3, FinishType DEF Talks, Asking
    <2>5. pc'[t] \notin Writing BY <1>0, <1>3, FinishType DEF Writing
    <2>6. QED BY <1>0, <1>1, <2>4, <2>5, TalkSave, SendBase DEF SaveBase, Writing
  <1>4. QED BY <1>2, <1>3 DEF Send

LEMMA ObserveSave ==
    ASSUME SaveBase, NEW t \in Threads, Observe(t)
    PROVE  SaveBase'
  <1> DEFINE d == Decide(C(t), req[t].key, req[t].ok)
  <1>0. TypeOK /\ Equipped /\ pc[t] = "answered" BY DEF SaveBase, Observe, At
  <1>1. UNCHANGED <<patchMu, snap, file, conf, job, link>> BY DEF Observe, disk
  <1>2. /\ C(t) \in Client /\ req[t].key \in Keys /\ req[t].ok \in BOOLEAN /\ (C(t).new # NoKey => C(t).old \in Keys)
        /\ req \in [Threads -> Request] /\ req[t] \in Request
    BY <1>0, Fields DEF Equipped, Asking, TypeOK
  <1>3. d.cl \in Client /\ d.cl.srv = C(t).srv BY <1>2, DecideType
  <1>4. \/ Goes(t, "restore") /\ Put(t, d.cl) /\ UNCHANGED req
        \/ req' = [req EXCEPT ![t].key = d.retry, ![t].tries = 1] /\ Goes(t, "sent") /\ Put(t, d.cl)
        \/ Rest(t, d.cl)
    BY DEF Observe
  <1> HIDE DEF d
  <1>5. Talks(t) /\ pc'[t] \notin Writing
    <2>1. CASE Goes(t, "restore") /\ Put(t, d.cl) /\ UNCHANGED req
      <3>1. pc'[t] = "restore" /\ \A u \in Threads : u # t => pc'[u] = pc[u]
        BY <1>0, <2>1, GoesType DEF Places
      <3>2. QED BY <1>0, <1>1, <1>3, <2>1, <3>1, PutSrv DEF Talks, Asking, Writing
    <2>2. CASE req' = [req EXCEPT ![t].key = d.retry, ![t].tries = 1] /\ Goes(t, "sent") /\ Put(t, d.cl)
      <3>1. pc'[t] = "sent" /\ \A u \in Threads : u # t => pc'[u] = pc[u]
        BY <1>0, <2>2, GoesType DEF Places
      <3>2. req'[t].c = req[t].c /\ \A u \in Threads : u # t => req'[u] = req[u] BY <1>2, <2>2 DEF Request
      <3>3. QED BY <1>0, <1>1, <1>3, <2>2, <3>1, <3>2, PutSrv DEF Talks, Asking, Writing
    <2>3. CASE Rest(t, d.cl)
      <3>1. RestAfter(t, d.cl) BY <1>0, <1>3, <2>3, RestType
      <3>2. QED BY <1>0, <1>1, <1>3, <3>1, RestSrv DEF Talks, Asking, Writing
    <2>4. QED BY <1>4, <2>1, <2>2, <2>3
  <1>6. QED BY <1>0, <1>1, <1>5, TalkSave, ObserveBase DEF SaveBase, Writing

LEMMA ReadSave ==
    ASSUME SaveBase, NEW t \in Threads, Read(t)
    PROVE  SaveBase'
  <1>0. TypeOK /\ Locked /\ LinkInv /\ SaveInv BY DEF SaveBase
  <1>1. /\ pc[t] \in Rewrites /\ PatchMuFree /\ patchMu' = t /\ snap' = [snap EXCEPT ![t] = file]
        /\ Goes(t, Writes[pc[t]]) /\ UNCHANGED <<file, conf, sys, client, req, job, link, left>>
    BY DEF Read
  <1>2. pc'[t] = Writes[pc[t]] /\ \A u \in Threads : u # t => pc'[u] = pc[u]
    BY <1>0, <1>1, GoesType DEF Places, Writes, Rewrites
  <1>3. /\ \/ pc[t] = "patch" /\ pc'[t] = "patching"
           \/ pc[t] = "persist" /\ pc'[t] = "persisting"
           \/ pc[t] = "restore" /\ pc'[t] = "restoring"
    BY <1>1, <1>2 DEF Rewrites, Writes
  <1>4. snap'[t] = file BY <1>0, <1>1 DEF TypeOK
  <1>5. UNCHANGED <<cfg, saveMu, edited, engine, drainer, job, link, file, req, client>> BY <1>1 DEF conf
  <1>6. Locked'
    <2>1. pc[t] \notin Quiet /\ pc'[t] \notin Quiet BY <1>3 DEF Quiet
    <2>2. \A u \in Menus : Saving(u)' <=> saveMu' = u BY <1>0, <1>2, <1>5, <2>1, Kinds DEF Locked, Saving, Quiet
    <2>3. \A u \in Threads : pc[u] \notin Writing BY <1>0, <1>1, Kinds DEF Locked, PatchMuFree
    <2>4. pc'[t] \in Writing BY <1>3 DEF Writing
    <2>5. \A u \in Threads : pc'[u] \in Writing <=> patchMu' = u BY <1>1, <1>2, <2>3, <2>4
    <2>6. QED BY <1>1, <1>4, <1>5, <2>2, <2>5 DEF Locked
  <1>7. LinkInv'
    <2>1. pc'[Link] # "off" <=> pc[Link] # "off" BY <1>2, <1>3, Kinds
    <2>2. QED BY <1>0, <1>5, <2>1, LinkOn
  <1>8. SaveInv'
    <2>1. engine \in Clients /\ \A u \in Threads : req[u].c \in Clients BY <1>0, Fields DEF TypeOK
    <2>2. /\ pc'[t] \in Loaded => pc[t] \in Loaded
          /\ pc'[t] = "drainer" <=> pc[t] = "drainer"
          /\ pc[t] \in Loaded \cup {"load"} => pc'[t] \in Loaded \cup {"load"}
      BY <1>3 DEF Loaded, Asking
    <2>3. QED BY <1>0, <1>2, <1>5, <2>1, <2>2, SaveOn
  <1>9. QED BY <1>6, <1>7, <1>8, ReadBase DEF SaveBase

(* A new key in the file leaves the rest of it. *)
LEMMA SetKeyRest ==
    ASSUME TypeOK, Locked, NEW t \in Threads, NEW key \in Keys, pc[t] \in Writing, Unlock(t),
           SetKey(t, key) \/ NotWritten(t)
    PROVE  /\ file'.srv = file.srv /\ file'.opt = file.opt /\ file'.bad = file.bad /\ patchMu' = Free
           /\ (SetKey(t, key) /\ file'.key = key) \/ file' = file
  <1>1. snap[t] = file BY DEF Locked
  <1>2. QED BY <1>1, SetKeyType DEF TypeOK

LEMMA RestoreSave ==
    ASSUME SaveBase, NEW t \in Threads, Restore(t)
    PROVE  SaveBase'
  <1>0. TypeOK /\ Equipped /\ Locked /\ pc[t] = "restoring" BY DEF SaveBase, Restore, At
  <1>1. UNCHANGED <<conf, job, link>> BY DEF Restore
  <1>2. C(t) \in Client /\ req[t].key \in Keys BY <1>0, Fields DEF Equipped, Asking
  <1>3. PICK cl \in {C(t), Armed(C(t), req[t].key)} : Rest(t, cl) BY DEF Restore
  <1>4. cl \in Client /\ cl.srv = C(t).srv BY <1>2, <1>3, ArmedType
  <1>5. RestAfter(t, cl) BY <1>0, <1>3, <1>4, RestType
  <1>6. Talks(t) /\ pc'[t] \notin Writing BY <1>0, <1>1, <1>4, <1>5, RestSrv DEF Talks, Asking, Writing
  <1>7. /\ file'.srv = file.srv /\ file'.opt = file.opt /\ file'.bad = file.bad /\ patchMu' = Free
    BY <1>0, <1>2, SetKeyRest DEF Restore, Writing
  <1>8. QED BY <1>0, <1>6, <1>7, TalkSave, RestoreBase DEF SaveBase, Writing

LEMMA AdoptSave ==
    ASSUME SaveBase, NEW t \in Threads, Adopt(t)
    PROVE  SaveBase'
  <1>0. TypeOK /\ pc[t] = "adopt" BY DEF SaveBase, Adopt, At
  <1>1. UNCHANGED <<patchMu, snap, file, conf, job, link>> BY DEF Adopt, disk
  <1>2. C(t) \in Client BY <1>0, Fields
  <1>3. Talks(t) /\ pc'[t] \notin Writing
    <2>1. CASE Put(t, [C(t) EXCEPT !.adoptMu = t]) /\ Goes(t, "persist") /\ UNCHANGED req
      <3>1. [C(t) EXCEPT !.adoptMu = t] \in Client /\ [C(t) EXCEPT !.adoptMu = t].srv = C(t).srv BY <1>2 DEF Client
      <3>2. \A c \in Clients : client'[c].srv = client[c].srv BY <1>0, <2>1, <3>1, PutSrv
      <3>3. pc'[t] = "persist" /\ \A u \in Threads : u # t => pc'[u] = pc[u]
        BY <1>0, <2>1, GoesType DEF Places
      <3>4. QED BY <1>0, <1>1, <2>1, <3>2, <3>3 DEF Talks, Asking, Writing
    <2>2. CASE Finish(t) /\ UNCHANGED client
      BY <1>0, <1>1, <2>2, FinishType DEF Talks, Asking, Writing
    <2>3. QED BY <2>1, <2>2 DEF Adopt
  <1>4. QED BY <1>0, <1>1, <1>3, TalkSave, AdoptBase DEF SaveBase, Writing

LEMMA PersistSave ==
    ASSUME SaveBase, NEW t \in Threads, Persist(t)
    PROVE  SaveBase'
  <1>0. TypeOK /\ Equipped /\ Locked /\ pc[t] = "persisting" BY DEF SaveBase, Persist, At
  <1>1. UNCHANGED <<conf, job, link>> BY DEF Persist
  <1>2. C(t) \in Client /\ req[t].offer \in Keys BY <1>0, Fields DEF Equipped, Adopting
  <1>3. Talks(t) /\ pc'[t] \notin Writing
    <2>1. CASE Goes(t, "switch") /\ UNCHANGED <<client, req>>
      <3>1. pc'[t] = "switch" /\ \A u \in Threads : u # t => pc'[u] = pc[u]
        BY <1>0, <2>1, GoesType DEF Places
      <3>2. QED BY <1>0, <1>1, <2>1, <3>1 DEF Talks, Asking, Writing
    <2>2. CASE Finish(t) /\ Put(t, Unlocked(t, C(t)))
      <3>1. Unlocked(t, C(t)) \in Client /\ Unlocked(t, C(t)).srv = C(t).srv BY <1>2, UnlockedType
      <3>2. \A c \in Clients : client'[c].srv = client[c].srv BY <1>0, <2>2, <3>1, PutSrv
      <3>3. QED BY <1>0, <1>1, <2>2, <3>2, FinishType DEF Talks, Asking, Writing
    <2>3. QED BY <2>1, <2>2 DEF Persist
  <1>4. /\ file'.srv = file.srv /\ file'.opt = file.opt /\ file'.bad = file.bad /\ patchMu' = Free
    BY <1>0, <1>2, SetKeyRest DEF Persist, Writing
  <1>5. QED BY <1>0, <1>3, <1>4, TalkSave, PersistBase DEF SaveBase, Writing

LEMMA SwitchSave ==
    ASSUME SaveBase, NEW t \in Threads, Switch(t)
    PROVE  SaveBase'
  <1> DEFINE cl == [C(t) EXCEPT !.key = req[t].offer, !.new = req[t].offer, !.old = req[t].key]
             r == [NoReq EXCEPT !.c = req[t].c, !.kind = "confirm", !.key = req[t].offer]
  <1>0. TypeOK /\ Equipped /\ pc[t] = "switch" BY DEF SaveBase, Switch, At
  <1>1. UNCHANGED <<patchMu, snap, file, conf, job, link>> BY DEF Switch, disk
  <1>2. C(t) \in Client /\ req[t].key \in Keys /\ req[t].offer \in Keys BY <1>0, Fields DEF Equipped, Asking, Adopting
  <1>3. cl \in Client /\ cl.srv = C(t).srv BY <1>2 DEF Client, AnyKey
  <1>4. r.c = req[t].c BY DEF NoReq
  <1>5. Put(t, cl) /\ Goes(t, "sent") /\ req' = [req EXCEPT ![t] = r] BY DEF Switch
  <1> HIDE DEF cl, r
  <1>6. pc'[t] = "sent" /\ \A u \in Threads : u # t => pc'[u] = pc[u]
    BY <1>0, <1>5, GoesType DEF Places
  <1>7. req'[t].c = req[t].c /\ \A u \in Threads : u # t => req'[u] = req[u] BY <1>0, <1>4, <1>5 DEF TypeOK
  <1>8. Talks(t) BY <1>0, <1>1, <1>3, <1>5, <1>6, <1>7, PutSrv DEF Talks, Asking
  <1>9. QED BY <1>0, <1>1, <1>6, <1>8, TalkSave, SwitchBase DEF SaveBase, Writing

LEMMA BeginSave ==
    ASSUME SaveBase, NEW t \in Workers, NEW c \in Clients, NEW kind \in {"handshake", "upload"}, Begin(t, c, kind)
    PROVE  SaveBase'
  <1>0. TypeOK /\ Locked /\ LinkInv /\ SaveInv /\ t \in Threads /\ t \notin Menus /\ t # Link /\ pc[t] = "off"
    BY Kinds DEF SaveBase, Begin, At
  <1>1. Goes(t, "sent") /\ UNCHANGED <<patchMu, snap, file, cfg, saveMu, edited, engine, drainer, job, link, client>>
    BY DEF Begin, disk, conf
  <1>2. pc'[t] = "sent" /\ \A u \in Threads : u # t => pc'[u] = pc[u]
    BY <1>0, <1>1, GoesType DEF Places
  <1>3. \A u \in Threads : u # t => req'[u] = req[u] BY <1>0 DEF Begin, TypeOK
  <1>4. Locked' BY <1>0, <1>1, <1>2, LocksOn DEF Writing
  <1>5. LinkInv' BY <1>0, <1>1, <1>2, Kinds, LinkOn
  <1>6. engine \in Clients /\ \A u \in Threads : req[u].c \in Clients BY <1>0, Fields DEF TypeOK
  <1>7. SaveInv' BY <1>0, <1>1, <1>2, <1>3, <1>6, SaveOn
  <1>8. QED BY <1>4, <1>5, <1>7, BeginBase DEF SaveBase

LEMMA WantSave ==
    ASSUME SaveBase, NEW t \in Savers, NEW kind \in {"set", "reload", "pair"}, NEW opt \in Values,
           kind # "set" => opt = "a", Want(t, kind, opt)
    PROVE  SaveBase'
  <1>0. TypeOK /\ Locked /\ LinkInv /\ SaveInv /\ t \in Threads /\ t \in Menus /\ t # Link /\ pc[t] = "off"
    BY Kinds DEF SaveBase, Want, At
  <1>1. Goes(t, "lock") /\ UNCHANGED <<patchMu, snap, file, cfg, saveMu, edited, engine, drainer, req, link, client>>
    BY DEF Want, disk, conf
  <1>2. pc'[t] = "lock" /\ \A u \in Threads : u # t => pc'[u] = pc[u]
    BY <1>0, <1>1, GoesType DEF Places
  <1>3. \A u \in Menus : u # t => job'[u] = job[u] BY <1>0 DEF Want, TypeOK
  <1>4. Locked' BY <1>0, <1>1, <1>2, LocksOn DEF Writing, Quiet
  <1>5. LinkInv' BY <1>0, <1>1, <1>2, Kinds, LinkOn
  <1>6. \A u \in Menus : /\ pc'[u] \in Loaded => pc[u] \in Loaded /\ job'[u] = job[u]
                         /\ pc'[u] = "drainer" <=> pc[u] = "drainer"
                         /\ pc[u] \in Loaded \cup {"load"} <=> pc'[u] \in Loaded \cup {"load"}
    BY <1>0, <1>2, <1>3, Kinds DEF Loaded, Asking
  <1>7. SaveInv' BY <1>0, <1>1, <1>6 DEF SaveInv, Loaded
  <1>8. QED BY <1>4, <1>5, <1>7, WantBase DEF SaveBase

(* A save ends without a file of its own. *)
LEMMA DoneSave ==
    ASSUME SaveInv, Equipped, TypeOK, NEW t \in Menus, DoneAfter(t), pc[t] \notin Loaded,
           UNCHANGED <<cfg, edited, engine, drainer, client, file>>,
           pc[t] # "load" \/ file.bad # "none"
    PROVE  SaveInv'
  <1>1. \A u \in Menus : u # t => pc'[u] = pc[u] /\ req'[u] = req[u] /\ job'[u] = job[u] BY Kinds DEF DoneAfter
  <1>2. pc'[t] \notin Loaded \cup {"load"} /\ pc'[t] # "drainer" /\ pc[t] # "drainer" BY DEF DoneAfter, Loaded, Asking
  <1>3. (\A u \in Menus : pc'[u] # "drainer") => \A u \in Menus : pc[u] # "drainer" BY <1>1, <1>2
  <1>4. (\A u \in Menus : pc'[u] \notin Loaded \cup {"load"}) /\ ~edited => \A u \in Menus : pc[u] \notin Loaded \cup {"load"}
    BY <1>1 DEF SaveInv
  <1>5. QED BY <1>1, <1>2, <1>3, <1>4 DEF SaveInv

LEMMA DoneLink ==
    ASSUME LinkInv, NEW t \in Menus, DoneAfter(t), pc[t] # "off", link' = link
    PROVE  LinkInv'
  <1>1. pc'[Link] # "off" <=> pc[Link] # "off" BY Kinds DEF DoneAfter
  <1>2. QED BY <1>1, LinkOn

LEMMA ValidateSave ==
    ASSUME SaveBase, NEW t \in Menus, Validate(t)
    PROVE  SaveBase'
  <1>0. TypeOK /\ Equipped /\ Locked /\ LinkInv /\ SaveInv /\ t \in Threads /\ pc[t] = "lock" /\ saveMu = Free
    BY Kinds DEF SaveBase, Validate, At, SaveMuFree
  <1>1. UNCHANGED <<patchMu, snap, file, cfg, edited, engine, drainer, link, client>> BY DEF Validate, disk
  <1>2. CASE saveMu' = t /\ Goes(t, IF job[t].kind = "reload" THEN "load" ELSE "patch") /\ UNCHANGED <<req, job>>
    <2>1. pc'[t] \in {"load", "patch"} /\ \A u \in Threads : u # t => pc'[u] = pc[u]
      BY <1>0, <1>2, GoesType DEF Places
    <2>2. Locked'
      <3>1. \A u \in Menus : pc[u] \in Quiet BY <1>0, Kinds DEF Locked, Saving, Quiet
      <3>2. \A u \in Menus : Saving(u)' <=> saveMu' = u BY <1>2, <2>1, <3>1, Kinds DEF Saving, Quiet
      <3>3. \A u \in Threads : pc'[u] \in Writing <=> patchMu' = u BY <1>0, <1>1, <2>1 DEF Locked, Writing
      <3>4. QED BY <1>0, <1>1, <3>2, <3>3 DEF Locked
    <2>3. LinkInv' BY <1>0, <1>1, <2>1, Kinds, LinkOn
    <2>4. engine \in Clients /\ \A u \in Threads : req[u].c \in Clients BY <1>0, Fields DEF TypeOK
    <2>5. SaveInv' BY <1>0, <1>1, <1>2, <2>1, <2>4, SaveOn DEF Loaded, Asking
    <2>6. QED BY <2>2, <2>3, <2>5, ValidateBase DEF SaveBase
  <1>3. CASE Done(t)
    <2>1. DoneAfter(t) BY <1>0, <1>3, DoneType
    <2>2. Locked' BY <1>0, <1>1, <2>1, LocksDone DEF Writing
    <2>3. LinkInv' BY <1>0, <1>1, <2>1, DoneLink
    <2>4. SaveInv' BY <1>0, <1>1, <2>1, DoneSave DEF Loaded, Asking
    <2>5. QED BY <2>2, <2>3, <2>4, ValidateBase DEF SaveBase
  <1>4. QED BY <1>2, <1>3 DEF Validate

(* One save at a time. *)
LEMMA Alone ==
    ASSUME Locked, NEW t \in Menus, pc[t] \notin Quiet
    PROVE  \A u \in Menus : u # t => pc[u] \in Quiet /\ pc[u] \notin Loaded \cup {"load"} /\ pc[u] # "drainer"
  <1>1. \A u \in Menus : u # t => pc[u] \in Quiet BY DEF Locked, Saving, Quiet
  <1>2. QED BY <1>1 DEF Quiet, Loaded, Asking

LEMMA PatchSave ==
    ASSUME SaveBase, NEW t \in Menus, Patch(t)
    PROVE  SaveBase'
  <1>0. TypeOK /\ Equipped /\ Locked /\ LinkInv /\ SaveInv /\ t \in Threads /\ pc[t] = "patching" /\ snap[t] = file
    BY Kinds DEF SaveBase, Patch, At, Locked, Writing
  <1> DEFINE f == IF job[t].kind = "pair" THEN PairedWith(snap[t]) ELSE [snap[t] EXCEPT !.opt = job[t].opt]
  <1>1. /\ Unlock(t) /\ UNCHANGED <<cfg, edited, engine, drainer, sys, client, link>>
        /\ \/ Rewritten(t, f) /\ Goes(t, "load") /\ UNCHANGED <<saveMu, req, job>>
           \/ NotWritten(t) /\ Done(t)
    BY DEF Patch
  <1>2. f.bad = snap[t].bad BY <1>0, PatchedType
  <1> HIDE DEF f
  <1>3. patchMu' = Free BY <1>1 DEF Unlock
  <1>4. CASE Rewritten(t, f) /\ Goes(t, "load") /\ UNCHANGED <<saveMu, req, job>>
    <2>1. pc'[t] = "load" /\ \A u \in Threads : u # t => pc'[u] = pc[u] BY <1>0, <1>4, GoesType DEF Places
    <2>2. file' = f BY <1>4 DEF Rewritten
    <2>3. Locked' BY <1>0, <1>3, <1>4, <2>1, LocksOff DEF Writing, Quiet
    <2>4. LinkInv' BY <1>0, <1>1, <2>1, Kinds, LinkOn
    <2>5. \A u \in Menus : pc'[u] \notin Loaded /\ pc'[u] # "drainer" /\ pc[u] # "drainer"
      BY <1>0, <2>1, Alone, Kinds DEF Quiet, Loaded, Asking
    <2>6. SaveInv' BY <1>0, <1>1, <1>2, <2>1, <2>2, <2>5 DEF SaveInv
    <2>7. QED BY <2>3, <2>4, <2>6, PatchBase DEF SaveBase
  <1>5. CASE NotWritten(t) /\ Done(t)
    <2>1. DoneAfter(t) BY <1>0, <1>5, DoneType
    <2>2. file' = file BY <1>5 DEF NotWritten
    <2>3. Locked' BY <1>0, <1>3, <2>1, LocksDone DEF Writing, Quiet
    <2>4. LinkInv' BY <1>0, <1>1, <2>1, DoneLink
    <2>5. SaveInv' BY <1>0, <1>1, <2>1, <2>2, DoneSave DEF Loaded, Asking
    <2>6. QED BY <2>3, <2>4, <2>5, PatchBase DEF SaveBase
  <1>6. QED BY <1>1, <1>4, <1>5

LEMMA LoadSave ==
    ASSUME SaveBase, NEW t \in Menus, Load(t)
    PROVE  SaveBase'
  <1>0. TypeOK /\ Equipped /\ Locked /\ LinkInv /\ SaveInv /\ t \in Threads /\ pc[t] = "load"
    BY Kinds DEF SaveBase, Load, At
  <1>1. UNCHANGED <<patchMu, snap, file, cfg, engine, drainer, link>> BY DEF Load, disk
  <1>2. file \in Config /\ file.opt \in Opts /\ file.srv \in {1, 2}
    <2>1. file \in Config BY <1>0 DEF TypeOK
    <2>2. QED BY <2>1 DEF Config
  <1>3. CASE firstBlockingProblem(file) /\ Done(t) /\ UNCHANGED <<client, edited>>
    <2>1. DoneAfter(t) BY <1>0, <1>3, DoneType
    <2>2. file.bad # "none" BY <1>2, <1>3 DEF firstBlockingProblem
    <2>3. Locked' BY <1>0, <1>1, <2>1, LocksDone DEF Writing, Quiet
    <2>4. LinkInv' BY <1>0, <1>1, <2>1, DoneLink
    <2>5. SaveInv' BY <1>0, <1>1, <1>3, <2>1, <2>2, DoneSave DEF Loaded, Asking
    <2>6. QED BY <2>3, <2>4, <2>5, LoadBase DEF SaveBase
  <1>4. CASE /\ ~firstBlockingProblem(file) /\ edited' = FALSE /\ Connect(t, file)
             /\ job' = [job EXCEPT ![t].opt = file.opt, ![t].srv = file.srv] /\ UNCHANGED saveMu
    <2>1. PICK c \in Clients : ConnectAfter(t, c) BY <1>0, <1>4, ConnectType
    <2>2. job'[t].opt = file.opt /\ job'[t].srv = file.srv
      <3>1. job \in [Menus -> Job] /\ job[t] \in Job BY <1>0, Fields DEF TypeOK
      <3>2. QED BY <1>4, <3>1 DEF Job
    <2>3. pc'[t] = "sent" /\ \A u \in Threads : u # t => pc'[u] = pc[u] BY <2>1 DEF ConnectAfter
    <2>4. Locked' BY <1>0, <1>1, <1>4, <2>3, LocksOn DEF Writing, Quiet
    <2>5. LinkInv' BY <1>0, <1>1, <2>3, Kinds, LinkOn
    <2>6. client'[req'[t].c].srv = file.srv
      <3>1. file.key \in Keys BY <1>0 DEF TypeOK
      <3>2. QED BY <1>2, <2>1, <3>1, FreshType DEF ConnectAfter
    <2>7. \A u \in Menus : u # t => pc'[u] = pc[u] /\ pc[u] \notin Loaded \cup {"load"} /\ pc[u] # "drainer"
      BY <1>0, <2>3, Alone, Kinds DEF Quiet
    <2>8. pc'[t] \in Loaded /\ pc'[t] # "drainer" /\ pc[t] # "drainer" BY <1>0, <2>3 DEF Loaded, Asking
    <2>9. file.bad = "none" BY <1>4 DEF firstBlockingProblem
    <2>10. engine = drainer BY <1>0, <2>7, <2>8 DEF SaveInv
    <2>11. SaveInv' BY <1>1, <1>4, <2>2, <2>6, <2>7, <2>8, <2>9, <2>10 DEF SaveInv
    <2>12. QED BY <2>4, <2>5, <2>11, LoadBase DEF SaveBase
  <1>5. QED BY <1>3, <1>4 DEF Load

LEMMA InstallEngineSave ==
    ASSUME SaveBase, NEW t \in Menus, InstallEngine(t)
    PROVE  SaveBase'
  <1>0. TypeOK /\ Locked /\ LinkInv /\ SaveInv /\ t \in Threads /\ pc[t] = "engine"
    BY Kinds DEF SaveBase, InstallEngine, At
  <1>1. /\ cfg' = [srv |-> job[t].srv, opt |-> job[t].opt] /\ engine' = req[t].c /\ Goes(t, "drainer")
        /\ UNCHANGED <<patchMu, snap, file, saveMu, edited, drainer, client, req, job, link>>
    BY DEF InstallEngine, disk
  <1>2. pc'[t] = "drainer" /\ \A u \in Threads : u # t => pc'[u] = pc[u]
    BY <1>0, <1>1, GoesType DEF Places
  <1>3. Locked' BY <1>0, <1>1, <1>2, LocksOn DEF Writing, Quiet
  <1>4. LinkInv' BY <1>0, <1>1, <1>2, Kinds, LinkOn
  <1>5. \A u \in Menus : u # t => pc'[u] = pc[u] /\ pc[u] \notin Loaded \cup {"load"} /\ pc[u] # "drainer"
    BY <1>0, <1>2, Alone, Kinds DEF Quiet
  <1>6. pc[t] \in Loaded /\ pc'[t] \in Loaded BY <1>0, <1>2 DEF Loaded
  <1>7. SaveInv' BY <1>0, <1>1, <1>2, <1>5, <1>6 DEF SaveInv
  <1>8. QED BY <1>3, <1>4, <1>7, InstallEngineBase DEF SaveBase

LEMMA InstallDrainerSave ==
    ASSUME SaveBase, NEW t \in Menus, InstallDrainer(t)
    PROVE  SaveBase'
  <1>0. TypeOK /\ Locked /\ LinkInv /\ SaveInv /\ t \in Threads /\ pc[t] = "drainer"
    BY Kinds DEF SaveBase, InstallDrainer, At
  <1>1. /\ drainer' = req[t].c /\ Done(t)
        /\ UNCHANGED <<patchMu, snap, file, cfg, edited, engine, client, link>>
    BY DEF InstallDrainer, disk
  <1>2. DoneAfter(t) BY <1>0, <1>1, DoneType
  <1>3. Locked' BY <1>0, <1>1, <1>2, LocksDone DEF Writing, Quiet
  <1>4. LinkInv' BY <1>0, <1>1, <1>2, DoneLink
  <1>5. \A u \in Menus : pc'[u] \notin Loaded \cup {"load"} /\ pc'[u] # "drainer"
    BY <1>0, <1>2, Alone, Kinds DEF Quiet, DoneAfter, Loaded, Asking
  <1>6. /\ engine = req[t].c /\ cfg = [srv |-> job[t].srv, opt |-> job[t].opt]
        /\ client[req[t].c].srv = job[t].srv
        /\ ~edited => job[t].srv = file.srv /\ job[t].opt = file.opt
        /\ file.bad # "none" => edited
    BY <1>0 DEF SaveInv, Loaded
  <1>7. SaveInv' BY <1>1, <1>5, <1>6 DEF SaveInv
  <1>8. QED BY <1>3, <1>4, <1>7, InstallDrainerBase DEF SaveBase

(* The server's steps are none of a save's business. *)
LEMMA ServerSave ==
    ASSUME SaveBase, UNCHANGED <<disk, conf, client, pc, req, job, link>>, TypeOK', Equipped'
    PROVE  SaveBase'
  <1>0. UNCHANGED <<file, patchMu, snap, cfg, saveMu, edited, engine, drainer, client, pc, req, job, link>>
    BY DEF disk, conf
  <1>1. Locked' BY <1>0 DEF SaveBase, Locked, Saving
  <1>2. LinkInv' BY <1>0 DEF SaveBase, LinkInv
  <1>3. SaveInv' BY <1>0 DEF SaveBase, SaveInv
  <1>4. QED BY <1>1, <1>2, <1>3 DEF SaveBase

(* Nor is what is written elsewhere, until it is loaded. *)
LEMMA ElsewhereSave ==
    ASSUME SaveBase, NEW f, Elsewhere(f), TypeOK', Equipped'
    PROVE  SaveBase'
  <1>0. /\ patchMu = Free /\ edited'
        /\ UNCHANGED <<patchMu, snap, cfg, saveMu, engine, drainer, client, pc, req, job, link>>
    BY DEF Elsewhere
  <1>1. Locked' BY <1>0, Kinds DEF SaveBase, Locked, Saving
  <1>2. LinkInv' BY <1>0 DEF SaveBase, LinkInv
  <1>3. SaveInv' BY <1>0 DEF SaveBase, SaveInv
  <1>4. QED BY <1>1, <1>2, <1>3 DEF SaveBase

LEMMA HandEditSave ==
    ASSUME SaveBase, NEW opt \in Opts, NEW bad \in Flaws, HandEdit(opt, bad)
    PROVE  SaveBase' /\ left'.rotations = left.rotations
  <1> DEFINE f == [file EXCEPT !.opt = opt, !.bad = bad]
  <1>1. f \in Config /\ f.key \in Keys BY HandEditType DEF SaveBase
  <1>2. Spend("mishaps") /\ Elsewhere(f) /\ past' = past BY DEF HandEdit
  <1> HIDE DEF f
  <1>3. QED BY <1>1, <1>2, ElsewhereBase, ElsewhereSave

LEMMA PairCommandSave ==
    ASSUME SaveBase, PairCommand
    PROVE  SaveBase' /\ left'.rotations = left.rotations
  <1>1. PairedWith(file) \in Config /\ PairedWith(file).key \in Keys BY PairedType DEF SaveBase
  <1>2. Spend("saves") /\ Elsewhere(PairedWith(file)) /\ past' = past \cup {"saved"} BY DEF PairCommand
  <1>3. QED BY <1>1, <1>2, ElsewhereBase, ElsewhereSave

(* The goroutine for deep links goes on, before a save or between two. *)
LEMMA LinkSave ==
    ASSUME SaveBase, pc[Link] \in Quiet, pc'[Link] \in Quiet,
           \A u \in Threads : u # Link => pc'[u] = pc[u],
           \A u \in Menus : u # Link => job'[u] = job[u],
           UNCHANGED <<disk, conf, client, req>>,
           LinkInv', TypeOK', Equipped'
    PROVE  SaveBase'
  <1>0. UNCHANGED <<file, patchMu, snap, cfg, saveMu, edited, engine, drainer, client, req>> /\ Link \in Threads /\ Link \in Menus
    BY Kinds DEF disk, conf
  <1>1. Locked' BY <1>0, LocksOn DEF SaveBase, Writing, Quiet
  <1>2. \A u \in Menus : /\ pc'[u] \in Loaded => pc[u] \in Loaded /\ job'[u] = job[u]
                         /\ pc'[u] = "drainer" <=> pc[u] = "drainer"
                         /\ pc[u] \in Loaded \cup {"load"} <=> pc'[u] \in Loaded \cup {"load"}
    BY <1>0, Kinds DEF Loaded, Asking, Quiet
  <1>3. SaveInv' BY <1>0, <1>2 DEF SaveBase, SaveInv, Loaded
  <1>4. QED BY <1>1, <1>3 DEF SaveBase

LEMMA SubmitLinkSave ==
    ASSUME SaveBase, SubmitLink
    PROVE  SaveBase'
  <1>0. TypeOK /\ LinkInv /\ Link \in Threads BY Kinds DEF SaveBase
  <1>1. /\ link' = [has |-> TRUE, running |-> TRUE]
        /\ pc' = IF link.running THEN pc ELSE [pc EXCEPT ![Link] = "take"]
        /\ UNCHANGED <<disk, conf, current, pending, client, req, job>>
    BY DEF SubmitLink
  <1>2. TypeOK' /\ Equipped' BY SubmitLinkBase
  <1>3. CASE link.running
    <2>1. pc' = pc /\ pc[Link] # "off" BY <1>0, <1>1, <1>3 DEF LinkInv
    <2>2. LinkInv' BY <1>1, <2>1 DEF LinkInv
    <2>3. UNCHANGED <<file, patchMu, snap, cfg, saveMu, edited, engine, drainer, client, pc, req, job>>
      BY <1>1, <2>1 DEF disk, conf
    <2>4. Locked' BY <2>3 DEF SaveBase, Locked, Saving
    <2>5. SaveInv' BY <2>3 DEF SaveBase, SaveInv
    <2>6. QED BY <1>2, <2>2, <2>4, <2>5 DEF SaveBase
  <1>4. CASE ~link.running
    <2>1. pc[Link] = "off" BY <1>0, <1>4 DEF LinkInv
    <2>2. pc'[Link] = "take" /\ \A u \in Threads : u # Link => pc'[u] = pc[u]
      BY <1>0, <1>1, <1>4 DEF TypeOK
    <2>3. LinkInv' BY <1>1, <2>2 DEF LinkInv
    <2>4. QED BY <1>1, <1>2, <2>1, <2>2, <2>3, LinkSave DEF Quiet
  <1>5. QED BY <1>3, <1>4

LEMMA TakeLinkSave ==
    ASSUME SaveBase, TakeLink
    PROVE  SaveBase'
  <1>0. TypeOK /\ LinkInv /\ Link \in Threads /\ pc[Link] = "take" BY Kinds DEF SaveBase, TakeLink, At
  <1>1. UNCHANGED <<disk, conf, client, req, job>> BY DEF TakeLink
  <1>2. link \in [has : BOOLEAN, running : BOOLEAN] BY <1>0 DEF TypeOK
  <1>3. CASE link.has /\ link' = [link EXCEPT !.has = FALSE] /\ Goes(Link, "dialog")
    <2>1. pc'[Link] = "dialog" /\ \A u \in Threads : u # Link => pc'[u] = pc[u]
      BY <1>0, <1>3, GoesType DEF Places
    <2>2. LinkInv' BY <1>0, <1>2, <1>3, <2>1 DEF LinkInv
    <2>3. QED BY <1>0, <1>1, <2>1, <2>2, LinkSave, TakeLinkBase DEF Quiet
  <1>4. CASE ~link.has /\ EndsRunning /\ Goes(Link, "off")
    <2>1. pc'[Link] = "off" /\ \A u \in Threads : u # Link => pc'[u] = pc[u]
      BY <1>0, <1>4, GoesType DEF Places
    <2>2. LinkInv' BY <1>2, <1>4, <2>1 DEF LinkInv, EndsRunning
    <2>3. QED BY <1>0, <1>1, <2>1, <2>2, LinkSave, TakeLinkBase DEF Quiet
  <1>5. QED BY <1>3, <1>4 DEF TakeLink

LEMMA ConfirmLinkSave ==
    ASSUME SaveBase, ConfirmLink
    PROVE  SaveBase'
  <1>0. TypeOK /\ LinkInv /\ Link \in Threads /\ pc[Link] = "dialog" BY Kinds DEF SaveBase, ConfirmLink, At
  <1>1. UNCHANGED <<disk, conf, client, req, link>> BY DEF ConfirmLink
  <1>2. PICK place \in {"lock", "take"} : Goes(Link, place) BY DEF ConfirmLink
  <1>3. pc'[Link] = place /\ \A u \in Threads : u # Link => pc'[u] = pc[u]
    BY <1>0, <1>2, GoesType DEF Places
  <1>4. \A u \in Menus : u # Link => job'[u] = job[u] BY <1>0 DEF ConfirmLink, TypeOK
  <1>5. LinkInv' BY <1>0, <1>1, <1>2, <1>3, LinkOn
  <1>6. QED BY <1>0, <1>1, <1>2, <1>3, <1>4, <1>5, LinkSave, ConfirmLinkBase DEF Quiet

(* A start: nobody holds a lock, and everything is as in config.yaml. *)
LEMMA BootSave ==
    ASSUME Boot(file), file' = file, file \in Config, file.key \in Keys, file.bad = "none"
    PROVE  Locked' /\ LinkInv' /\ SaveInv'
  <1>1. /\ \A t \in Threads : pc'[t] = "off"
        /\ cfg' = [srv |-> file.srv, opt |-> file.opt] /\ saveMu' = Free /\ patchMu' = Free /\ engine' = First /\ drainer' = First
        /\ client' = [c \in Clients |-> Fresh(file)] /\ link' = [has |-> FALSE, running |-> FALSE]
    BY DEF Boot
  <1>2. client'[First].srv = file.srv BY <1>1, FreshType, Blank
  <1>3. Locked' BY <1>1, Kinds DEF Locked, Saving, Writing
  <1>4. LinkInv' BY <1>1, Kinds DEF LinkInv
  <1>5. SaveInv' BY <1>1, <1>2, Kinds DEF SaveInv, Loaded, Asking
  <1>6. QED BY <1>3, <1>4, <1>5

LEMMA CrashSave ==
    ASSUME SaveBase, Crash
    PROVE  SaveBase'
  <1>1. Boot(file) /\ file' = file /\ file.bad = "none" BY DEF Crash, firstBlockingProblem
  <1>2. file \in Config /\ file.key \in Keys BY DEF SaveBase, TypeOK
  <1>3. QED BY <1>1, <1>2, BootSave, CrashBase DEF SaveBase

LEMMA InitSave == Init => SaveBase
  <1>1. SUFFICES ASSUME Init PROVE SaveBase OBVIOUS
  <1>2. /\ \A t \in Threads : pc[t] = "off"
        /\ file \in Config /\ file.key \in Keys
        /\ cfg = [srv |-> file.srv, opt |-> file.opt] /\ saveMu = Free /\ patchMu = Free /\ engine = First /\ drainer = First
        /\ client = [c \in Clients |-> Fresh(file)] /\ link = [has |-> FALSE, running |-> FALSE] /\ file.bad = "none"
    BY <1>1, InitBase DEF Init, TypeOK
  <1>3. client[First].srv = file.srv BY <1>2, FreshType, Blank
  <1>4. Locked BY <1>2, Kinds DEF Locked, Saving, Writing
  <1>5. LinkInv BY <1>2, Kinds DEF LinkInv
  <1>6. SaveInv BY <1>2, <1>3, Kinds DEF SaveInv, Loaded, Asking
  <1>7. QED BY <1>1, <1>4, <1>5, <1>6, InitBase DEF SaveBase

LEMMA StutterSave == SaveBase /\ UNCHANGED vars => SaveBase'
  <1>1. SUFFICES ASSUME SaveBase, UNCHANGED vars PROVE SaveBase' OBVIOUS
  <1>2. /\ UNCHANGED <<disk, conf, client, pc, req, job, link>>
        /\ UNCHANGED <<file, patchMu, snap, cfg, saveMu, edited, engine, drainer, current, pending, past, left>>
    BY <1>1 DEF vars, disk, conf, sys
  <1>3. TypeOK' BY <1>1, <1>2 DEF SaveBase, TypeOK
  <1>4. Equipped' BY <1>1, <1>2 DEF SaveBase, Equipped
  <1>5. QED BY <1>1, <1>2, <1>3, <1>4, ServerSave

(* Every step, of all that Next offers, preserves this part. *)
LEMMA SaveStep == SaveBase /\ [Next]_vars => SaveBase'
  <1>1. SUFFICES ASSUME SaveBase, Next PROVE SaveBase' BY StutterSave
  <1>2. CASE Rotate
    <2>1. UNCHANGED <<disk, conf, client, pc, req, job, link>> BY <1>2 DEF Rotate
    <2>2. QED BY <1>1, <1>2, <2>1, RotateBase, ServerSave
  <1>3. CASE Cancel
    <2>1. UNCHANGED <<disk, conf, client, pc, req, job, link>> BY <1>3 DEF Cancel
    <2>2. QED BY <1>1, <1>3, <2>1, CancelBase, ServerSave
  <1>4. ASSUME NEW t \in Workers, NEW c \in Clients, NEW kind \in {"handshake", "upload"}, Begin(t, c, kind)
        PROVE  SaveBase'
    BY <1>1, <1>4, BeginSave
  <1>5. ASSUME NEW t \in Savers, WantReload(t) \/ WantPair(t) \/ \E opt \in Values : WantSet(t, opt)
        PROVE  SaveBase'
    <2>1. "a" \in Values BY Kinds DEF Opts
    <2>2. CASE WantReload(t) BY <1>1, <2>1, <2>2, WantSave DEF WantReload
    <2>3. CASE WantPair(t) BY <1>1, <2>1, <2>3, WantSave DEF WantPair
    <2>4. ASSUME NEW opt \in Values, WantSet(t, opt) PROVE SaveBase' BY <1>1, <2>4, WantSave DEF WantSet
    <2>5. QED BY <1>5, <2>2, <2>3, <2>4
  <1>6. CASE PairCommand BY <1>1, <1>6, PairCommandSave
  <1>7. CASE DeepLinkCommand BY <1>1, <1>7, PairCommandSave, SubmitLinkSave DEF DeepLinkCommand
  <1>8. ASSUME NEW opt \in Opts, NEW bad \in Flaws, HandEdit(opt, bad)
        PROVE  SaveBase'
    BY <1>1, <1>8, HandEditSave
  <1>9. ASSUME NEW t \in Threads, Step(t)
        PROVE  SaveBase'
    BY <1>1, <1>9, SendSave, ObserveSave, ReadSave, RestoreSave, AdoptSave, PersistSave, SwitchSave,
       ValidateSave, PatchSave, LoadSave, InstallEngineSave, InstallDrainerSave DEF Step
  <1>10. CASE TakeLink BY <1>1, <1>10, TakeLinkSave
  <1>11. CASE ConfirmLink BY <1>1, <1>11, ConfirmLinkSave
  <1>12. CASE Crash BY <1>1, <1>12, CrashSave
  <1>13. QED BY <1>1, <1>2, <1>3, <1>4, <1>5, <1>6, <1>7, <1>8, <1>9, <1>10, <1>11, <1>12 DEF Next

(***************************************************************************)
(* Every reachable state has its types, its locks and what its saves need. *)
(***************************************************************************)
THEOREM SaveCorrect == Spec => []SaveBase
  BY InitSave, SaveStep, PTL DEF Spec

(***************************************************************************)
(* No deep link is left waiting (submitDeepLink): for any number of savers *)
(* and workers, and whatever they do meanwhile.                            *)
(***************************************************************************)
THEOREM LinksAreTaken == Spec => []NoLinkStranded
  <1>1. SaveBase => NoLinkStranded BY DEF SaveBase, LinkInv, NoLinkStranded
  <1>2. QED BY <1>1, SaveCorrect, PTL

(***************************************************************************)
(* When no save is under way, what the agent runs with is what config.yaml *)
(* says (configSettings.reload under saveMu).                              *)
(***************************************************************************)
THEOREM SavesGoLive == Spec => []SavedIsLive
  <1>1. SaveBase => SavedIsLive
    <2>1. SUFFICES ASSUME SaveBase, \A t \in Menus : ~Saving(t), ~edited
          PROVE  cfg = [srv |-> file.srv, opt |-> file.opt] /\ engine = drainer /\ client[engine].srv = file.srv
      BY DEF SavedIsLive
    <2>2. \A t \in Menus : pc[t] \in Quiet BY <2>1 DEF Saving, Quiet
    <2>3. \A t \in Menus : pc[t] \notin Loaded \cup {"load"} /\ pc[t] # "drainer"
      BY <2>2 DEF Quiet, Loaded, Asking
    <2>4. QED BY <2>1, <2>3 DEF SaveBase, SaveInv
  <1>2. QED BY <1>1, SaveCorrect, PTL

-----------------------------------------------------------------------------
(* Keys *)

(* Keys and their order are numbers. *)
LEMMA Numbers ==
    ASSUME TypeOK
    PROVE  /\ current \in Int /\ current >= 0 /\ pending \in Int /\ current # NoKey
           /\ file.key \in Int /\ file.key >= 0 /\ AnyKey \subseteq Int /\ \A k \in AnyKey : k >= NoKey
           /\ \A k \in Keys : k # NoKey /\ k >= 0 /\ k \in Int
           /\ NoKey = -1 /\ Paired = 0
  <1>1. AnyKey \subseteq Int /\ (\A k \in AnyKey : k >= NoKey) /\ NoKey = -1 /\ Paired = 0
    BY Kinds DEF AnyKey, NoKey, Paired
  <1>2. current \in Keys /\ pending \in AnyKey /\ file.key \in Keys BY DEF TypeOK
  <1>3. \A k \in Keys : k # NoKey /\ k >= 0 /\ k \in Int BY Kinds
  <1>4. QED BY <1>1, <1>2, <1>3

(* What is known where, before and after a step. *)
LEMMA KnownHere ==
    ASSUME TypeOK
    PROVE
    /\ file.key \in Known
    /\ \A c \in Clients : /\ client[c].key \in Known /\ client[c].new \in Known /\ client[c].old \in Known
                          /\ client[c].restore \in Known /\ client[c].refused \subseteq Known
    /\ \A t \in Threads : req[t].key \in Known /\ req[t].offer \in Known
  <1>0. file.key \in AnyKey BY DEF TypeOK, AnyKey
  <1>1. file.key \in Known BY <1>0 DEF Known
  <1>2. ASSUME NEW c \in Clients PROVE HasSeen(c) \subseteq Known
    <2>1. HasSeen(c) \subseteq AnyKey BY Fields DEF HasSeen, AnyKey
    <2>2. QED BY <2>1 DEF Known
  <1>3. ASSUME NEW t \in Threads PROVE Carries(t) \subseteq Known
    <2>1. Carries(t) \subseteq AnyKey BY Fields DEF Carries
    <2>2. QED BY <2>1 DEF Known
  <1>4. ASSUME NEW c \in Clients
        PROVE  /\ client[c].key \in Known /\ client[c].new \in Known /\ client[c].old \in Known
               /\ client[c].restore \in Known /\ client[c].refused \subseteq Known
    BY <1>2 DEF HasSeen
  <1>5. ASSUME NEW t \in Threads PROVE req[t].key \in Known /\ req[t].offer \in Known BY <1>3 DEF Carries
  <1>6. QED BY <1>1, <1>4, <1>5

(* Everything known comes from somewhere. *)
LEMMA KnownFrom ==
    ASSUME NEW S, file'.key \in S,
           \A c \in Clients : /\ client'[c].key \in S /\ client'[c].new \in S /\ client'[c].old \in S
                              /\ client'[c].restore \in S /\ client'[c].refused \subseteq S,
           \A t \in Threads : req'[t].key \in S /\ req'[t].offer \in S
    PROVE  Known' \subseteq S
  <1>1. ASSUME NEW c \in Clients PROVE HasSeen(c)' \subseteq S BY DEF HasSeen
  <1>2. ASSUME NEW t \in Threads PROVE Carries(t)' \subseteq S BY DEF Carries
  <1>3. SUFFICES ASSUME NEW k \in Known' PROVE k \in S OBVIOUS
  <1>4. k = file'.key \/ (\E c \in Clients : k \in HasSeen(c)') \/ (\E t \in Threads : k \in Carries(t)')
    BY DEF Known
  <1>5. QED BY <1>1, <1>2, <1>4

LEMMA KnownInt == ASSUME TypeOK PROVE Known \subseteq AnyKey /\ Known \subseteq Int
  BY Numbers DEF Known

(* What is known of a step by one thread and one client. *)
LEMMA KnownAfter ==
    ASSUME TypeOK, NEW S, Known \subseteq S, NEW t \in Threads, file'.key \in S,
           \A u \in Threads : u # t => req'[u] = req[u],
           req'[t].key \in S, req'[t].offer \in S,
           \A c \in Clients : client'[c] = client[c]
                \/ /\ client'[c].key \in S /\ client'[c].new \in S /\ client'[c].old \in S
                   /\ client'[c].restore \in S /\ client'[c].refused \subseteq S
    PROVE  Known' \subseteq S
  <1>1. ASSUME NEW c \in Clients
        PROVE  /\ client'[c].key \in S /\ client'[c].new \in S /\ client'[c].old \in S
               /\ client'[c].restore \in S /\ client'[c].refused \subseteq S
    BY KnownHere
  <1>2. \A u \in Threads : req'[u].key \in S /\ req'[u].offer \in S BY KnownHere
  <1>3. QED BY <1>1, <1>2, KnownFrom

(* The offers stay in order: the thread's own, and the clients'. *)
LEMMA OfferOn ==
    ASSUME OfferInv, NEW t \in Threads,
           \A u \in Threads : u # t => req'[u] = req[u] /\ (req[u].offer # NoKey => client'[req[u].c].srv = client[req[u].c].srv),
           req'[t].offer # NoKey => req'[t].ok /\ client'[req'[t].c].srv = 1 /\ req'[t].key < req'[t].offer,
           \A c \in Clients : client'[c].new # NoKey => client'[c].srv = 1 /\ client'[c].old < client'[c].new
    PROVE  OfferInv'
  BY DEF OfferInv, C

(* A step in which the server hands out no key and revokes none. *)
LEMMA KeysOn ==
    ASSUME TypeOK, KeyOrder, KeyInv, current' = current, pending' = pending,
           Known' \subseteq Known \cup {Paired, NoKey, pending},
           file'.srv = 1 => file.srv = 1 /\ file'.key \in {current, pending} /\ (file'.key = file.key \/ file'.key = InForce),
           NEW t \in Threads,
           \A u \in Threads : u # t => pc'[u] = pc[u] /\ req'[u] = req[u],
           \A u \in Threads : u # t /\ req[u].ok => req[u].key >= 0,
           \A u \in Threads : u # t /\ (req[u].ok \/ pc[u] = "answered") => client'[req[u].c].srv = client[req[u].c].srv,
           req'[t].offer # NoKey => req'[t].offer = InForce,
           pc'[t] = "answered" /\ ~req'[t].ok /\ client'[req'[t].c].srv = 1 => req'[t].key < current,
           req'[t].ok /\ client'[req'[t].c].srv = 1 =>
                \/ req'[t].key \in {current, pending}
                \/ req[t].ok /\ C(t).srv = 1 /\ req'[t].key = req[t].key /\ req[t].key >= 0,
           pc'[t] \notin {"restore", "restoring"},
           \A c \in Clients : client'[c].restore # NoKey => client'[c].srv = 1 /\
                                \E k \in client'[c].refused : client'[c].restore < k /\ k < current,
           Unstored /\ Unstored' =>
                /\ \A c \in Clients : client'[c].key # pending /\ client'[c].old # pending
                /\ req'[t].key # pending /\ (pc'[t] = "switch" => req'[t].offer # pending)
    PROVE  KeyInv'
  <1>1. file'.srv = 1 => file'.key \in {current', pending'} OBVIOUS
  <1>2. \A k \in Known' : k <= current' \/ k = pending' BY Numbers DEF KeyInv
  <1>3. ASSUME NEW u \in Threads PROVE Told(u)'
    <2>1. /\ req'[u].offer # NoKey => req'[u].offer = InForce'
          /\ pc'[u] = "answered" /\ ~req'[u].ok /\ client'[req'[u].c].srv = 1 => req'[u].key < current'
          /\ pc'[u] \notin {"restore", "restoring"}
      BY DEF KeyInv, Told, InForce, C
    <2>2. ASSUME req'[u].ok, client'[req'[u].c].srv = 1
          PROVE  \/ req'[u].key \in {current', pending'}
                 \/ pending' = NoKey /\ \A k \in Known' : k <= req'[u].key \/ k >= current'
      <3>1. \/ req'[u].key \in {current, pending}
            \/ req[u].ok /\ C(u).srv = 1 /\ req'[u].key = req[u].key /\ req[u].key >= 0
        BY <2>2 DEF C
      <3>2. CASE req[u].ok /\ C(u).srv = 1 /\ req'[u].key = req[u].key /\ req[u].key >= 0
        <4>1. \/ req[u].key \in {current, pending}
              \/ pending = NoKey /\ \A k \in Known : k <= req[u].key \/ k >= current
          BY <3>2 DEF KeyInv, Told
        <4>2. req[u].key \in Int BY Fields, Numbers
        <4>3. QED BY <3>2, <4>1, <4>2, Numbers
      <3>3. QED BY <3>1, <3>2
    <2>3. QED BY <2>1, <2>2 DEF Told, C
  <1>4. \A c \in Clients : GivenUp(c)' BY DEF GivenUp
  <1>5. Unstored' => Unused'
    <2>1. SUFFICES ASSUME Unstored' PROVE Unused' OBVIOUS
    <2>2. pending # NoKey /\ file'.srv = 1 /\ file'.key # pending BY <2>1 DEF Unstored
    <2>3. file.srv = 1 /\ file.key # pending BY <2>2 DEF InForce
    <2>4. Unstored BY <2>2, <2>3 DEF Unstored
    <2>5. Unused BY <2>4 DEF KeyInv
    <2>6. /\ \A c \in Clients : client'[c].key # pending /\ client'[c].old # pending
          /\ req'[t].key # pending /\ (pc'[t] = "switch" => req'[t].offer # pending)
      BY <2>1, <2>4
    <2>7. ASSUME NEW u \in Threads
          PROVE  req'[u].key # pending /\ (pc'[u] = "switch" => req'[u].offer # pending)
      <3>1. CASE u = t BY <2>6, <3>1
      <3>2. CASE u # t
        <4>1. pc'[u] = pc[u] /\ req'[u] = req[u] BY <3>2
        <4>2. req[u].key # pending /\ (pc[u] = "switch" => req[u].offer # pending) BY <2>5 DEF Unused
        <4>3. QED BY <4>1, <4>2
      <3>3. QED BY <3>1, <3>2
    <2>8. QED BY <2>6, <2>7 DEF Unused
  <1>6. QED BY <1>1, <1>2, <1>3, <1>4, <1>5 DEF KeyInv

(* A step in which the new key is used first: the old one is revoked. *)
LEMMA KeysTaken ==
    ASSUME TypeOK, KeyOrder, KeyInv, pending # NoKey, current' = pending, pending' = NoKey, file' = file,
           Known' \subseteq Known \cup {NoKey},
           NEW t \in Threads, req[t].key = pending,
           \A u \in Threads : u # t => pc'[u] = pc[u] /\ req'[u] = req[u],
           \A c \in Clients : client'[c].srv = client[c].srv
                /\ client'[c].restore = client[c].restore /\ client'[c].refused = client[c].refused,
           req'[t].offer = NoKey,
           pc'[t] = "answered" => req'[t].ok,
           req'[t].ok => req'[t].key = pending,
           pc'[t] \notin {"restore", "restoring"}
    PROVE  KeyInv'
  <1>0. current < pending BY DEF KeyOrder
  <1>1. file'.srv = 1 => file'.key \in {current', pending'}
    <2>1. ~Unstored BY DEF KeyInv, Unused
    <2>2. QED BY <2>1 DEF Unstored
  <1>2. \A k \in Known' : k <= current' \/ k = pending'
    <2>1. \A k \in Known : k <= pending
      <3>1. \A k \in Known : k <= current \/ k = pending BY DEF KeyInv
      <3>2. Known \subseteq Int BY KnownInt
      <3>3. QED BY <1>0, <3>1, <3>2, Numbers
    <2>2. NoKey <= pending BY <1>0, Numbers
    <2>3. QED BY <2>1, <2>2
  <1>3. ASSUME NEW u \in Threads PROVE Told(u)'
    <2>1. req'[u].offer # NoKey => req'[u].offer = InForce' BY DEF KeyInv, Told, InForce
    <2>2. pc'[u] = "answered" /\ ~req'[u].ok /\ client'[req'[u].c].srv = 1 => req'[u].key < current'
      <3>1. CASE u = t BY <3>1
      <3>2. CASE u # t
        <4>1. req[u].c \in Clients /\ req[u].key \in Int BY Fields, Numbers
        <4>2. pc[u] = "answered" /\ ~req[u].ok /\ client[req[u].c].srv = 1 => req[u].key < current
          BY DEF KeyInv, Told, C
        <4>3. QED BY <1>0, <3>2, <4>1, <4>2, Numbers
      <3>3. QED BY <3>1, <3>2
    <2>3. ASSUME req'[u].ok, client'[req'[u].c].srv = 1
          PROVE  \/ req'[u].key \in {current', pending'}
                 \/ pending' = NoKey /\ \A k \in Known' : k <= req'[u].key \/ k >= current'
      <3>1. CASE u = t BY <2>3, <3>1
      <3>2. CASE u # t
        <4>1. req[u].key \in {current, pending}
          <5>1. req[u].c \in Clients BY Fields
          <5>2. req[u].ok /\ C(u).srv = 1 BY <2>3, <3>2, <5>1 DEF C
          <5>3. QED BY <5>2 DEF KeyInv, Told
        <4>2. \A k \in Known' : k <= current \/ k = pending
          <5>1. \A k \in Known : k <= current \/ k = pending BY DEF KeyInv
          <5>2. QED BY <5>1, Numbers
        <4>3. QED BY <3>2, <4>1, <4>2, Numbers
      <3>3. QED BY <3>1, <3>2
    <2>4. pc'[u] \notin {"restore", "restoring"} BY DEF KeyInv, Told
    <2>5. QED BY <2>1, <2>2, <2>3, <2>4 DEF Told, C
  <1>4. ASSUME NEW c \in Clients PROVE GivenUp(c)'
    <2>1. client[c].restore # NoKey => client[c].srv = 1 /\ \E k \in client[c].refused : client[c].restore < k /\ k < current
      BY DEF KeyInv, GivenUp
    <2>2. client[c].refused \subseteq Int BY Fields, Numbers
    <2>3. QED BY <1>0, <2>1, <2>2, Numbers DEF GivenUp
  <1>5. Unstored' => Unused' BY DEF Unstored
  <1>6. QED BY <1>1, <1>2, <1>3, <1>4, <1>5 DEF KeyInv

(* What is to be shown of a step. *)
Ordered == KeyOrder' /\ OfferInv' /\ (Kept' => KeyInv')

LEMMA OrderOn ==
    ASSUME KeyOrder, current' = current, pending' = pending, left'.rotations = left.rotations
    PROVE  KeyOrder'
  BY DEF KeyOrder

LEMMA TakenIs ==
    ASSUME NEW srv, NEW key \in Keys, Taken(srv, key)
    PROVE  \/ srv = 1 /\ key = pending /\ pending # NoKey /\ current' = pending /\ pending' = NoKey
           \/ ~(srv = 1 /\ key = pending) /\ current' = current /\ pending' = pending
  BY Kinds DEF Taken

(* A request that is over carries nothing, and its client is as it was. *)
LEMMA FinishKnown ==
    ASSUME TypeOK, NEW t \in Threads, Finish(t), Put(t, Unlocked(t, C(t))) \/ client' = client, file' = file
    PROVE  /\ Known' \subseteq Known \cup {NoKey}
           /\ \A c \in Clients : /\ client'[c].srv = client[c].srv /\ client'[c].key = client[c].key
                                 /\ client'[c].new = client[c].new /\ client'[c].old = client[c].old
                                 /\ client'[c].restore = client[c].restore /\ client'[c].refused = client[c].refused
  <1>1. /\ ~req'[t].ok /\ req'[t].offer = NoKey /\ req'[t].key = NoKey
        /\ \A u \in Threads : u # t => req'[u] = req[u]
    BY FinishType
  <1>2. \A c \in Clients : /\ client'[c].srv = client[c].srv /\ client'[c].key = client[c].key
                           /\ client'[c].new = client[c].new /\ client'[c].old = client[c].old
                           /\ client'[c].restore = client[c].restore /\ client'[c].refused = client[c].refused
    <2>1. CASE client' = client BY <2>1
    <2>2. CASE Put(t, Unlocked(t, C(t)))
      <3>1. C(t) \in Client /\ req[t].c \in Clients /\ C(t) = client[req[t].c] BY Fields
      <3>2. LET ul == Unlocked(t, C(t)) IN
            /\ ul \in Client /\ ul.srv = C(t).srv /\ ul.key = C(t).key /\ ul.new = C(t).new /\ ul.old = C(t).old
            /\ ul.restore = C(t).restore /\ ul.refused = C(t).refused
        BY <3>1, UnlockedType
      <3>3. /\ client'[req[t].c] = Unlocked(t, C(t)) /\ \A c \in Clients : c # req[t].c => client'[c] = client[c]
        BY <2>2, <3>2, PutType
      <3>4. QED BY <3>1, <3>2, <3>3
    <2>3. QED BY <2>1, <2>2
  <1>3. Known' \subseteq Known \cup {NoKey}
    <2>1. file'.key \in Known \cup {NoKey} BY KnownHere
    <2>2. req'[t].key \in Known \cup {NoKey} /\ req'[t].offer \in Known \cup {NoKey} BY <1>1
    <2>3. \A c \in Clients : /\ client'[c].key \in Known \cup {NoKey} /\ client'[c].new \in Known \cup {NoKey}
                             /\ client'[c].old \in Known \cup {NoKey}
                             /\ client'[c].restore \in Known \cup {NoKey} /\ client'[c].refused \subseteq Known \cup {NoKey}
      BY <1>2, KnownHere
    <2>4. QED BY <1>1, <2>1, <2>2, <2>3, KnownAfter
  <1>4. QED BY <1>2, <1>3

(* Such an end keeps the keys in order. *)
LEMMA FinishKeys ==
    ASSUME CredInv, NEW t \in Threads, Finish(t), Put(t, Unlocked(t, C(t))) \/ client' = client, file' = file,
           left'.rotations = left.rotations, past' = past,
           \/ current' = current /\ pending' = pending
           \/ req[t].key = pending /\ pending # NoKey /\ current' = pending /\ pending' = NoKey
    PROVE  Ordered
  <1>0. TypeOK /\ Equipped /\ KeyOrder /\ OfferInv /\ (Kept => KeyInv) BY DEF CredInv, SaveBase
  <1>1. /\ ~req'[t].ok /\ req'[t].offer = NoKey /\ req'[t].key = NoKey /\ pc'[t] \in {"engine", "off"}
        /\ \A u \in Threads : u # t => pc'[u] = pc[u] /\ req'[u] = req[u]
    BY <1>0, FinishType
  <1>2. /\ Known' \subseteq Known \cup {NoKey}
        /\ \A c \in Clients : /\ client'[c].srv = client[c].srv /\ client'[c].key = client[c].key
                              /\ client'[c].new = client[c].new /\ client'[c].old = client[c].old
                              /\ client'[c].restore = client[c].restore /\ client'[c].refused = client[c].refused
    BY <1>0, FinishKnown
  <1>3. \A u \in Threads : req[u].c \in Clients BY <1>0, Fields
  <1>4. OfferInv'
    <2>1. \A c \in Clients : client'[c].new # NoKey => client'[c].srv = 1 /\ client'[c].old < client'[c].new
      BY <1>0, <1>2 DEF OfferInv
    <2>2. QED BY <1>0, <1>1, <1>2, <1>3, <2>1, OfferOn
  <1>5. CASE current' = current /\ pending' = pending
    <2>1. KeyOrder' BY <1>0, <1>5, OrderOn
    <2>2. ASSUME Kept' PROVE KeyInv'
      <3>1. KeyInv BY <1>0, <2>2 DEF Kept
      <3>2. file'.srv = 1 => file.srv = 1 /\ file'.key \in {current, pending} /\ file'.key = file.key
        BY <3>1 DEF KeyInv
      <3>3. \A u \in Threads : req[u].ok => req[u].key >= 0 BY <1>0, Numbers DEF Equipped
      <3>4. \A c \in Clients : client'[c].restore # NoKey => client'[c].srv = 1 /\
                \E k \in client'[c].refused : client'[c].restore < k /\ k < current
        BY <1>2, <3>1 DEF KeyInv, GivenUp
      <3>5. Unstored => \A c \in Clients : client'[c].key # pending /\ client'[c].old # pending
        BY <1>2, <3>1 DEF KeyInv, Unused
      <3>6. Unstored => req'[t].key # pending /\ req'[t].offer # pending BY <1>1 DEF Unstored
      <3>7. QED BY <1>0, <1>1, <1>2, <1>3, <1>5, <3>1, <3>2, <3>3, <3>4, <3>5, <3>6, KeysOn
    <2>3. QED BY <1>4, <2>1, <2>2 DEF Ordered
  <1>6. CASE req[t].key = pending /\ pending # NoKey /\ current' = pending /\ pending' = NoKey
    <2>1. KeyOrder'
      <3>1. left.rotations \in Int BY <1>0 DEF TypeOK
      <3>2. QED BY <1>0, <1>6, <3>1, Numbers, Kinds DEF KeyOrder
    <2>2. ASSUME Kept' PROVE KeyInv'
      <3>1. KeyInv BY <1>0, <2>2 DEF Kept
      <3>2. QED BY <1>0, <1>1, <1>2, <1>6, <3>1, KeysTaken
    <2>3. QED BY <1>4, <2>1, <2>2 DEF Ordered
  <1>7. QED BY <1>5, <1>6

LEMMA SendKeys ==
    ASSUME CredInv, NEW t \in Threads, Send(t)
    PROVE  Ordered
  <1>0. TypeOK /\ Equipped /\ KeyOrder /\ OfferInv /\ (Kept => KeyInv) BY DEF CredInv, SaveBase
  <1>1. pc[t] = "sent" /\ UNCHANGED <<disk, conf, past, job, link>> BY DEF Send, At
  <1>2. req[t].key \in Keys /\ ~req[t].ok /\ req[t].offer = NoKey BY <1>0, <1>1 DEF Equipped, Asking
  <1>3. file' = file BY <1>1 DEF disk
  <1>4. C(t) \in Client /\ req[t].c \in Clients /\ req[t] \in Request /\ C(t) = client[req[t].c] BY <1>0, Fields
  <1>5. CASE /\ Fault /\ (UNCHANGED <<current, pending>> \/ Taken(C(t).srv, req[t].key))
             /\ Finish(t) /\ Put(t, Unlocked(t, C(t)))
    <2>1. left'.rotations = left.rotations BY <1>0, <1>5, FaultType DEF TypeOK
    <2>2. QED BY <1>1, <1>2, <1>3, <1>5, <2>1, TakenIs, FinishKeys
  <1>6. CASE /\ NoFault /\ Taken(C(t).srv, req[t].key) /\ Goes(t, "answered") /\ UNCHANGED client
             /\ req' = [req EXCEPT ![t].ok = Accepts(C(t).srv, req[t].key),
                                ![t].offer = IF req[t].kind = "handshake" /\ C(t).srv = 1 /\ req[t].key = current THEN pending ELSE NoKey]
    <2> DEFINE ok == Accepts(C(t).srv, req[t].key)
               offer == IF req[t].kind = "handshake" /\ C(t).srv = 1 /\ req[t].key = current THEN pending ELSE NoKey
    <2>1. pc'[t] = "answered" /\ \A u \in Threads : u # t => pc'[u] = pc[u]
      BY <1>0, <1>6, GoesType DEF Places
    <2>2. req' = [req EXCEPT ![t].ok = ok, ![t].offer = offer] BY <1>6
    <2>3. C(t).srv = 1 => (ok <=> req[t].key \in {current, pending}) BY DEF Accepts
    <2>4. offer = NoKey \/ (C(t).srv = 1 /\ req[t].key = current /\ offer = pending) OBVIOUS
    <2> HIDE DEF ok, offer
    <2>5. /\ req'[t].ok = ok /\ req'[t].offer = offer /\ req'[t].key = req[t].key /\ req'[t].c = req[t].c
          /\ \A u \in Threads : u # t => req'[u] = req[u]
      BY <1>0, <1>4, <2>2 DEF TypeOK, Request
    <2>6. left' = left /\ past' = past BY <1>1, <1>6 DEF NoFault
    <2>7. CASE C(t).srv = 1 /\ req[t].key = pending /\ pending # NoKey /\ current' = pending /\ pending' = NoKey
      <3>1. offer = NoKey BY <1>0, <2>4, <2>7, Numbers DEF KeyOrder
      <3>2. ok BY <2>3, <2>7
      <3>3. KeyOrder'
        <4>1. left.rotations \in Int BY <1>0 DEF TypeOK
        <4>2. QED BY <1>0, <2>6, <2>7, <4>1, Numbers, Kinds DEF KeyOrder
      <3>4. OfferInv'
        <4>1. \A c \in Clients : client'[c] = client[c] BY <1>6
        <4>2. \A c \in Clients : client'[c].new # NoKey => client'[c].srv = 1 /\ client'[c].old < client'[c].new
          BY <1>0, <4>1 DEF OfferInv
        <4>3. \A u \in Threads : req[u].c \in Clients BY <1>0, Fields
        <4>4. QED BY <1>0, <2>5, <3>1, <4>1, <4>2, <4>3, OfferOn
      <3>5. ASSUME Kept' PROVE KeyInv'
        <4>1. KeyInv BY <1>0, <2>6, <3>5 DEF Kept
        <4>2. \A c \in Clients : client'[c] = client[c] BY <1>6
        <4>3. Known' \subseteq Known \cup {NoKey}
          <5>1. file'.key \in Known /\ req'[t].key \in Known BY <1>0, <1>3, <2>5, KnownHere
          <5> DEFINE S == Known \cup {NoKey}
          <5>2. Known \subseteq S /\ file'.key \in S /\ req'[t].key \in S /\ req'[t].offer \in S
            BY <2>5, <3>1, <5>1
          <5> HIDE DEF S
          <5>3. Known' \subseteq S BY <1>0, <2>5, <4>2, <5>2, KnownAfter
          <5>4. QED BY <5>3 DEF S
        <4>4. pc'[t] \notin {"restore", "restoring"} BY <2>1
        <4>5. QED BY <1>0, <1>3, <2>1, <2>5, <2>7, <3>1, <3>2, <4>1, <4>2, <4>3, <4>4, KeysTaken
      <3>6. QED BY <3>3, <3>4, <3>5 DEF Ordered
    <2>8. CASE ~(C(t).srv = 1 /\ req[t].key = pending) /\ current' = current /\ pending' = pending
      <3>1. \A c \in Clients : client'[c] = client[c] BY <1>6
      <3>2. \A u \in Threads : req[u].c \in Clients BY <1>0, Fields
      <3>3. KeyOrder' BY <1>0, <2>6, <2>8, OrderOn
      <3>4. OfferInv'
        <4>1. \A c \in Clients : client'[c].new # NoKey => client'[c].srv = 1 /\ client'[c].old < client'[c].new
          BY <1>0, <3>1 DEF OfferInv
        <4>2. req'[t].offer # NoKey => req'[t].ok /\ client'[req'[t].c].srv = 1 /\ req'[t].key < req'[t].offer
          BY <1>0, <1>4, <2>3, <2>4, <2>5, <3>1 DEF KeyOrder
        <4>3. QED BY <1>0, <2>5, <3>1, <3>2, <4>1, <4>2, OfferOn
      <3>5. ASSUME Kept' PROVE KeyInv'
        <4>1. KeyInv BY <1>0, <2>6, <3>5 DEF Kept
        <4>2. Known' \subseteq Known \cup {Paired, NoKey, pending}
          <5>1. file'.key \in Known /\ req'[t].key \in Known BY <1>0, <1>3, <2>5, KnownHere
          <5>2. req'[t].offer \in {NoKey, pending} BY <2>4, <2>5
          <5> DEFINE S == Known \cup {Paired, NoKey, pending}
          <5>3. Known \subseteq S /\ file'.key \in S /\ req'[t].key \in S /\ req'[t].offer \in S
            BY <5>1, <5>2
          <5> HIDE DEF S
          <5>4. Known' \subseteq S BY <1>0, <2>5, <3>1, <5>3, KnownAfter
          <5>5. QED BY <5>4 DEF S
        <4>3. file'.srv = 1 => file.srv = 1 /\ file'.key \in {current, pending} /\ file'.key = file.key
          BY <1>3, <4>1 DEF KeyInv
        <4>4. \A u \in Threads : req[u].ok => req[u].key >= 0 BY <1>0, Numbers DEF Equipped
        <4>5. req'[t].offer # NoKey => req'[t].offer = InForce BY <2>4, <2>5 DEF InForce
        <4>6. ~req'[t].ok /\ client'[req'[t].c].srv = 1 => req'[t].key < current
          <5>1. req[t].key \in Known /\ req[t].key \in Int BY <1>0, <1>2, KnownHere, Numbers
          <5>2. req[t].key <= current \/ req[t].key = pending BY <4>1, <5>1 DEF KeyInv
          <5>3. QED BY <1>0, <1>4, <2>3, <2>5, <3>1, <5>1, <5>2, Numbers
        <4>7. req'[t].ok /\ client'[req'[t].c].srv = 1 => req'[t].key \in {current, pending}
          BY <1>4, <2>3, <2>5, <3>1
        <4>8. \A c \in Clients : client'[c].restore # NoKey => client'[c].srv = 1 /\
                  \E k \in client'[c].refused : client'[c].restore < k /\ k < current
          BY <3>1, <4>1 DEF KeyInv, GivenUp
        <4>9. Unstored => /\ \A c \in Clients : client'[c].key # pending /\ client'[c].old # pending
                          /\ req'[t].key # pending
          BY <2>5, <3>1, <4>1 DEF KeyInv, Unused
        <4>10. pc'[t] # "switch" /\ pc'[t] \notin {"restore", "restoring"} BY <2>1
        <4>11. QED
          BY <1>0, <2>1, <2>5, <2>8, <3>1, <3>2, <4>1, <4>2, <4>3, <4>4, <4>5, <4>6, <4>7, <4>8, <4>9, <4>10, KeysOn
      <3>6. QED BY <3>3, <3>4, <3>5 DEF Ordered
    <2>9. QED BY <1>2, <1>6, <2>7, <2>8, TakenIs
  <1>7. QED BY <1>5, <1>6 DEF Send

(* A client after an answer, as far as keys go: it may have settled on its  *)
(* new key, or gone back to the old one and remember the new one as refused. *)
Follows(nc, cl) ==
    /\ nc.srv = cl.srv /\ nc.key \in {cl.key, cl.old} /\ nc.new \in {cl.new, NoKey} /\ nc.old \in {cl.old, NoKey}
    /\ nc.new # NoKey => nc.new = cl.new /\ nc.old = cl.old
    /\ nc.restore \in {cl.restore, cl.old, NoKey} /\ nc.refused \subseteq cl.refused \cup {cl.new}

\* What it may still have to write back, and the refused key that is about.
Reverts(nc, cl, gone) ==
    nc.restore # NoKey => \/ cl.restore # NoKey /\ nc.restore = cl.restore /\ cl.refused \subseteq nc.refused
                          \/ gone /\ cl.new # NoKey /\ nc.restore = cl.old /\ cl.new \in nc.refused

LEMMA DecideKeys ==
    ASSUME NEW cl \in Client, NEW key \in Keys, NEW ok \in BOOLEAN
    PROVE  LET d == Decide(cl, key, ok) IN
           /\ Follows(d.cl, cl) /\ Reverts(d.cl, cl, key = cl.new /\ ~ok)
           /\ d.retry \in {NoKey, cl.key, cl.old}
  <1>1. /\ cl.srv \in {1, 2} /\ cl.key \in Keys /\ cl.new \in AnyKey /\ cl.old \in AnyKey
        /\ cl.restore \in AnyKey /\ cl.refused \subseteq Keys /\ cl.adoptMu \in Threads \cup {Free}
    BY DEF Client
  <1>2. CASE cl.new # NoKey /\ key = cl.new /\ ok
    <2> DEFINE n == [cl EXCEPT !.new = NoKey, !.old = NoKey]
    <2>1. Decide(cl, key, ok).cl = n /\ Decide(cl, key, ok).retry = NoKey BY <1>2 DEF Decide
    <2>2. /\ n.srv = cl.srv /\ n.key = cl.key /\ n.new = NoKey /\ n.old = NoKey /\ n.restore = cl.restore
          /\ n.refused = cl.refused
      BY DEF Client
    <2> HIDE DEF n
    <2>3. Follows(n, cl) BY <2>2 DEF Follows
    <2>4. Reverts(n, cl, key = cl.new /\ ~ok) BY <2>2 DEF Reverts
    <2>5. QED BY <2>1, <2>3, <2>4
  <1>3. CASE cl.new # NoKey /\ key = cl.new /\ ~ok
    <2> DEFINE kept == IF cl.key = cl.new THEN cl.old ELSE cl.key
               known == cl.refused \cup {cl.new}
               n == [cl EXCEPT !.new = NoKey, !.old = NoKey, !.refused = known, !.restore = cl.old, !.key = kept]
    <2>1. Decide(cl, key, ok)
            = [cl |-> [cl EXCEPT !.new = NoKey, !.old = NoKey, !.refused = @ \cup {cl.new}, !.restore = cl.old,
                                 !.key = IF @ = cl.new THEN cl.old ELSE @], retry |-> cl.old]
      BY <1>3 DEF Decide
    <2>2. Decide(cl, key, ok).cl = n /\ Decide(cl, key, ok).retry = cl.old BY <2>1
    <2>3. kept \in {cl.key, cl.old} /\ known = cl.refused \cup {cl.new} OBVIOUS
    <2> HIDE DEF kept, known
    <2>4. /\ n.srv = cl.srv /\ n.key = kept /\ n.new = NoKey /\ n.old = NoKey /\ n.restore = cl.old
          /\ n.refused = known
      BY DEF Client
    <2> HIDE DEF n
    <2>5. Follows(n, cl) BY <2>3, <2>4 DEF Follows
    <2>6. Reverts(n, cl, key = cl.new /\ ~ok) BY <1>3, <2>3, <2>4 DEF Reverts
    <2>7. QED BY <2>2, <2>5, <2>6
  <1>4. CASE ~(cl.new # NoKey /\ key = cl.new) /\ cl.restore # NoKey /\ key = cl.restore
    <2> DEFINE n == [cl EXCEPT !.restore = NoKey]
    <2>1. Decide(cl, key, ok).cl = n /\ Decide(cl, key, ok).retry = NoKey BY <1>4 DEF Decide
    <2>2. /\ n.srv = cl.srv /\ n.key = cl.key /\ n.new = cl.new /\ n.old = cl.old /\ n.restore = NoKey
          /\ n.refused = cl.refused
      BY DEF Client
    <2> HIDE DEF n
    <2>3. Follows(n, cl) BY <2>2 DEF Follows
    <2>4. Reverts(n, cl, key = cl.new /\ ~ok) BY <2>2 DEF Reverts
    <2>5. QED BY <2>1, <2>3, <2>4
  <1>5. CASE ~(cl.new # NoKey /\ key = cl.new) /\ ~(cl.restore # NoKey /\ key = cl.restore)
    <2>1. Decide(cl, key, ok) = [cl |-> cl, retry |-> IF ~ok /\ key # cl.key THEN cl.key ELSE NoKey]
      BY <1>5 DEF Decide
    <2>2. Follows(cl, cl) BY DEF Follows
    <2>3. Reverts(cl, cl, key = cl.new /\ ~ok) BY DEF Reverts
    <2>4. QED BY <2>1, <2>2, <2>3
  <1>6. QED BY <1>2, <1>3, <1>4, <1>5

(* What such a client keeps of the order of the keys. *)
LEMMA FollowOn ==
    ASSUME CredInv, NEW t \in Threads, NEW nc \in Client, NEW gone \in BOOLEAN, Follows(nc, C(t)), Reverts(nc, C(t), gone),
           client'[req[t].c] = nc, \A c \in Clients : c # req[t].c => client'[c] = client[c]
    PROVE  /\ \A c \in Clients :
                /\ client'[c].srv = client[c].srv
                /\ client'[c].new # NoKey => client'[c].srv = 1 /\ client'[c].old < client'[c].new
                /\ client'[c].key \in Known \cup {NoKey} /\ client'[c].new \in Known \cup {NoKey}
                /\ client'[c].old \in Known \cup {NoKey}
                /\ client'[c].restore \in Known \cup {NoKey} /\ client'[c].refused \subseteq Known \cup {NoKey}
           /\ KeyInv /\ (gone => C(t).new < current) =>
                /\ \A c \in Clients : client'[c].restore # NoKey => client'[c].srv = 1 /\
                        \E k \in client'[c].refused : client'[c].restore < k /\ k < current
                /\ Unstored => \A c \in Clients : client'[c].key # pending /\ client'[c].old # pending
  <1>0. TypeOK /\ OfferInv BY DEF CredInv, SaveBase
  <1>1. req[t].c \in Clients /\ C(t) = client[req[t].c] BY <1>0, Fields
  <1>2. \A c \in Clients : client[c].new # NoKey => client[c].srv = 1 /\ client[c].old < client[c].new
    BY <1>0 DEF OfferInv
  <1>3. \A c \in Clients : client'[c].srv = client[c].srv BY <1>1 DEF Follows
  <1>4. nc.new # NoKey => nc.srv = 1 /\ nc.old < nc.new BY <1>1, <1>2 DEF Follows
  <1>5. /\ nc.key \in Known \cup {NoKey} /\ nc.new \in Known \cup {NoKey} /\ nc.old \in Known \cup {NoKey}
        /\ nc.restore \in Known \cup {NoKey} /\ nc.refused \subseteq Known \cup {NoKey}
    <2>1. /\ C(t).key \in Known /\ C(t).new \in Known /\ C(t).old \in Known
          /\ C(t).restore \in Known /\ C(t).refused \subseteq Known
      BY <1>0, <1>1, KnownHere
    <2>2. QED BY <2>1 DEF Follows
  <1>6. ASSUME NEW c \in Clients
        PROVE  /\ client'[c].srv = client[c].srv
               /\ client'[c].new # NoKey => client'[c].srv = 1 /\ client'[c].old < client'[c].new
               /\ client'[c].key \in Known \cup {NoKey} /\ client'[c].new \in Known \cup {NoKey}
               /\ client'[c].old \in Known \cup {NoKey}
               /\ client'[c].restore \in Known \cup {NoKey} /\ client'[c].refused \subseteq Known \cup {NoKey}
    <2>1. CASE c = req[t].c BY <1>3, <1>4, <1>5, <2>1
    <2>2. CASE c # req[t].c
      <3>1. client'[c] = client[c] BY <2>2
      <3>2. QED BY <1>0, <1>2, <3>1, KnownHere
    <2>3. QED BY <2>1, <2>2
  <1>7. ASSUME KeyInv, gone => C(t).new < current
        PROVE  /\ \A c \in Clients : client'[c].restore # NoKey => client'[c].srv = 1 /\
                        \E k \in client'[c].refused : client'[c].restore < k /\ k < current
               /\ Unstored => \A c \in Clients : client'[c].key # pending /\ client'[c].old # pending
    <2>1. \A c \in Clients : client[c].restore # NoKey => client[c].srv = 1 /\
              \E k \in client[c].refused : client[c].restore < k /\ k < current
      BY <1>7 DEF KeyInv, GivenUp
    <2>2. nc.restore # NoKey => nc.srv = 1 /\ \E k \in nc.refused : nc.restore < k /\ k < current
      <3>1. CASE C(t).restore # NoKey /\ nc.restore = C(t).restore /\ C(t).refused \subseteq nc.refused
        BY <1>1, <2>1, <3>1 DEF Follows
      <3>2. CASE gone /\ C(t).new # NoKey /\ nc.restore = C(t).old /\ C(t).new \in nc.refused
        BY <1>1, <1>2, <1>7, <3>2 DEF Follows
      <3>3. QED BY <3>1, <3>2 DEF Reverts
    <2>3. Unstored => \A c \in Clients : client[c].key # pending /\ client[c].old # pending BY <1>7 DEF KeyInv, Unused
    <2>4. Unstored => nc.key # pending /\ nc.old # pending
      <3>1. Unstored => pending # NoKey BY DEF Unstored
      <3>2. QED BY <1>1, <2>3, <3>1 DEF Follows
    <2>5. QED BY <1>3, <2>1, <2>2, <2>3, <2>4
  <1>8. QED BY <1>6, <1>7

LEMMA UnlockedFollows ==
    ASSUME NEW t, NEW cl \in Client, NEW was, NEW gone, Follows(cl, was), Reverts(cl, was, gone)
    PROVE  Unlocked(t, cl) \in Client /\ Follows(Unlocked(t, cl), was) /\ Reverts(Unlocked(t, cl), was, gone)
  <1> DEFINE ul == Unlocked(t, cl)
  <1>1. /\ ul \in Client /\ ul.srv = cl.srv /\ ul.key = cl.key /\ ul.new = cl.new /\ ul.old = cl.old
        /\ ul.restore = cl.restore /\ ul.refused = cl.refused
    BY UnlockedType
  <1> HIDE DEF ul
  <1>2. Follows(ul, was) BY <1>1 DEF Follows
  <1>3. Reverts(ul, was, gone) BY <1>1 DEF Reverts
  <1>4. QED BY <1>1, <1>2, <1>3 DEF ul

(* An answer that is dealt with: the client follows, and the request goes   *)
(* on, is sent with another key of the client's, or is over.                *)
Settles(t, nc, gone) ==
    /\ nc \in Client /\ Follows(nc, C(t)) /\ Reverts(nc, C(t), gone)
    /\ client'[req[t].c] = nc /\ \A c \in Clients : c # req[t].c => client'[c] = client[c]
    /\ \A u \in Threads : u # t => pc'[u] = pc[u] /\ req'[u] = req[u]
    /\ pc'[t] \notin {"answered", "switch"}
    /\ \/ req'[t] = req[t]
       \/ /\ req'[t].ok = req[t].ok /\ req'[t].offer = req[t].offer /\ req'[t].c = req[t].c
          /\ ~req[t].ok /\ req[t].offer = NoKey /\ req'[t].key \in {C(t).key, C(t).old}
       \/ ~req'[t].ok /\ req'[t].offer = NoKey /\ req'[t].key = NoKey
    /\ UNCHANGED <<file, current, pending, past>> /\ left'.rotations = left.rotations

LEMMA SettleKeys ==
    ASSUME CredInv, NEW t \in Threads, NEW nc, NEW gone \in BOOLEAN, Settles(t, nc, gone),
           KeyInv => (gone => C(t).new < current),
           KeyInv => pc'[t] \notin {"restore", "restoring"}
    PROVE  Ordered
  <1>0. TypeOK /\ Equipped /\ KeyOrder /\ OfferInv /\ (Kept => KeyInv) BY DEF CredInv, SaveBase
  <1>1. /\ \A u \in Threads : u # t => pc'[u] = pc[u] /\ req'[u] = req[u]
        /\ UNCHANGED <<file, current, pending, past>> /\ left'.rotations = left.rotations
        /\ pc'[t] \notin {"answered", "switch"}
    BY DEF Settles
  <1>2. /\ \A c \in Clients :
             /\ client'[c].srv = client[c].srv
             /\ client'[c].new # NoKey => client'[c].srv = 1 /\ client'[c].old < client'[c].new
             /\ client'[c].key \in Known \cup {NoKey} /\ client'[c].new \in Known \cup {NoKey}
             /\ client'[c].old \in Known \cup {NoKey}
             /\ client'[c].restore \in Known \cup {NoKey} /\ client'[c].refused \subseteq Known \cup {NoKey}
        /\ KeyInv =>
             /\ \A c \in Clients : client'[c].restore # NoKey => client'[c].srv = 1 /\
                     \E k \in client'[c].refused : client'[c].restore < k /\ k < current
             /\ Unstored => \A c \in Clients : client'[c].key # pending /\ client'[c].old # pending
    BY FollowOn DEF Settles
  <1>3. /\ req[t].c \in Clients /\ C(t) = client[req[t].c] /\ \A u \in Threads : req[u].c \in Clients
    BY <1>0, Fields
  <1>4. \/ req'[t] = req[t]
        \/ /\ req'[t].ok = req[t].ok /\ req'[t].offer = req[t].offer /\ req'[t].c = req[t].c
           /\ ~req[t].ok /\ req[t].offer = NoKey /\ req'[t].key \in {C(t).key, C(t).old}
        \/ ~req'[t].ok /\ req'[t].offer = NoKey /\ req'[t].key = NoKey
    BY DEF Settles
  <1>5. KeyOrder' BY <1>0, <1>1, OrderOn
  <1>6. OfferInv'
    <2>1. req[t].offer # NoKey => req[t].ok /\ C(t).srv = 1 /\ req[t].key < req[t].offer BY <1>0 DEF OfferInv
    <2>2. req'[t].offer # NoKey => req'[t].ok /\ client'[req'[t].c].srv = 1 /\ req'[t].key < req'[t].offer
      BY <1>2, <1>3, <1>4, <2>1
    <2>3. QED BY <1>0, <1>1, <1>2, <1>3, <2>2, OfferOn
  <1>7. ASSUME Kept' PROVE KeyInv'
    <2>1. KeyInv BY <1>0, <1>1, <1>7 DEF Kept
    <2> DEFINE S == Known \cup {Paired, NoKey, pending}
    <2>2. Known' \subseteq S
      <3>1. /\ file.key \in Known /\ req[t].key \in Known /\ req[t].offer \in Known
            /\ client[req[t].c].key \in Known /\ client[req[t].c].old \in Known
        BY <1>0, <1>3, KnownHere
      <3>2. req'[t].key \in S /\ req'[t].offer \in S BY <1>3, <1>4, <3>1
      <3>3. file'.key \in S /\ Known \subseteq S /\ (Known \cup {NoKey}) \subseteq S BY <1>1, <3>1
      <3> HIDE DEF S
      <3>4. \A c \in Clients : /\ client'[c].key \in S /\ client'[c].new \in S /\ client'[c].old \in S
                               /\ client'[c].restore \in S /\ client'[c].refused \subseteq S
        BY <1>2, <3>3
      <3>5. QED BY <1>0, <1>1, <3>2, <3>3, <3>4, KnownAfter
    <2>3. file'.srv = 1 => file.srv = 1 /\ file'.key \in {current, pending} /\ file'.key = file.key
      BY <1>1, <2>1 DEF KeyInv
    <2>4. \A u \in Threads : req[u].ok => req[u].key >= 0 BY <1>0, Numbers DEF Equipped
    <2>5. req'[t].offer # NoKey => req'[t].offer = InForce BY <1>4, <2>1 DEF KeyInv, Told
    <2>6. req'[t].ok => req[t].ok /\ req'[t].key = req[t].key /\ req'[t].c = req[t].c BY <1>4
    <2>7. Unstored => req'[t].key # pending
      <3>1. Unstored => /\ pending # NoKey /\ req[t].key # pending
                        /\ C(t).key # pending /\ C(t).old # pending
        BY <1>3, <2>1 DEF KeyInv, Unused, Unstored
      <3>2. QED BY <1>4, <3>1
    <2> HIDE DEF S
    <2>8. Known' \subseteq Known \cup {Paired, NoKey, pending} BY <2>2 DEF S
    <2>9. pc'[t] \notin {"restore", "restoring"} /\ pc'[t] # "answered" /\ pc'[t] # "switch" BY <1>1, <2>1
    <2>10. \A u \in Threads : client'[req[u].c].srv = client[req[u].c].srv BY <1>2, <1>3
    <2>11. req'[t].ok /\ client'[req'[t].c].srv = 1 => req[t].ok /\ C(t).srv = 1 /\ req'[t].key = req[t].key /\ req[t].key >= 0
      BY <1>3, <2>4, <2>6, <2>10
    <2>12. /\ \A c \in Clients : client'[c].restore # NoKey => client'[c].srv = 1 /\
                     \E k \in client'[c].refused : client'[c].restore < k /\ k < current
           /\ Unstored => \A c \in Clients : client'[c].key # pending /\ client'[c].old # pending
      BY <1>2, <2>1
    <2>13. current' = current /\ pending' = pending BY <1>1
    <2>14. QED
      BY <1>0, <1>1, <2>1, <2>3, <2>4, <2>5, <2>7, <2>8, <2>9, <2>10, <2>11, <2>12, <2>13, KeysOn
  <1>8. QED BY <1>5, <1>6, <1>7 DEF Ordered

LEMMA ObserveKeys ==
    ASSUME CredInv, NEW t \in Threads, Observe(t)
    PROVE  Ordered
  <1> DEFINE d == Decide(C(t), req[t].key, req[t].ok)
             gone == req[t].key = C(t).new /\ ~req[t].ok
  <1>0. TypeOK /\ Equipped /\ KeyOrder /\ OfferInv /\ pc[t] = "answered" BY DEF CredInv, SaveBase, Observe, At
  <1>1. UNCHANGED <<disk, conf, sys, job, link, left>> BY DEF Observe
  <1>2. UNCHANGED <<file, current, pending, past>> /\ left'.rotations = left.rotations BY <1>1 DEF disk, sys
  <1>3. /\ C(t) \in Client /\ req[t].key \in Keys /\ req[t].ok \in BOOLEAN /\ (C(t).new # NoKey => C(t).old \in Keys)
        /\ req[t].c \in Clients /\ C(t) = client[req[t].c]
        /\ (~req[t].ok => req[t].offer = NoKey)
    BY <1>0, Fields DEF Equipped, Asking
  <1>4. d.cl \in Client /\ (d.retry # NoKey => ~req[t].ok) BY <1>3, DecideType
  <1>5. Follows(d.cl, C(t)) /\ Reverts(d.cl, C(t), gone) /\ d.retry \in {NoKey, C(t).key, C(t).old}
    BY <1>3, DecideKeys
  <1>6. \/ Restoring(C(t), req[t].key, req[t].ok) /\ Goes(t, "restore") /\ Put(t, d.cl) /\ UNCHANGED req
        \/ /\ d.retry \notin {NoKey, req[t].key} /\ req' = [req EXCEPT ![t].key = d.retry, ![t].tries = 1]
           /\ Goes(t, "sent") /\ Put(t, d.cl)
        \/ Rest(t, d.cl)
    BY DEF Observe
  <1>7. gone \in BOOLEAN OBVIOUS
  <1>8. KeyInv => (gone => C(t).new < current)
    <2>1. SUFFICES ASSUME KeyInv, req[t].key = C(t).new, ~req[t].ok PROVE C(t).new < current OBVIOUS
    <2>2. C(t).new # NoKey BY <1>3, <2>1, Kinds
    <2>3. C(t).srv = 1 BY <1>0, <1>3, <2>2 DEF OfferInv
    <2>4. QED BY <1>0, <2>1, <2>3 DEF KeyInv, Told
  <1>9. KeyInv => ~Restoring(C(t), req[t].key, req[t].ok)
    <2>1. SUFFICES ASSUME KeyInv, req[t].ok, C(t).restore # NoKey, req[t].key = C(t).restore PROVE FALSE
      BY DEF Restoring
    <2>2. C(t).srv = 1 BY <1>3, <2>1 DEF KeyInv, GivenUp
    <2>3. PICK k \in C(t).refused : C(t).restore < k /\ k < current BY <1>3, <2>1 DEF KeyInv, GivenUp
    <2>4. k \in Known BY <1>0, <1>3, KnownHere
    <2>5. \/ req[t].key \in {current, pending}
          \/ pending = NoKey /\ \A j \in Known : j <= req[t].key \/ j >= current
      BY <2>1, <2>2 DEF KeyInv, Told
    <2>6. k \in Int /\ req[t].key \in Int /\ current \in Int /\ pending \in Int BY <1>0, <1>3, <2>4, KnownInt, Numbers
    <2>7. pending # NoKey => current < pending BY <1>0 DEF KeyOrder
    <2>8. req[t].key # NoKey BY <1>3, Kinds
    <2>9. QED BY <2>1, <2>3, <2>4, <2>5, <2>6, <2>7, <2>8
  <1> HIDE DEF d, gone
  <1>10. CASE Restoring(C(t), req[t].key, req[t].ok) /\ Goes(t, "restore") /\ Put(t, d.cl) /\ UNCHANGED req
    <2>1. pc'[t] = "restore" /\ \A u \in Threads : u # t => pc'[u] = pc[u]
      BY <1>0, <1>10, GoesType DEF Places
    <2>2. Settles(t, d.cl, gone) BY <1>0, <1>2, <1>4, <1>5, <1>10, <2>1, PutType DEF Settles
    <2>3. QED BY <1>0, <1>7, <1>8, <1>9, <1>10, <2>2, SettleKeys
  <1>11. CASE /\ d.retry \notin {NoKey, req[t].key} /\ req' = [req EXCEPT ![t].key = d.retry, ![t].tries = 1]
              /\ Goes(t, "sent") /\ Put(t, d.cl)
    <2>1. pc'[t] = "sent" /\ \A u \in Threads : u # t => pc'[u] = pc[u]
      BY <1>0, <1>11, GoesType DEF Places
    <2>2. /\ req'[t].key = d.retry /\ req'[t].ok = req[t].ok /\ req'[t].offer = req[t].offer /\ req'[t].c = req[t].c
          /\ \A u \in Threads : u # t => req'[u] = req[u]
      <3>1. req \in [Threads -> Request] /\ req[t] \in Request BY <1>0, Fields DEF TypeOK
      <3>2. QED BY <1>11, <3>1 DEF Request
    <2>3. Settles(t, d.cl, gone) BY <1>0, <1>2, <1>3, <1>4, <1>5, <1>11, <2>1, <2>2, PutType DEF Settles
    <2>4. pc'[t] \notin {"restore", "restoring"} BY <2>1
    <2>5. QED BY <1>0, <1>7, <1>8, <2>3, <2>4, SettleKeys
  <1>12. CASE Rest(t, d.cl)
    <2>1. RestAfter(t, d.cl) BY <1>0, <1>4, <1>12, RestType
    <2>2. Unlocked(t, d.cl) \in Client /\ Follows(Unlocked(t, d.cl), C(t)) /\ Reverts(Unlocked(t, d.cl), C(t), gone)
      BY <1>4, <1>5, UnlockedFollows
    <2>3. CASE pc'[t] = "adopt" /\ req' = req /\ client'[req[t].c] = d.cl
      <3>1. Settles(t, d.cl, gone) BY <1>2, <1>4, <1>5, <2>1, <2>3 DEF Settles, RestAfter
      <3>2. QED BY <1>0, <1>7, <1>8, <2>3, <3>1, SettleKeys
    <2>4. CASE /\ pc'[t] = IF t \in Menus THEN "engine" ELSE "off"
               /\ ~req'[t].ok /\ req'[t].offer = NoKey /\ req'[t].key = NoKey /\ client'[req[t].c] = Unlocked(t, d.cl)
      <3>1. Settles(t, Unlocked(t, d.cl), gone) BY <1>2, <2>1, <2>2, <2>4 DEF Settles, RestAfter
      <3>2. pc'[t] \notin {"restore", "restoring"} BY <2>4
      <3>3. QED BY <1>0, <1>7, <1>8, <3>1, <3>2, SettleKeys
    <2>5. QED BY <2>1, <2>3, <2>4 DEF RestAfter
  <1>13. QED BY <1>6, <1>10, <1>11, <1>12

(* A step that leaves the clients, and no key in the file but that of       *)
(* another server.                                                          *)
LEMMA QuietKeys ==
    ASSUME CredInv, NEW t \in Threads,
           \A u \in Threads : u # t => pc'[u] = pc[u] /\ req'[u] = req[u],
           client' = client, current' = current, pending' = pending, past \subseteq past', left'.rotations = left.rotations,
           file'.key \in {file.key, Paired}, file'.srv = 1 => file.srv = 1 /\ file'.key = file.key,
           \/ pc'[t] = pc[t] /\ req'[t] = req[t]
           \/ /\ pc'[t] \notin {"answered", "switch"}
              /\ req'[t] = req[t] \/ (~req'[t].ok /\ req'[t].offer = NoKey /\ req'[t].key = NoKey),
           KeyInv => pc'[t] \notin {"restore", "restoring"}
    PROVE  Ordered
  <1>0. TypeOK /\ Equipped /\ KeyOrder /\ OfferInv /\ (Kept => KeyInv) BY DEF CredInv, SaveBase
  <1>1. \A u \in Threads : req[u].c \in Clients BY <1>0, Fields
  <1>2. KeyOrder' BY <1>0, OrderOn
  <1>3. req'[t] = req[t] \/ (~req'[t].ok /\ req'[t].offer = NoKey /\ req'[t].key = NoKey) OBVIOUS
  <1>4. OfferInv' BY <1>0, <1>3 DEF OfferInv, C
  <1>5. ASSUME Kept' PROVE KeyInv'
    <2>1. KeyInv BY <1>0, <1>5 DEF Kept
    <2>2. Known' \subseteq Known \cup {Paired, NoKey, pending}
      <3> DEFINE S == Known \cup {Paired, NoKey, pending}
      <3>1. file.key \in Known /\ req[t].key \in Known /\ req[t].offer \in Known BY <1>0, KnownHere
      <3>2. Known \subseteq S /\ file'.key \in S /\ req'[t].key \in S /\ req'[t].offer \in S BY <1>3, <3>1
      <3> HIDE DEF S
      <3>3. Known' \subseteq S BY <1>0, <3>2, KnownAfter
      <3>4. QED BY <3>3 DEF S
    <2>3. file'.srv = 1 => file.srv = 1 /\ file'.key \in {current, pending} /\ file'.key = file.key
      BY <2>1 DEF KeyInv
    <2>4. \A u \in Threads : req[u].ok => req[u].key >= 0 BY <1>0, Numbers DEF Equipped
    <2>5. Told(t) BY <2>1 DEF KeyInv
    <2>6. req'[t].offer # NoKey => req'[t].offer = InForce BY <1>3, <2>5 DEF Told
    <2>7. pc'[t] = "answered" /\ ~req'[t].ok /\ client'[req'[t].c].srv = 1 => req'[t].key < current
      BY <2>5 DEF Told, C
    <2>8. req'[t].ok /\ client'[req'[t].c].srv = 1 => req[t].ok /\ C(t).srv = 1 /\ req'[t].key = req[t].key /\ req[t].key >= 0
      BY <1>3, <2>4 DEF C
    <2>9. \A c \in Clients : client'[c].restore # NoKey => client'[c].srv = 1 /\
              \E k \in client'[c].refused : client'[c].restore < k /\ k < current
      BY <2>1 DEF KeyInv, GivenUp
    <2>10. Unstored => /\ \A c \in Clients : client'[c].key # pending /\ client'[c].old # pending
                       /\ req'[t].key # pending /\ (pc'[t] = "switch" => req'[t].offer # pending)
      <3>1. Unstored => Unused /\ pending # NoKey BY <2>1 DEF KeyInv, Unstored
      <3>2. QED BY <1>3, <3>1 DEF Unused
    <2>11. \A u \in Threads : client'[req[u].c].srv = client[req[u].c].srv OBVIOUS
    <2>12. pc'[t] \notin {"restore", "restoring"} BY <2>1
    <2>13. QED BY <1>0, <2>1, <2>2, <2>3, <2>4, <2>6, <2>7, <2>8, <2>9, <2>10, <2>11, <2>12, KeysOn
  <1>6. QED BY <1>2, <1>4, <1>5 DEF Ordered

LEMMA ReadKeys ==
    ASSUME CredInv, NEW t \in Threads, Read(t)
    PROVE  Ordered
  <1>0. TypeOK BY DEF CredInv, SaveBase
  <1>1. /\ pc[t] \in Rewrites /\ Goes(t, Writes[pc[t]])
        /\ client' = client /\ req' = req /\ file' = file /\ left' = left /\ UNCHANGED sys
    BY DEF Read
  <1>2. pc'[t] = Writes[pc[t]] /\ \A u \in Threads : u # t => pc'[u] = pc[u]
    BY <1>0, <1>1, GoesType DEF Places, Writes, Rewrites
  <1>3. pc'[t] \in {"patching", "persisting"} \/ pc[t] = "restore"
    BY <1>1, <1>2 DEF Rewrites, Writes
  <1>4. pc'[t] \in {"patching", "persisting", "restoring"} BY <1>1, <1>2 DEF Rewrites, Writes
  <1>5. KeyInv => pc'[t] \notin {"restore", "restoring"} BY <1>3 DEF KeyInv, Told
  <1>6. current' = current /\ pending' = pending /\ past' = past BY <1>1 DEF sys
  <1>7. QED BY <1>1, <1>2, <1>4, <1>5, <1>6, QuietKeys

LEMMA RestoreKeys ==
    ASSUME CredInv, NEW t \in Threads, Restore(t)
    PROVE  Ordered
  <1>0. TypeOK /\ Equipped /\ KeyOrder /\ OfferInv /\ (Kept => KeyInv) /\ pc[t] = "restoring"
    BY DEF CredInv, SaveBase, Restore, At
  <1>1. Unlock(t) /\ current' = current /\ pending' = pending /\ past' = past BY DEF Restore, sys
  <1>2. /\ req[t].key \in Keys /\ C(t) \in Client /\ C(t) = client[req[t].c] /\ \A u \in Threads : req[u].c \in Clients
    BY <1>0, Fields DEF Equipped, Asking
  <1>3. SetKey(t, req[t].key) \/ NotWritten(t) BY DEF Restore
  <1>4. left'.rotations = left.rotations BY <1>0, <1>1, <1>2, <1>3, SetKeyType
  <1>5. PICK cl \in {C(t), Armed(C(t), req[t].key)} : Rest(t, cl) BY DEF Restore
  <1>6. cl \in Client /\ cl.srv = C(t).srv /\ cl.new = C(t).new /\ cl.old = C(t).old BY <1>2, <1>5, ArmedType
  <1>7. RestAfter(t, cl) BY <1>0, <1>5, <1>6, RestType
  <1>8. /\ Unlocked(t, cl).srv = cl.srv /\ Unlocked(t, cl).new = cl.new /\ Unlocked(t, cl).old = cl.old
    BY <1>6, UnlockedType
  <1>9. \A c \in Clients : client'[c].srv = client[c].srv /\ client'[c].new = client[c].new /\ client'[c].old = client[c].old
    <2>1. /\ client'[req[t].c].srv = C(t).srv /\ client'[req[t].c].new = C(t).new /\ client'[req[t].c].old = C(t).old
      BY <1>6, <1>7, <1>8 DEF RestAfter
    <2>2. QED BY <1>2, <1>7, <2>1 DEF RestAfter
  <1>10. OfferInv'
    <2>1. \A c \in Clients : client'[c].new # NoKey => client'[c].srv = 1 /\ client'[c].old < client'[c].new
      BY <1>0, <1>9 DEF OfferInv
    <2>2. req'[t].offer # NoKey => req'[t].ok /\ client'[req'[t].c].srv = 1 /\ req'[t].key < req'[t].offer
      BY <1>0, <1>2, <1>7, <1>9 DEF OfferInv, RestAfter
    <2>3. \A u \in Threads : u # t => req'[u] = req[u] BY <1>7 DEF RestAfter
    <2>4. QED BY <1>0, <1>2, <1>9, <2>1, <2>2, <2>3, OfferOn
  <1>11. KeyOrder' BY <1>0, <1>1, <1>4, OrderOn
  <1>12. ~Kept' BY <1>0, <1>1 DEF Kept, KeyInv, Told
  <1>13. QED BY <1>10, <1>11, <1>12 DEF Ordered

LEMMA AdoptKeys ==
    ASSUME CredInv, NEW t \in Threads, Adopt(t)
    PROVE  Ordered
  <1>0. TypeOK BY DEF CredInv, SaveBase
  <1>1. UNCHANGED <<file, current, pending, past>> /\ left' = left BY DEF Adopt, disk, sys
  <1>2. C(t) \in Client BY <1>0, Fields
  <1>3. CASE Finish(t) /\ UNCHANGED client BY <1>1, <1>3, FinishKeys
  <1>4. CASE Put(t, [C(t) EXCEPT !.adoptMu = t]) /\ Goes(t, "persist") /\ UNCHANGED req
    <2> DEFINE n == [C(t) EXCEPT !.adoptMu = t]
    <2>1. /\ n \in Client /\ n.srv = C(t).srv /\ n.key = C(t).key /\ n.new = C(t).new /\ n.old = C(t).old
          /\ n.restore = C(t).restore /\ n.refused = C(t).refused
      BY <1>2 DEF Client
    <2>2. Put(t, n) BY <1>4
    <2> HIDE DEF n
    <2>3. Follows(n, C(t)) BY <2>1 DEF Follows
    <2>4. Reverts(n, C(t), FALSE) BY <2>1 DEF Reverts
    <2>5. pc'[t] = "persist" /\ \A u \in Threads : u # t => pc'[u] = pc[u]
      BY <1>0, <1>4, GoesType DEF Places
    <2>6. Settles(t, n, FALSE) BY <1>0, <1>1, <1>4, <2>1, <2>2, <2>3, <2>4, <2>5, PutType DEF Settles
    <2>7. pc'[t] \notin {"restore", "restoring"} BY <2>5
    <2>8. QED BY <2>6, <2>7, SettleKeys
  <1>5. QED BY <1>3, <1>4 DEF Adopt

LEMMA PersistKeys ==
    ASSUME CredInv, NEW t \in Threads, Persist(t)
    PROVE  Ordered
  <1>0. TypeOK /\ Equipped /\ Locked /\ KeyOrder /\ OfferInv /\ (Kept => KeyInv) /\ pc[t] = "persisting"
    BY DEF CredInv, SaveBase, Persist, At
  <1>1. Unlock(t) /\ current' = current /\ pending' = pending /\ past' = past BY DEF Persist, sys
  <1>2. /\ req[t].offer \in Keys /\ C(t) = client[req[t].c] /\ \A u \in Threads : req[u].c \in Clients
    BY <1>0, Fields DEF Equipped, Adopting
  <1>3. SetKey(t, req[t].offer) \/ NotWritten(t) BY DEF Persist
  <1>4. left'.rotations = left.rotations BY <1>0, <1>1, <1>2, <1>3, SetKeyType
  <1>5. CASE NotWritten(t) /\ Finish(t) /\ Put(t, Unlocked(t, C(t)))
    <2>1. file' = file BY <1>5 DEF NotWritten
    <2>2. QED BY <1>1, <1>4, <1>5, <2>1, FinishKeys
  <1>6. CASE SetKey(t, req[t].offer) /\ Goes(t, "switch") /\ UNCHANGED <<client, req>>
    <2>1. pc'[t] = "switch" /\ \A u \in Threads : u # t => pc'[u] = pc[u]
      BY <1>0, <1>6, GoesType DEF Places
    <2>2. file'.srv = file.srv /\ file'.key = req[t].offer
      <3>1. snap[t] = file BY <1>0 DEF Locked, Writing
      <3>2. file' = [snap[t] EXCEPT !.key = req[t].offer] BY <1>6 DEF SetKey, Rewritten
      <3>3. file \in Config BY <1>0 DEF TypeOK
      <3>4. QED BY <3>1, <3>2, <3>3 DEF Config
    <2>3. KeyOrder' BY <1>0, <1>1, <1>4, OrderOn
    <2>4. OfferInv' BY <1>0, <1>6 DEF OfferInv, C
    <2>5. ASSUME Kept' PROVE KeyInv'
      <3>1. KeyInv BY <1>0, <1>1, <2>5 DEF Kept
      <3>2. Told(t) /\ req[t].offer # NoKey BY <1>2, <3>1, Kinds DEF KeyInv
      <3>3. req[t].offer = InForce BY <3>2 DEF Told
      <3>4. InForce \in {current, pending} BY DEF InForce
      <3>5. file'.srv = 1 => file.srv = 1 /\ file'.key \in {current, pending} /\ file'.key = InForce
        BY <2>2, <3>3, <3>4
      <3>6. Known' \subseteq Known \cup {Paired, NoKey, pending}
        <4> DEFINE S == Known \cup {Paired, NoKey, pending}
        <4>1. req[t].key \in Known /\ req[t].offer \in Known BY <1>0, KnownHere
        <4>2. Known \subseteq S /\ file'.key \in S /\ req'[t].key \in S /\ req'[t].offer \in S BY <1>6, <2>2, <4>1
        <4> HIDE DEF S
        <4>3. Known' \subseteq S BY <1>0, <1>6, <4>2, KnownAfter
        <4>4. QED BY <4>3 DEF S
      <3>7. \A u \in Threads : req[u].ok => req[u].key >= 0 BY <1>0, Numbers DEF Equipped
      <3>8. req'[t].ok /\ client'[req'[t].c].srv = 1 => req[t].ok /\ C(t).srv = 1 /\ req'[t].key = req[t].key /\ req[t].key >= 0
        BY <1>6, <3>7 DEF C
      <3>9. \A c \in Clients : client'[c].restore # NoKey => client'[c].srv = 1 /\
                \E k \in client'[c].refused : client'[c].restore < k /\ k < current
        BY <1>6, <3>1 DEF KeyInv, GivenUp
      <3>10. ASSUME Unstored'
             PROVE  FALSE
        BY <1>1, <2>2, <3>3, <3>10 DEF Unstored, InForce
      <3>11. \A u \in Threads : client'[req[u].c].srv = client[req[u].c].srv BY <1>6
      <3>12. pc'[t] \notin {"restore", "restoring"} /\ pc'[t] # "answered" BY <2>1
      <3>13. req'[t].offer # NoKey => req'[t].offer = InForce BY <1>6, <3>3
      <3>14. QED
        BY <1>0, <1>1, <1>6, <2>1, <3>1, <3>5, <3>6, <3>7, <3>8, <3>9, <3>10, <3>11, <3>12, <3>13, KeysOn
    <2>6. QED BY <2>3, <2>4, <2>5 DEF Ordered
  <1>7. QED BY <1>5, <1>6 DEF Persist

LEMMA SwitchKeys ==
    ASSUME CredInv, NEW t \in Threads, Switch(t)
    PROVE  Ordered
  <1> DEFINE cl == [C(t) EXCEPT !.key = req[t].offer, !.new = req[t].offer, !.old = req[t].key]
             r == [NoReq EXCEPT !.c = req[t].c, !.kind = "confirm", !.key = req[t].offer]
  <1>0. TypeOK /\ Equipped /\ KeyOrder /\ OfferInv /\ (Kept => KeyInv) /\ pc[t] = "switch"
    BY DEF CredInv, SaveBase, Switch, At
  <1>1. UNCHANGED <<file, current, pending, past>> /\ left' = left BY DEF Switch, disk, sys
  <1>2. /\ C(t) \in Client /\ C(t) = client[req[t].c] /\ req[t].key \in Keys /\ req[t].offer \in Keys
        /\ \A u \in Threads : req[u].c \in Clients
    BY <1>0, Fields DEF Equipped, Asking, Adopting
  <1>3. /\ cl \in Client /\ cl.srv = C(t).srv /\ cl.key = req[t].offer /\ cl.new = req[t].offer /\ cl.old = req[t].key
        /\ cl.restore = C(t).restore /\ cl.refused = C(t).refused
    BY <1>2 DEF Client, AnyKey
  <1>4. r.c = req[t].c /\ r.key = req[t].offer /\ ~r.ok /\ r.offer = NoKey BY DEF NoReq
  <1>5. Put(t, cl) /\ Goes(t, "sent") /\ req' = [req EXCEPT ![t] = r] BY DEF Switch
  <1> HIDE DEF cl, r
  <1>6. pc'[t] = "sent" /\ \A u \in Threads : u # t => pc'[u] = pc[u]
    BY <1>0, <1>5, GoesType DEF Places
  <1>7. req'[t] = r /\ \A u \in Threads : u # t => req'[u] = req[u] BY <1>0, <1>5 DEF TypeOK
  <1>8. client'[req[t].c] = cl /\ \A c \in Clients : c # req[t].c => client'[c] = client[c] BY <1>0, <1>3, <1>5, PutType
  <1>9. \A c \in Clients : client'[c].srv = client[c].srv BY <1>2, <1>3, <1>8
  <1>10. req[t].offer # NoKey BY <1>2, Kinds
  <1>11. KeyOrder' BY <1>0, <1>1, OrderOn
  <1>12. OfferInv'
    <2>1. C(t).srv = 1 /\ req[t].key < req[t].offer BY <1>0, <1>10 DEF OfferInv
    <2>2. \A c \in Clients : client'[c].new # NoKey => client'[c].srv = 1 /\ client'[c].old < client'[c].new
      BY <1>0, <1>3, <1>8, <2>1 DEF OfferInv
    <2>3. QED BY <1>0, <1>2, <1>4, <1>7, <1>9, <2>2, OfferOn
  <1>13. ASSUME Kept' PROVE KeyInv'
    <2>1. KeyInv BY <1>0, <1>1, <1>13 DEF Kept
    <2>2. Known' \subseteq Known \cup {Paired, NoKey, pending}
      <3> DEFINE S == Known \cup {Paired, NoKey, pending}
      <3>1. /\ file'.key \in Known /\ req[t].key \in Known /\ req[t].offer \in Known
            /\ C(t).restore \in Known /\ C(t).refused \subseteq Known
        BY <1>0, <1>1, <1>2, KnownHere
      <3>2. Known \subseteq S /\ file'.key \in S /\ req'[t].key \in S /\ req'[t].offer \in S BY <1>4, <1>7, <3>1
      <3>3. cl.key \in S /\ cl.new \in S /\ cl.old \in S /\ cl.restore \in S /\ cl.refused \subseteq S BY <1>3, <3>1
      <3> HIDE DEF S
      <3>4. Known' \subseteq S BY <1>0, <1>7, <1>8, <3>2, <3>3, KnownAfter
      <3>5. QED BY <3>4 DEF S
    <2>3. file'.srv = 1 => file.srv = 1 /\ file'.key \in {current, pending} /\ file'.key = file.key
      BY <1>1, <2>1 DEF KeyInv
    <2>4. \A u \in Threads : req[u].ok => req[u].key >= 0 BY <1>0, Numbers DEF Equipped
    <2>5. \A c \in Clients : client'[c].restore # NoKey => client'[c].srv = 1 /\
              \E k \in client'[c].refused : client'[c].restore < k /\ k < current
      <3>1. \A c \in Clients : client'[c].restore = client[c].restore /\ client'[c].refused = client[c].refused
        BY <1>2, <1>3, <1>8
      <3>2. QED BY <1>9, <2>1, <3>1 DEF KeyInv, GivenUp
    <2>6. Unstored => /\ \A c \in Clients : client'[c].key # pending /\ client'[c].old # pending
                      /\ req'[t].key # pending
      <3>1. SUFFICES ASSUME Unstored
                     PROVE  /\ \A c \in Clients : client'[c].key # pending /\ client'[c].old # pending
                            /\ req'[t].key # pending
        OBVIOUS
      <3>2. Unused BY <2>1, <3>1 DEF KeyInv
      <3>3. req[t].key # pending /\ req[t].offer # pending BY <1>0, <3>2 DEF Unused
      <3>4. \A c \in Clients : client'[c].key # pending /\ client'[c].old # pending
        BY <1>3, <1>8, <3>2, <3>3 DEF Unused
      <3>5. QED BY <1>4, <1>7, <3>3, <3>4
    <2>7. pc'[t] \notin {"restore", "restoring"} /\ pc'[t] # "answered" /\ pc'[t] # "switch" BY <1>6
    <2>8. ~req'[t].ok /\ req'[t].offer = NoKey BY <1>4, <1>7
    <2>9. \A u \in Threads : client'[req[u].c].srv = client[req[u].c].srv BY <1>2, <1>9
    <2>10. QED BY <1>0, <1>1, <1>6, <1>7, <2>1, <2>2, <2>3, <2>4, <2>5, <2>6, <2>7, <2>8, <2>9, KeysOn
  <1>14. QED BY <1>11, <1>12, <1>13 DEF Ordered

LEMMA BeginKeys ==
    ASSUME CredInv, NEW t \in Workers, NEW c \in Clients, NEW kind \in {"handshake", "upload"}, Begin(t, c, kind)
    PROVE  Ordered
  <1> DEFINE r == [NoReq EXCEPT !.c = c, !.kind = kind, !.key = client[c].key]
  <1>0. TypeOK /\ Equipped /\ KeyOrder /\ OfferInv /\ (Kept => KeyInv) /\ t \in Threads
    BY Kinds DEF CredInv, SaveBase
  <1>1. UNCHANGED <<file, current, pending, past, client>> /\ left' = left BY DEF Begin, disk, sys
  <1>2. r.key = client[c].key /\ ~r.ok /\ r.offer = NoKey BY DEF NoReq
  <1>3. Goes(t, "sent") /\ req' = [req EXCEPT ![t] = r] BY DEF Begin
  <1> HIDE DEF r
  <1>4. pc'[t] = "sent" /\ \A u \in Threads : u # t => pc'[u] = pc[u]
    BY <1>0, <1>3, GoesType DEF Places
  <1>5. req'[t] = r /\ \A u \in Threads : u # t => req'[u] = req[u] BY <1>0, <1>3 DEF TypeOK
  <1>6. KeyOrder' BY <1>0, <1>1, OrderOn
  <1>7. OfferInv'
    <2>1. \A d \in Clients : client'[d].new # NoKey => client'[d].srv = 1 /\ client'[d].old < client'[d].new
      BY <1>0, <1>1 DEF OfferInv
    <2>2. QED BY <1>0, <1>1, <1>2, <1>5, <2>1, OfferOn
  <1>8. ASSUME Kept' PROVE KeyInv'
    <2>1. KeyInv BY <1>0, <1>1, <1>8 DEF Kept
    <2>2. Known' \subseteq Known \cup {Paired, NoKey, pending}
      <3> DEFINE S == Known \cup {Paired, NoKey, pending}
      <3>1. file'.key \in Known /\ client[c].key \in Known BY <1>0, <1>1, KnownHere
      <3>2. Known \subseteq S /\ file'.key \in S /\ req'[t].key \in S /\ req'[t].offer \in S BY <1>2, <1>5, <3>1
      <3> HIDE DEF S
      <3>3. Known' \subseteq S BY <1>0, <1>1, <1>5, <3>2, KnownAfter
      <3>4. QED BY <3>3 DEF S
    <2>3. file'.srv = 1 => file.srv = 1 /\ file'.key \in {current, pending} /\ file'.key = file.key
      BY <1>1, <2>1 DEF KeyInv
    <2>4. \A u \in Threads : req[u].ok => req[u].key >= 0 BY <1>0, Numbers DEF Equipped
    <2>5. \A d \in Clients : client'[d].restore # NoKey => client'[d].srv = 1 /\
              \E k \in client'[d].refused : client'[d].restore < k /\ k < current
      BY <1>1, <2>1 DEF KeyInv, GivenUp
    <2>6. Unstored => /\ \A d \in Clients : client'[d].key # pending /\ client'[d].old # pending
                      /\ req'[t].key # pending
      BY <1>1, <1>2, <1>5, <2>1 DEF KeyInv, Unused
    <2>7. pc'[t] \notin {"restore", "restoring"} /\ pc'[t] # "answered" /\ pc'[t] # "switch" BY <1>4
    <2>8. ~req'[t].ok /\ req'[t].offer = NoKey BY <1>2, <1>5
    <2>9. \A u \in Threads : client'[req[u].c].srv = client[req[u].c].srv BY <1>1
    <2>10. QED BY <1>0, <1>1, <1>4, <1>5, <2>1, <2>2, <2>3, <2>4, <2>5, <2>6, <2>7, <2>8, <2>9, KeysOn
  <1>9. QED BY <1>6, <1>7, <1>8 DEF Ordered

(* A step of the server, or elsewhere, and one of a thread that asks nothing. *)
LEMMA StillKeys ==
    ASSUME CredInv, UNCHANGED <<client, pc, req, current, pending>>, past \subseteq past', left'.rotations = left.rotations,
           file'.key \in {file.key, Paired}, file'.srv = 1 => file.srv = 1 /\ file'.key = file.key
    PROVE  Ordered
  <1>1. Link \in Threads BY Kinds
  <1>2. KeyInv => pc'[Link] \notin {"restore", "restoring"} BY <1>1 DEF KeyInv, Told
  <1>3. QED BY <1>1, <1>2, QuietKeys

LEMMA GoKeys ==
    ASSUME CredInv, NEW t \in Threads, UNCHANGED <<client, req, current, pending>>, past \subseteq past',
           left'.rotations = left.rotations, file'.key \in {file.key, Paired},
           file'.srv = 1 => file.srv = 1 /\ file'.key = file.key,
           \A u \in Threads : u # t => pc'[u] = pc[u],
           pc'[t] \notin {"answered", "switch", "restore", "restoring"}
    PROVE  Ordered
  BY QuietKeys

LEMMA DoneKeys ==
    ASSUME CredInv, NEW t \in Menus, DoneAfter(t), UNCHANGED <<client, current, pending>>, past' = past,
           left'.rotations = left.rotations, file'.key = file.key, file'.srv = file.srv
    PROVE  Ordered
  <1>1. t \in Threads BY Kinds
  <1>2. pc'[t] \notin {"answered", "switch", "restore", "restoring"} BY DEF DoneAfter
  <1>3. QED BY <1>1, <1>2, QuietKeys DEF DoneAfter

LEMMA WantKeys ==
    ASSUME CredInv, NEW t \in Savers, NEW kind, NEW opt, Want(t, kind, opt)
    PROVE  Ordered
  <1>0. TypeOK /\ t \in Threads BY Kinds DEF CredInv, SaveBase
  <1>1. Goes(t, "lock") /\ UNCHANGED <<file, client, req, current, pending>> /\ past \subseteq past' BY DEF Want, disk
  <1>2. left'.rotations = left.rotations BY <1>0, FaultType DEF TypeOK, Want
  <1>3. pc'[t] = "lock" /\ \A u \in Threads : u # t => pc'[u] = pc[u]
    BY <1>0, <1>1, GoesType DEF Places
  <1>4. QED BY <1>0, <1>1, <1>2, <1>3, GoKeys

LEMMA ValidateKeys ==
    ASSUME CredInv, NEW t \in Menus, Validate(t)
    PROVE  Ordered
  <1>0. TypeOK /\ t \in Threads BY Kinds DEF CredInv, SaveBase
  <1>1. UNCHANGED <<file, client, current, pending, past>> /\ left' = left BY DEF Validate, disk, sys
  <1>2. CASE Goes(t, IF job[t].kind = "reload" THEN "load" ELSE "patch") /\ UNCHANGED <<req, job>>
    <2>1. pc'[t] \in {"load", "patch"} /\ \A u \in Threads : u # t => pc'[u] = pc[u]
      BY <1>0, <1>2, GoesType DEF Places
    <2>2. pc'[t] \notin {"answered", "switch", "restore", "restoring"} BY <2>1
    <2>3. QED BY <1>0, <1>1, <1>2, <2>1, <2>2, GoKeys
  <1>3. CASE Done(t) BY <1>0, <1>1, <1>3, DoneType, DoneKeys
  <1>4. QED BY <1>2, <1>3 DEF Validate

LEMMA PatchKeys ==
    ASSUME CredInv, NEW t \in Menus, Patch(t)
    PROVE  Ordered
  <1>0. TypeOK /\ Equipped /\ t \in Threads /\ pc[t] = "patching" /\ snap[t] = file
    BY Kinds DEF CredInv, SaveBase, Patch, At, Locked, Writing
  <1> DEFINE f == IF job[t].kind = "pair" THEN PairedWith(snap[t]) ELSE [snap[t] EXCEPT !.opt = job[t].opt]
  <1>1. /\ UNCHANGED <<client, current, pending, past>>
        /\ \/ Rewritten(t, f) /\ Goes(t, "load") /\ UNCHANGED <<saveMu, req, job>>
           \/ NotWritten(t) /\ Done(t)
    BY DEF Patch, sys
  <1>2. f.key \in {Paired, file.key} /\ (f.srv = 1 => f.key = file.key /\ file.srv = 1) BY <1>0, PatchedType
  <1> HIDE DEF f
  <1>3. CASE Rewritten(t, f) /\ Goes(t, "load") /\ UNCHANGED <<saveMu, req, job>>
    <2>1. pc'[t] = "load" /\ \A u \in Threads : u # t => pc'[u] = pc[u]
      BY <1>0, <1>3, GoesType DEF Places
    <2>2. file' = f /\ left' = left BY <1>3 DEF Rewritten, NoFault
    <2>3. QED BY <1>0, <1>1, <1>2, <1>3, <2>1, <2>2, GoKeys
  <1>4. CASE NotWritten(t) /\ Done(t)
    <2>1. left'.rotations = left.rotations BY <1>0, <1>4, FaultType DEF NotWritten, NoFault, TypeOK
    <2>2. file' = file BY <1>4 DEF NotWritten
    <2>3. QED BY <1>0, <1>1, <1>4, <2>1, <2>2, DoneType, DoneKeys
  <1>5. QED BY <1>1, <1>3, <1>4

LEMMA InstallKeys ==
    ASSUME CredInv, NEW t \in Menus, InstallEngine(t) \/ InstallDrainer(t)
    PROVE  Ordered
  <1>0. TypeOK /\ t \in Threads BY Kinds DEF CredInv, SaveBase
  <1>1. CASE InstallEngine(t)
    <2>1. Goes(t, "drainer") /\ UNCHANGED <<file, client, req, current, pending, past>> /\ left' = left
      BY <1>1 DEF InstallEngine, disk, sys
    <2>2. pc'[t] = "drainer" /\ \A u \in Threads : u # t => pc'[u] = pc[u]
      BY <1>0, <2>1, GoesType DEF Places
    <2>3. QED BY <1>0, <2>1, <2>2, GoKeys
  <1>2. CASE InstallDrainer(t)
    <2>1. Done(t) /\ UNCHANGED <<file, client, current, pending, past>> /\ left' = left
      BY <1>2 DEF InstallDrainer, disk, sys
    <2>2. QED BY <1>0, <2>1, DoneType, DoneKeys
  <1>3. QED BY <1>1, <1>2

LEMMA LinkKeys ==
    ASSUME CredInv, SubmitLink \/ TakeLink \/ ConfirmLink
    PROVE  Ordered
  <1>0. TypeOK /\ Link \in Threads BY Kinds DEF CredInv, SaveBase
  <1>1. CASE SubmitLink
    <2>1. /\ UNCHANGED <<file, client, req, current, pending>> /\ past \subseteq past' /\ left'.rotations = left.rotations
          /\ pc' = pc \/ pc' = [pc EXCEPT ![Link] = "take"]
      BY <1>1, SubmitLinkBase DEF SubmitLink, disk, CredInv
    <2>2. CASE pc' = pc BY <2>1, <2>2, StillKeys
    <2>3. CASE pc' = [pc EXCEPT ![Link] = "take"]
      <3>1. pc'[Link] = "take" /\ \A u \in Threads : u # Link => pc'[u] = pc[u] BY <1>0, <2>3 DEF TypeOK
      <3>2. QED BY <1>0, <2>1, <3>1, GoKeys
    <2>4. QED BY <2>1, <2>2, <2>3
  <1>2. CASE TakeLink \/ ConfirmLink
    <2>1. UNCHANGED <<file, client, req, current, pending, past>> /\ left' = left
      BY <1>2 DEF TakeLink, ConfirmLink, disk, sys
    <2>2. PICK place \in {"dialog", "off", "lock", "take"} : Goes(Link, place) BY <1>2 DEF TakeLink, ConfirmLink
    <2>3. pc'[Link] = place /\ \A u \in Threads : u # Link => pc'[u] = pc[u]
      BY <1>0, <2>2, GoesType DEF Places
    <2>4. pc'[Link] \notin {"answered", "switch", "restore", "restoring"} BY <2>3
    <2>5. QED BY <1>0, <2>1, <2>3, <2>4, GoKeys
  <1>3. QED BY <1>1, <1>2

LEMMA ElsewhereKeys ==
    ASSUME CredInv, PairCommand \/ \E opt \in Opts, bad \in Flaws : HandEdit(opt, bad)
    PROVE  Ordered
  <1>0. TypeOK BY DEF CredInv, SaveBase
  <1>1. CASE PairCommand
    <2>1. UNCHANGED <<client, pc, req, current, pending>> /\ past \subseteq past' /\ file' = PairedWith(file)
      BY <1>1 DEF PairCommand, Elsewhere
    <2>2. left'.rotations = left.rotations BY <1>1, PairCommandSave DEF CredInv
    <2>3. file'.key = Paired /\ file'.srv = 2 BY <1>0, <2>1, PairedType
    <2>4. QED BY <2>1, <2>2, <2>3, StillKeys
  <1>2. ASSUME NEW opt \in Opts, NEW bad \in Flaws, HandEdit(opt, bad) PROVE Ordered
    <2>1. UNCHANGED <<client, pc, req, current, pending, past>> /\ file' = [file EXCEPT !.opt = opt, !.bad = bad]
      BY <1>2 DEF HandEdit, Elsewhere
    <2>2. left'.rotations = left.rotations BY <1>2, HandEditSave DEF CredInv
    <2>3. file'.key = file.key /\ file'.srv = file.srv BY <1>0, <2>1, HandEditType
    <2>4. QED BY <2>1, <2>2, <2>3, StillKeys
  <1>3. QED BY <1>1, <1>2

LEMMA LoadKeys ==
    ASSUME CredInv, NEW t \in Menus, Load(t)
    PROVE  Ordered
  <1>0. TypeOK /\ Equipped /\ KeyOrder /\ OfferInv /\ (Kept => KeyInv) /\ t \in Threads
    BY Kinds DEF CredInv, SaveBase
  <1>1. UNCHANGED <<file, current, pending, past>> /\ left' = left BY DEF Load, disk, sys
  <1>2. CASE Done(t) /\ UNCHANGED client BY <1>0, <1>1, <1>2, DoneType, DoneKeys
  <1>3. CASE Connect(t, file)
    <2>1. PICK c \in Clients : ConnectAfter(t, c) BY <1>0, <1>3, ConnectType
    <2>2. /\ client'[c] = Fresh(file) /\ (\A d \in Clients : d # c => client'[d] = client[d]) /\ c \notin InUse
          /\ pc'[t] = "sent" /\ req'[t].c = c /\ req'[t].key = file.key /\ ~req'[t].ok /\ req'[t].offer = NoKey
          /\ \A u \in Threads : u # t => pc'[u] = pc[u] /\ req'[u] = req[u]
      BY <2>1 DEF ConnectAfter
    <2>3. /\ Fresh(file).srv = file.srv /\ Fresh(file).key = file.key /\ Fresh(file).new = NoKey
          /\ Fresh(file).old = NoKey /\ Fresh(file).restore = NoKey /\ Fresh(file).refused = {}
      BY <1>0, FreshType DEF TypeOK
    <2>4. ASSUME NEW u \in Threads, req[u].ok \/ pc[u] = "answered"
          PROVE  client'[req[u].c].srv = client[req[u].c].srv
      <3>1. pc[u] # "off" BY <1>0, <2>4 DEF Equipped, Asking
      <3>2. req[u].c \in InUse BY <3>1 DEF InUse
      <3>3. req[u].c \in Clients BY <1>0, Fields
      <3>4. QED BY <2>2, <3>2, <3>3
    <2>5. KeyOrder' BY <1>0, <1>1, OrderOn
    <2>6. OfferInv'
      <3>1. \A d \in Clients : client'[d].new # NoKey => client'[d].srv = 1 /\ client'[d].old < client'[d].new
        BY <1>0, <2>2, <2>3 DEF OfferInv
      <3>2. \A u \in Threads : req[u].offer # NoKey => req[u].ok BY <1>0 DEF OfferInv
      <3>3. QED BY <1>0, <2>2, <2>4, <3>1, <3>2, OfferOn
    <2>7. ASSUME Kept' PROVE KeyInv'
      <3>1. KeyInv BY <1>0, <1>1, <2>7 DEF Kept
      <3>2. Known' \subseteq Known \cup {Paired, NoKey, pending}
        <4> DEFINE S == Known \cup {Paired, NoKey, pending}
        <4>1. file.key \in Known BY <1>0, KnownHere
        <4>2. Known \subseteq S /\ file'.key \in S /\ req'[t].key \in S /\ req'[t].offer \in S BY <1>1, <2>2, <4>1
        <4>3. /\ client'[c].key \in S /\ client'[c].new \in S /\ client'[c].old \in S
              /\ client'[c].restore \in S /\ client'[c].refused \subseteq S
          BY <2>2, <2>3, <4>1
        <4> HIDE DEF S
        <4>4. Known' \subseteq S BY <1>0, <2>2, <4>2, <4>3, KnownAfter
        <4>5. QED BY <4>4 DEF S
      <3>3. file'.srv = 1 => file.srv = 1 /\ file'.key \in {current, pending} /\ file'.key = file.key
        BY <1>1, <3>1 DEF KeyInv
      <3>4. \A u \in Threads : req[u].ok => req[u].key >= 0 BY <1>0, Numbers DEF Equipped
      <3>5. \A d \in Clients : client'[d].restore # NoKey => client'[d].srv = 1 /\
                \E k \in client'[d].refused : client'[d].restore < k /\ k < current
        BY <2>2, <2>3, <3>1 DEF KeyInv, GivenUp
      <3>6. Unstored => /\ \A d \in Clients : client'[d].key # pending /\ client'[d].old # pending
                        /\ req'[t].key # pending
        <4>1. SUFFICES ASSUME Unstored
                       PROVE  /\ \A d \in Clients : client'[d].key # pending /\ client'[d].old # pending
                              /\ req'[t].key # pending
          OBVIOUS
        <4>2. Unused /\ file.key # pending /\ pending # NoKey BY <3>1, <4>1 DEF KeyInv, Unstored
        <4>3. QED BY <2>2, <2>3, <4>2 DEF Unused
      <3>7. pc'[t] \notin {"restore", "restoring"} /\ pc'[t] # "answered" /\ pc'[t] # "switch" BY <2>2
      <3>8. QED BY <1>0, <1>1, <2>2, <2>4, <3>1, <3>2, <3>3, <3>4, <3>5, <3>6, <3>7, KeysOn
    <2>8. QED BY <2>5, <2>6, <2>7 DEF Ordered
  <1>4. QED BY <1>2, <1>3 DEF Load

(* A rotation, when nothing is being adopted: every key so far is an older one. *)
LEMMA RotateKeys ==
    ASSUME CredInv, Rotate
    PROVE  Ordered
  <1>0. TypeOK /\ Equipped /\ KeyOrder /\ OfferInv /\ (Kept => KeyInv) BY DEF CredInv, SaveBase
  <1>1. left.rotations > 0 /\ left'.rotations = left.rotations - 1 /\ pending' = 1 + MaxRotations - left'.rotations
    BY RotateBase DEF CredInv
  <1>2. UNCHANGED <<file, client, pc, req, current>> BY DEF Rotate, disk
  <1>3. left.rotations \in Int /\ MaxRotations \in Int BY <1>0, Kinds DEF TypeOK
  <1>4. current \in Int /\ current < pending' /\ NoKey < current
    <2>1. current \in Int /\ current >= 0 /\ NoKey = -1 BY <1>0, Numbers
    <2>2. QED BY <1>0, <1>1, <1>3, <2>1 DEF KeyOrder
  <1>5. KeyOrder' BY <1>0, <1>1, <1>2, <1>3, <1>4 DEF KeyOrder
  <1>6. OfferInv' BY <1>0, <1>2 DEF OfferInv, C
  <1>7. ASSUME Kept' PROVE KeyInv'
    <2>1. past' = past \cup (IF pending = NoKey THEN {} ELSE {"withdrawn"})
                       \cup (IF \E t \in Threads : Unsettled(t) THEN {"overtaken"} ELSE {})
      BY DEF Rotate
    <2>2. pending = NoKey /\ (\A t \in Threads : ~Unsettled(t)) /\ Kept BY <1>7, <2>1 DEF Kept
    <2>3. KeyInv BY <1>0, <2>2
    <2>4. ASSUME NEW k \in Known PROVE k <= current /\ k # pending'
      <3>1. k \in Int BY <1>0, KnownInt
      <3>2. k <= current \/ k = NoKey BY <2>2, <2>3 DEF KeyInv
      <3>3. QED BY <1>1, <1>3, <1>4, <3>1, <3>2, <1>0, Numbers
    <2>5. \A k \in Known' : k <= current' \/ k = pending'
      <3>1. Known' = Known BY <1>2 DEF Known, HasSeen, Carries
      <3>2. QED BY <1>2, <2>4, <3>1
    <2>6. file'.srv = 1 => file'.key \in {current', pending'}
      <3>1. file.key # NoKey BY <1>0, Kinds DEF TypeOK
      <3>2. QED BY <1>2, <2>2, <2>3, <3>1 DEF KeyInv
    <2>7. ASSUME NEW t \in Threads PROVE Told(t)'
      <3>1. Told(t) /\ ~Unsettled(t) BY <2>2, <2>3 DEF KeyInv
      <3>2. req[t].offer = NoKey BY <1>0, <3>1 DEF OfferInv, Unsettled
      <3>3. req[t].ok /\ C(t).srv = 1 => req[t].key = current BY <3>1 DEF Unsettled
      <3>4. QED BY <1>2, <3>1, <3>2, <3>3 DEF Told, C
    <2>8. \A c \in Clients : GivenUp(c)' BY <1>2, <2>3 DEF KeyInv, GivenUp
    <2>9. Unused'
      <3>1. /\ \A c \in Clients : client[c].key \in Known /\ client[c].old \in Known
            /\ \A t \in Threads : req[t].key \in Known /\ req[t].offer \in Known
        BY <1>0, KnownHere
      <3>2. QED BY <1>2, <2>4, <3>1 DEF Unused
    <2>10. QED BY <2>5, <2>6, <2>7, <2>8, <2>9 DEF KeyInv
  <1>8. QED BY <1>5, <1>6, <1>7 DEF Ordered

LEMMA CancelKeys ==
    ASSUME CredInv, Cancel
    PROVE  Ordered
  <1>0. KeyOrder /\ OfferInv /\ left'.rotations = left.rotations BY CancelBase DEF CredInv
  <1>1. UNCHANGED <<client, req, current>> /\ pending' = NoKey /\ "withdrawn" \in past' BY DEF Cancel
  <1>2. KeyOrder' BY <1>0, <1>1 DEF KeyOrder
  <1>3. OfferInv' BY <1>0, <1>1 DEF OfferInv, C
  <1>4. ~Kept' BY <1>1 DEF Kept
  <1>5. QED BY <1>2, <1>3, <1>4 DEF Ordered

(* A start: nothing is known but the stored key. *)
LEMMA CrashKeys ==
    ASSUME CredInv, Crash
    PROVE  Ordered
  <1>0. TypeOK /\ KeyOrder /\ (Kept => KeyInv) BY DEF CredInv, SaveBase
  <1>1. UNCHANGED <<file, current, pending>> /\ past \subseteq past' /\ left'.rotations = left.rotations
    BY CrashBase DEF Crash, CredInv
  <1>2. /\ client' = [c \in Clients |-> Fresh(file)]
        /\ pc' = [t \in Threads |-> "off"] /\ req' = [t \in Threads |-> NoReq]
    BY DEF Crash, Boot
  <1>3. \A c \in Clients : /\ client'[c].key = file.key /\ client'[c].new = NoKey /\ client'[c].old = NoKey
                           /\ client'[c].restore = NoKey /\ client'[c].refused = {}
    BY <1>0, <1>2, FreshType DEF TypeOK
  <1>4. \A t \in Threads : pc'[t] = "off" /\ ~req'[t].ok /\ req'[t].offer = NoKey /\ req'[t].key = NoKey
    BY <1>2, Blank
  <1>5. KeyOrder' BY <1>0, <1>1, OrderOn
  <1>6. OfferInv' BY <1>3, <1>4 DEF OfferInv
  <1>7. ASSUME Kept' PROVE KeyInv'
    <2>1. KeyInv BY <1>0, <1>1, <1>7 DEF Kept
    <2>2. Known' \subseteq {file.key, NoKey}
      <3> DEFINE S == {file.key, NoKey}
      <3>1. file'.key \in S /\ file.key \in S /\ NoKey \in S BY <1>1
      <3> HIDE DEF S
      <3>2. Known' \subseteq S BY <1>3, <1>4, <3>1, KnownFrom
      <3>3. QED BY <3>2 DEF S
    <2>3. file.key \in Known /\ current \in Int /\ NoKey <= current BY <1>0, KnownHere, Numbers
    <2>4. \A k \in Known' : k <= current' \/ k = pending' BY <1>1, <2>1, <2>2, <2>3 DEF KeyInv
    <2>5. \A t \in Threads : Told(t)' BY <1>4 DEF Told
    <2>6. \A c \in Clients : GivenUp(c)' BY <1>3 DEF GivenUp
    <2>7. Unstored' => Unused' BY <1>1, <1>3, <1>4 DEF Unstored, Unused
    <2>8. QED BY <1>1, <2>1, <2>4, <2>5, <2>6, <2>7 DEF KeyInv
  <1>8. QED BY <1>5, <1>6, <1>7 DEF Ordered

LEMMA InitKeys == Init => CredInv
  <1>1. SUFFICES ASSUME Init PROVE CredInv OBVIOUS
  <1>2. SaveBase /\ TypeOK BY <1>1, InitSave DEF SaveBase
  <1>3. /\ file.key = 1 /\ current = 1 /\ pending = NoKey
        /\ client = [c \in Clients |-> Fresh(file)]
        /\ pc = [t \in Threads |-> "off"] /\ req = [t \in Threads |-> NoReq]
    BY <1>1 DEF Init
  <1>4. \A c \in Clients : /\ client[c].key = 1 /\ client[c].new = NoKey /\ client[c].old = NoKey
                           /\ client[c].restore = NoKey /\ client[c].refused = {}
    BY <1>2, <1>3, FreshType DEF TypeOK
  <1>5. \A t \in Threads : pc[t] = "off" /\ ~req[t].ok /\ req[t].offer = NoKey /\ req[t].key = NoKey
    BY <1>3, Blank
  <1>6. KeyOrder
    <2>1. left.rotations \in 0..MaxRotations /\ MaxRotations \in Int BY <1>2, Kinds DEF TypeOK
    <2>2. QED BY <1>3, <2>1 DEF KeyOrder
  <1>7. OfferInv BY <1>4, <1>5 DEF OfferInv
  <1>8. KeyInv
    <2>1. Known \subseteq {1, NoKey} BY <1>3, <1>4, <1>5 DEF Known, HasSeen, Carries
    <2>2. \A k \in Known : k <= current \/ k = pending BY <1>3, <2>1
    <2>3. \A t \in Threads : Told(t) BY <1>5 DEF Told
    <2>4. \A c \in Clients : GivenUp(c) BY <1>4 DEF GivenUp
    <2>5. ~Unstored BY <1>3 DEF Unstored
    <2>6. QED BY <1>3, <2>2, <2>3, <2>4, <2>5 DEF KeyInv
  <1>9. QED BY <1>2, <1>6, <1>7, <1>8 DEF CredInv

(* Every step keeps the keys in order. *)
LEMMA KeyStep == CredInv /\ [Next]_vars => CredInv'
  <1>1. SUFFICES ASSUME CredInv, [Next]_vars PROVE CredInv' OBVIOUS
  <1>2. SaveBase' BY <1>1, SaveStep DEF CredInv
  <1>3. SUFFICES Ordered BY <1>2, <1>3 DEF CredInv, Ordered
  <1>4. CASE UNCHANGED vars
    <2>1. UNCHANGED <<file, client, pc, req, current, pending, past, left>> BY <1>4 DEF vars, disk, sys
    <2>2. QED BY <1>1, <2>1, StillKeys
  <1>5. CASE Rotate BY <1>1, <1>5, RotateKeys
  <1>6. CASE Cancel BY <1>1, <1>6, CancelKeys
  <1>7. ASSUME NEW t \in Workers, NEW c \in Clients, NEW kind \in {"handshake", "upload"}, Begin(t, c, kind)
        PROVE  Ordered
    BY <1>1, <1>7, BeginKeys
  <1>8. ASSUME NEW t \in Savers, WantReload(t) \/ WantPair(t) \/ \E opt \in Values : WantSet(t, opt)
        PROVE  Ordered
    BY <1>1, <1>8, WantKeys DEF WantReload, WantPair, WantSet
  <1>9. CASE PairCommand \/ \E opt \in Opts, bad \in Flaws : HandEdit(opt, bad) BY <1>1, <1>9, ElsewhereKeys
  <1>10. CASE DeepLinkCommand BY <1>1, <1>10, LinkKeys, ElsewhereKeys DEF DeepLinkCommand
  <1>11. ASSUME NEW t \in Threads, Step(t)
         PROVE  Ordered
    BY <1>1, <1>11, SendKeys, ObserveKeys, ReadKeys, RestoreKeys, AdoptKeys, PersistKeys, SwitchKeys,
       ValidateKeys, PatchKeys, LoadKeys, InstallKeys DEF Step
  <1>12. CASE TakeLink \/ ConfirmLink BY <1>1, <1>12, LinkKeys
  <1>13. CASE Crash BY <1>1, <1>13, CrashKeys
  <1>14. QED BY <1>1, <1>4, <1>5, <1>6, <1>7, <1>8, <1>9, <1>10, <1>11, <1>12, <1>13 DEF Next

(***************************************************************************)
(* Every reachable state has its keys in order: whatever is known anywhere *)
(* was handed out before, and what was refused never comes back to life.   *)
(***************************************************************************)
THEOREM CredentialsCorrect == Spec => []CredInv
  BY InitKeys, KeyStep, PTL DEF Spec

(***************************************************************************)
(* The stored key is one that the stored server accepts, at every instant  *)
(* and so after any crash, unless the server took a key back or rotated    *)
(* once more while an earlier key was being adopted (adoptRotation stores  *)
(* a key before its first use, SetRotatedAPIKey and Patch take turns).     *)
(***************************************************************************)
THEOREM StoredKeySafety == Spec => []StoredKeyLives
  <1>1. CredInv => StoredKeyLives BY DEF CredInv, Kept, KeyInv, StoredKeyLives, Accepts
  <1>2. QED BY <1>1, CredentialsCorrect, PTL
=============================================================================
