----------------------------- MODULE ClientProofs -----------------------------
(***************************************************************************)
(* Proofs about two users of the cluster's API that others work beside:    *)
(* the dashboard's requests (Catalog), for any number of requests,         *)
(* databases, variables and sizes, and the doctors (Doctor), for any       *)
(* number of doctors, batches and outages.                                 *)
(***************************************************************************)
EXTENDS Catalog, Doctor, TLAPS

(***************************************************************************)
(* The dashboard's requests: the inductive invariant.                      *)
(***************************************************************************)

\* What a request checked before it wrote: the holder of the lock that its name
\* is free of other kinds, an edit that it changes the source or grows the storage.
Checked(r) ==
    /\ req[r].op = "create" /\ req[r].pc = "create" => ~ConflictingKind(req[r].key)
    /\ req[r].op = "edit a" /\ req[r].key = App => req[r].arg # req[r].read.a
    /\ req[r].op = "edit a" /\ req[r].key \in Databases => req[r].arg >= req[r].read.a

IInv ==
    /\ NamesSound /\ SourceQueued /\ NoHalfConnect
    /\ \A r \in Requests : Checked(r)

(***************************************************************************)
(* Keys, uids and the next step of a request.                              *)
(***************************************************************************)

Named == {App} \cup Databases

LEMMA KeyFacts ==
    /\ App \in Keys /\ Store \in Keys /\ Sync \in Keys /\ Named \subseteq Keys
    /\ App \notin Databases /\ Store \notin Named /\ Sync \notin Named /\ Store # Sync
    /\ \A k \in Databases : k.name \in SecretNames /\ k.kind \in DatabaseKinds
    /\ \A j, k \in Named : j.kind = k.kind /\ j.name = k.name => j = k
<1>1. /\ App \in Keys /\ Store \in Keys /\ Sync \in Keys /\ Named \subseteq Keys
  BY Zenon DEF Keys, Named
<1>2. \A k \in Databases : /\ k.kind \in DatabaseKinds /\ k.name \in DatabaseNames
                           /\ k = [kind |-> k.kind, name |-> k.name]
  BY DEF Databases, Object
<1>3. /\ App = [kind |-> "App", name |-> "x"] /\ App.kind = "App"
      /\ Store = [kind |-> "SecretStore", name |-> "x"] /\ Store.kind = "SecretStore"
      /\ Sync = [kind |-> "ExternalSecret", name |-> "x"] /\ Sync.kind = "ExternalSecret"
  BY Zenon DEF App, Store, Sync, Object
<1>4. /\ App \notin Databases /\ Store \notin Named /\ Sync \notin Named /\ Store # Sync
  BY <1>2, <1>3, Zenon DEF Named, DatabaseKinds
<1>5. \A k \in Databases : k.name \in SecretNames /\ k.kind \in DatabaseKinds
  BY <1>2, CatalogConstants, Zenon
<1>6. \A k \in Named : k = [kind |-> k.kind, name |-> k.name]
  BY <1>2, <1>3 DEF Named
<1> QED
  BY <1>1, <1>4, <1>5, <1>6, Zenon

\* While some uid is unused there is a fresh one.
LEMMA FreshIsUid ==
    ASSUME UnusedUids # {}
    PROVE  FreshUid \in UnusedUids /\ FreshUid \in Uids
  BY Zenon DEF FreshUid, UnusedUids

\* The step of r leaves the other requests alone.
Alone(r) == DOMAIN req' = Requests /\ \A q \in Requests \ {r} : req'[q] = req[q]

LEMMA GotoRequest ==
    ASSUME TypeOK, NEW r \in Requests, NEW op, NEW pc, NEW k, NEW read, NEW a, Goto(r, op, pc, k, read, a)
    PROVE  /\ Alone(r) /\ DOMAIN req'[r] = {"op", "pc", "key", "read", "arg"}
           /\ req'[r].op = op /\ req'[r].pc = pc /\ req'[r].key = k /\ req'[r].read = read /\ req'[r].arg = a
  BY Zenon DEF Goto, Alone, TypeOK

LEMMA StepRequest ==
    ASSUME TypeOK, NEW r \in Requests, NEW pc, Step(r, pc)
    PROVE  /\ Alone(r) /\ DOMAIN req'[r] = {"op", "pc", "key", "read", "arg"}
           /\ req'[r].op = req[r].op /\ req'[r].pc = pc /\ req'[r].key = req[r].key
           /\ req'[r].read = req[r].read /\ req'[r].arg = req[r].arg
  BY Zenon DEF Step, Alone, TypeOK, ReqTyped

LEMMA DoneRequest ==
    ASSUME TypeOK, NEW r \in Requests, Done(r)
    PROVE  Alone(r) /\ req'[r] = Idle /\ ReqTyped(r)'
  BY Zenon DEF Done, Alone, TypeOK, ReqTyped, Idle

\* What the type says of a request, by the operation it is about.
LEMMA RequestTypes ==
    ASSUME TypeOK, NEW r \in Requests
    PROVE  /\ req[r].op \in {"idle", "create", "edit a", "edit b", "env", "connect", "rotate", "sync"}
           /\ req[r].op = "idle" => req[r].pc = "idle" /\ req[r].read = None
           /\ req[r].op = "create" => /\ req[r].read = None /\ req[r].key \in Named
                                      /\ req[r].pc \in {"create", "enqueue"}
                                      /\ req[r].pc = "enqueue" => req[r].key = App
           /\ req[r].op = "edit a" => /\ req[r].arg \in Nat /\ req[r].key \in Named
                                      /\ req[r].read \in Objects(req[r].key)
                                      /\ req[r].pc \in {"update", "enqueue"}
                                      /\ req[r].pc = "enqueue" => req[r].key = App
           /\ req[r].op = "edit b" => /\ req[r].arg \in FieldB(req[r].key) /\ req[r].key \in Named
                                      /\ req[r].read \in Objects(req[r].key) /\ req[r].pc = "update"
           /\ req[r].op = "env" => /\ req[r].pc \in {"secret", "spec"} /\ req[r].key = App
                                   /\ req[r].arg \in EnvSets /\ req[r].read \in Objects(App)
           /\ req[r].op = "connect" => /\ req[r].key = Store
                                       /\ \/ req[r].pc = "store" /\ req[r].read = None
                                          \/ req[r].pc \in {"token", "rollback"} /\ req[r].read \in [uid : Uids]
           /\ req[r].op = "rotate" => /\ req[r].pc \in {"store", "token"} /\ req[r].key = Store
                                      /\ req[r].read \in Objects(Store)
           /\ req[r].op = "sync" => req[r].pc = "create" /\ req[r].read = None
<1>1. ReqTyped(r)
  BY Zenon DEF TypeOK
<1>2. req[r] = Idle => req[r].op = "idle" /\ req[r].pc = "idle" /\ req[r].read = None
  BY DEF Idle
<1> QED
  BY <1>1, <1>2, Zenon DEF ReqTyped, Named

(***************************************************************************)
(* The first step of each kind of request.                                 *)
(***************************************************************************)

\* The check of a create: a refusal, or the lock.
StartCreate(r) ==
    \E k \in Named :
       /\ req[r].op = "idle" /\ UNCHANGED <<objs, secrets, failed, queued, tokened>>
       /\ \/ Done(r) /\ UNCHANGED nameMu
          \/ ~ConflictingKind(k) /\ nameMu = None /\ nameMu' = r /\ Goto(r, "create", "create", k, None, None)

\* The read of an edit, and what it checks.
StartEdit(r) ==
    \E k \in Named : \E op, a :
       /\ req[r].op = "idle" /\ UNCHANGED <<objs, secrets, nameMu, failed, queued, tokened>>
       /\ Exists(k) /\ Goto(r, op, "update", k, objs[k], a)
       /\ \/ op = "edit a" /\ a \in Nat /\ (k = App => a # objs[k].a) /\ (k \in Databases => a >= objs[k].a)
          \/ op = "edit b" /\ a \in FieldB(k)

StartOther(r) == SetEnvRead(r) \/ ConnectCheck(r) \/ RotateRead(r) \/ SyncCheck(r)

Deletes(r) ==
    \E k \in Keys : /\ Exists(k) /\ objs' = [objs EXCEPT ![k] = None]
                    /\ UNCHANGED <<secrets, req, nameMu, failed, queued, tokened>>

LEMMA CreatesStart ==
    ASSUME NEW r \in Requests, CreateApp(r) \/ CreatePostgres(r) \/ CreateMongo(r)
    PROVE  StartCreate(r)
<1>1. CASE CreateApp(r)
  BY <1>1, Zenon DEF CreateApp, CheckName, StartCreate, Start, Answer, TakeNameMu, Named
<1>2. CASE CreatePostgres(r) \/ CreateMongo(r)
  <2>1. PICK k \in Databases : CheckName(r, k, EsoClaims(k.name))
    BY <1>2, Zenon DEF CreatePostgres, CreateMongo, DatabasesOf
  <2> QED
    BY <2>1, Zenon DEF CheckName, StartCreate, Start, Answer, TakeNameMu, Named
<1> QED
  BY <1>1, <1>2, Zenon

LEMMA EditsStart ==
    ASSUME NEW r \in Requests,
           \/ UpdateApp(r) \/ UpdateAppSource(r) \/ UpdatePostgres(r) \/ UpdatePgweb(r)
           \/ UpdateMongo(r) \/ UpdateMongoExpress(r)
    PROVE  StartEdit(r)
<1>1. CASE UpdateApp(r)
  <2>1. PICK n \in EnvNames : Exists(App) /\ Read(r, "edit b", App, [Plain EXCEPT ![n] = "plain"])
    BY <1>1, Zenon DEF UpdateApp
  <2>2. [Plain EXCEPT ![n] = "plain"] \in FieldB(App)
    BY Zenon DEF Plain, FieldB
  <2> QED
    BY <2>1, <2>2, Zenon DEF Read, Start, StartEdit, Named
<1>2. CASE UpdateAppSource(r)
  <2>1. PICK s \in {0, 1} : Exists(App) /\ s # objs[App].a /\ Read(r, "edit a", App, s)
    BY <1>2, Zenon DEF UpdateAppSource
  <2>2. s \in Nat /\ App \in Named /\ App \notin Databases
    BY KeyFacts DEF Named
  <2> QED
    BY <2>1, <2>2, Zenon DEF Read, Start, StartEdit
<1>3. CASE UpdatePostgres(r) \/ UpdateMongo(r)
  <2>1. PICK k \in Databases : Resize(r, k)
    BY <1>3, Zenon DEF UpdatePostgres, UpdateMongo, DatabasesOf
  <2>2. PICK s \in Sizes : Exists(k) /\ s >= objs[k].a /\ Read(r, "edit a", k, s)
    BY <2>1, Zenon DEF Resize
  <2>3. s \in Nat /\ k # App /\ k \in Named
    BY CatalogConstants, KeyFacts, Zenon DEF Named
  <2> QED
    BY <2>2, <2>3, Zenon DEF Read, Start, StartEdit
<1>4. CASE UpdatePgweb(r) \/ UpdateMongoExpress(r)
  <2>1. PICK k \in Databases : Toggle(r, k)
    BY <1>4, Zenon DEF UpdatePgweb, UpdateMongoExpress, DatabasesOf
  <2>2. PICK ui \in BOOLEAN : Exists(k) /\ Read(r, "edit b", k, ui)
    BY <2>1, Zenon DEF Toggle
  <2>3. ui \in FieldB(k) /\ k \in Named
    BY KeyFacts, Zenon DEF FieldB, Named
  <2> QED
    BY <2>2, <2>3, Zenon DEF Read, Start, StartEdit
<1> QED
  BY <1>1, <1>2, <1>3, <1>4, Zenon

LEMMA DeletesOne ==
    ASSUME NEW r \in Requests,
           DeleteApp(r) \/ DeletePostgres(r) \/ DeleteMongo(r) \/ DeleteSecretStore(r) \/ DeleteExternalSecret(r)
    PROVE  Deletes(r)
  BY KeyFacts, Zenon DEF DeleteApp, DeletePostgres, DeleteMongo, DeleteSecretStore, DeleteExternalSecret, Delete,
                  Deletes, DatabasesOf, Named

LEMMA NextSplit ==
    ASSUME Next
    PROVE  \/ \E r \in Requests : StartCreate(r) \/ StartEdit(r) \/ StartOther(r) \/ Deletes(r) \/ Handler(r) \/ CallFails(r)
           \/ (\E k \in Keys : Claim(k)) \/ (\E n \in SecretNames : Collect(n))
  BY CreatesStart, EditsStart, DeletesOne, Zenon DEF Next, StartOther

(***************************************************************************)
(* What each step makes of the request of r, and of the lock.              *)
(***************************************************************************)

\* The request of r is typed, and what it checked holds.
Sound(r) == Alone(r) /\ ReqTyped(r)' /\ Checked(r)'

\* The lock is held by r alone before the step and after it, or not at all.
LockStep(r) ==
    /\ nameMu' \in {nameMu, None, r} /\ (nameMu' # nameMu => nameMu \in {None, r})
    /\ req'[r].op = "create" <=> nameMu' = r

LEMMA DoneSound ==
    ASSUME TypeOK, NEW r \in Requests, Done(r)
    PROVE  Sound(r) /\ req'[r].op = "idle" /\ req'[r].pc = "idle" /\ req'[r].read = None
<1>1. Alone(r) /\ req'[r] = Idle /\ ReqTyped(r)'
  BY DoneRequest, Zenon
<1>2. req'[r].op = "idle" /\ req'[r].pc = "idle" /\ req'[r].read = None
  BY <1>1 DEF Idle
<1>3. Checked(r)'
  BY <1>2, Zenon DEF Checked
<1> QED
  BY <1>1, <1>2, <1>3, Zenon DEF Sound

LEMMA UnlockedStep ==
    ASSUME TypeOK, NEW r \in Requests, req'[r].op # "create", nameMu' = Unlocked(r)
    PROVE  LockStep(r)
  BY CatalogConstants, Zenon DEF TypeOK, LockStep, Unlocked

LEMMA SameLockStep ==
    ASSUME TypeOK, NEW r \in Requests, nameMu' = nameMu, req'[r].op = "create" <=> req[r].op = "create"
    PROVE  LockStep(r)
  BY Zenon DEF TypeOK, LockStep

LEMMA StartCreateSound ==
    ASSUME TypeOK, NEW r \in Requests, StartCreate(r)
    PROVE  Sound(r) /\ LockStep(r)
<1>1. PICK k \in Named :
         /\ req[r].op = "idle" /\ UNCHANGED <<objs, secrets, failed, queued, tokened>>
         /\ \/ Done(r) /\ UNCHANGED nameMu
            \/ ~ConflictingKind(k) /\ nameMu = None /\ nameMu' = r /\ Goto(r, "create", "create", k, None, None)
  BY Zenon DEF StartCreate
<1>2. CASE Done(r) /\ UNCHANGED nameMu
  BY <1>1, <1>2, DoneSound, SameLockStep, Zenon
<1>3. CASE ~ConflictingKind(k) /\ nameMu = None /\ nameMu' = r /\ Goto(r, "create", "create", k, None, None)
  <2>1. /\ Alone(r) /\ DOMAIN req'[r] = {"op", "pc", "key", "read", "arg"}
        /\ req'[r].op = "create" /\ req'[r].pc = "create" /\ req'[r].key = k /\ req'[r].read = None
    BY <1>3, GotoRequest, Zenon
  <2>2. ~ConflictingKind(k)'
    BY <1>1, <1>3, Zenon DEF ConflictingKind, Exists
  <2>3. Sound(r)
    BY <2>1, <2>2, Zenon DEF Sound, ReqTyped, Checked, Named, ConflictingKind, Exists
  <2> QED
    BY <1>3, <2>1, <2>3, Zenon DEF LockStep
<1> QED
  BY <1>1, <1>2, <1>3, Zenon

LEMMA StartEditSound ==
    ASSUME TypeOK, NEW r \in Requests, StartEdit(r)
    PROVE  Sound(r) /\ LockStep(r)
<1>1. PICK k, op, a :
       /\ k \in Named
       /\ req[r].op = "idle" /\ UNCHANGED <<objs, secrets, nameMu, failed, queued, tokened>>
       /\ Exists(k) /\ Goto(r, op, "update", k, objs[k], a)
       /\ \/ op = "edit a" /\ a \in Nat /\ (k = App => a # objs[k].a) /\ (k \in Databases => a >= objs[k].a)
          \/ op = "edit b" /\ a \in FieldB(k)
  BY Zenon DEF StartEdit
<1>2. /\ Alone(r) /\ DOMAIN req'[r] = {"op", "pc", "key", "read", "arg"}
      /\ req'[r].op = op /\ req'[r].pc = "update" /\ req'[r].key = k /\ req'[r].read = objs[k] /\ req'[r].arg = a
  BY <1>1, GotoRequest, Zenon
<1>3. objs[k] \in Objects(k)
  BY <1>1, KeyFacts, Zenon DEF TypeOK
<1>4. ReqTyped(r)'
  BY <1>1, <1>2, <1>3, Zenon DEF ReqTyped, Named
<1>5. Checked(r)'
  BY <1>1, <1>2, Zenon DEF Checked
<1> QED
  BY <1>1, <1>2, <1>4, <1>5, SameLockStep, Zenon DEF Sound

LEMMA StartOtherSound ==
    ASSUME TypeOK, NEW r \in Requests, StartOther(r)
    PROVE  Sound(r) /\ LockStep(r)
<1>1. req[r].op = "idle" /\ nameMu' = nameMu /\ objs' = objs
  BY Zenon DEF StartOther, SetEnvRead, ConnectCheck, RotateRead, SyncCheck, Start
<1>2. CASE SetEnvRead(r)
  <2>1. PICK keys \in EnvSets : Goto(r, "env", "secret", App, objs[App], keys) /\ Exists(App)
    BY <1>2, Zenon DEF SetEnvRead
  <2>2. /\ Alone(r) /\ DOMAIN req'[r] = {"op", "pc", "key", "read", "arg"}
        /\ req'[r].op = "env" /\ req'[r].pc = "secret" /\ req'[r].key = App /\ req'[r].read = objs[App]
        /\ req'[r].arg = keys
    BY <2>1, GotoRequest, Zenon
  <2>3. objs[App] \in Objects(App)
    BY <2>1, KeyFacts, Zenon DEF TypeOK
  <2> QED
    BY <1>1, <2>2, <2>3, SameLockStep, Zenon DEF Sound, ReqTyped, Checked
<1>3. CASE ConnectCheck(r)
  <2>1. /\ Alone(r) /\ DOMAIN req'[r] = {"op", "pc", "key", "read", "arg"}
        /\ req'[r].op = "connect" /\ req'[r].pc = "store" /\ req'[r].key = Store /\ req'[r].read = None
    BY <1>3, GotoRequest, Zenon DEF ConnectCheck
  <2> QED
    BY <1>1, <2>1, SameLockStep, Zenon DEF Sound, ReqTyped, Checked
<1>4. CASE RotateRead(r)
  <2>1. /\ Alone(r) /\ DOMAIN req'[r] = {"op", "pc", "key", "read", "arg"}
        /\ req'[r].op = "rotate" /\ req'[r].pc = "store" /\ req'[r].key = Store /\ req'[r].read = objs[Store]
    BY <1>4, GotoRequest DEF RotateRead
  <2>2. objs[Store] \in Objects(Store)
    BY <1>4, KeyFacts, Zenon DEF TypeOK, RotateRead
  <2> QED
    BY <1>1, <2>1, <2>2, SameLockStep, Zenon DEF Sound, ReqTyped, Checked
<1>5. CASE SyncCheck(r)
  <2>1. /\ Alone(r) /\ DOMAIN req'[r] = {"op", "pc", "key", "read", "arg"}
        /\ req'[r].op = "sync" /\ req'[r].pc = "create" /\ req'[r].key = Sync /\ req'[r].read = None
    BY <1>5, GotoRequest, Zenon DEF SyncCheck
  <2> QED
    BY <1>1, <2>1, SameLockStep, Zenon DEF Sound, ReqTyped, Checked
<1> QED
  BY <1>2, <1>3, <1>4, <1>5, Zenon DEF StartOther

LEMMA CallFailsSound ==
    ASSUME TypeOK, NEW r \in Requests, CallFails(r)
    PROVE  Sound(r) /\ LockStep(r)
<1>1. CASE req[r].op = "connect" /\ req[r].pc = "token" /\ Step(r, "rollback")
  <2>1. /\ Alone(r) /\ DOMAIN req'[r] = {"op", "pc", "key", "read", "arg"}
        /\ req'[r].op = "connect" /\ req'[r].pc = "rollback" /\ req'[r].key = req[r].key
        /\ req'[r].read = req[r].read
    BY <1>1, StepRequest, Zenon
  <2>2. req[r].key = Store /\ req[r].read \in [uid : Uids]
    BY <1>1, RequestTypes, Zenon
  <2>3. Sound(r)
    BY <2>1, <2>2, Zenon DEF Sound, ReqTyped, Checked
  <2> QED
    BY <2>1, <2>3, UnlockedStep, Zenon DEF CallFails
<1>2. CASE Done(r)
  BY <1>2, DoneSound, UnlockedStep, Zenon DEF CallFails
<1> QED
  BY <1>1, <1>2, Zenon DEF CallFails, FailHalfway, Answer

\* The steps that write nothing but Secrets, or only decide how the request goes on.
LEMMA WritesSound ==
    ASSUME TypeOK, NEW r \in Requests,
           WriteEnvSecret(r) \/ ConnectToken(r) \/ RotateStore(r) \/ RotateToken(r)
    PROVE  Sound(r) /\ LockStep(r) /\ objs' = objs
<1>1. nameMu' = nameMu /\ objs' = objs
  BY Zenon DEF WriteEnvSecret, ConnectToken, RotateStore, RotateToken
<1>2. CASE Done(r) /\ req[r].op # "create"
  BY <1>1, <1>2, DoneSound, SameLockStep, Zenon
<1>3. CASE WriteEnvSecret(r)
  <2>1. /\ Alone(r) /\ DOMAIN req'[r] = {"op", "pc", "key", "read", "arg"}
        /\ req'[r].op = "env" /\ req'[r].pc = "spec" /\ req'[r].key = req[r].key
        /\ req'[r].read = req[r].read /\ req'[r].arg = req[r].arg
    BY <1>3, StepRequest, Zenon DEF WriteEnvSecret
  <2>2. req[r].op = "env" /\ req[r].key = App /\ req[r].arg \in EnvSets /\ req[r].read \in Objects(App)
    BY <1>3, RequestTypes, Zenon DEF WriteEnvSecret
  <2>3. Sound(r)
    BY <2>1, <2>2, Zenon DEF Sound, ReqTyped, Checked
  <2> QED
    BY <1>1, <2>1, <2>2, <2>3, SameLockStep, Zenon
<1>4. CASE req[r].op = "connect" /\ req[r].pc = "token" /\ Step(r, "rollback")
  <2>1. /\ Alone(r) /\ DOMAIN req'[r] = {"op", "pc", "key", "read", "arg"}
        /\ req'[r].op = "connect" /\ req'[r].pc = "rollback" /\ req'[r].key = req[r].key
        /\ req'[r].read = req[r].read
    BY <1>4, StepRequest, Zenon
  <2>2. req[r].key = Store /\ req[r].read \in [uid : Uids]
    BY <1>4, RequestTypes, Zenon
  <2>3. Sound(r)
    BY <2>1, <2>2, Zenon DEF Sound, ReqTyped, Checked
  <2> QED
    BY <1>1, <1>4, <2>1, <2>3, SameLockStep, Zenon
<1>5. CASE req[r].op = "rotate" /\ req[r].pc = "store" /\ Step(r, "token")
  <2>1. /\ Alone(r) /\ DOMAIN req'[r] = {"op", "pc", "key", "read", "arg"}
        /\ req'[r].op = "rotate" /\ req'[r].pc = "token" /\ req'[r].key = req[r].key
        /\ req'[r].read = req[r].read
    BY <1>5, StepRequest, Zenon
  <2>2. req[r].key = Store /\ req[r].read \in Objects(Store)
    BY <1>5, RequestTypes, Zenon
  <2>3. Sound(r)
    BY <2>1, <2>2, Zenon DEF Sound, ReqTyped, Checked
  <2> QED
    BY <1>1, <1>5, <2>1, <2>3, SameLockStep, Zenon
<1> QED
  BY <1>1, <1>2, <1>3, <1>4, <1>5, Zenon DEF ConnectToken, RotateStore, RotateToken, Answer

\* A step keeps the objects typed, and makes at most one of them.
ObjsTyped == DOMAIN objs = Keys /\ \A k \in Keys : Exists(k) => objs[k] \in Objects(k)

LEMMA CreatedObject ==
    ASSUME TypeOK, NEW k \in Keys, NEW a \in Nat, NEW b \in FieldB(k), CreateObject(k, a, b)
    PROVE  /\ ObjsTyped' /\ \A j \in Keys \ {k} : objs'[j] = objs[j]
           /\ objs'[k] = [uid |-> FreshUid, a |-> a, b |-> b]
           /\ FreshUid \in Uids
<1>1. FreshUid \in Uids
  BY FreshIsUid, Zenon DEF CreateObject
<1>2. /\ DOMAIN objs' = Keys /\ \A j \in Keys \ {k} : objs'[j] = objs[j]
      /\ objs'[k] = [uid |-> FreshUid, a |-> a, b |-> b]
  BY Zenon DEF CreateObject, TypeOK
<1>3. objs'[k] \in Objects(k)
  BY <1>1, <1>2 DEF Objects
<1> QED
  BY <1>1, <1>2, <1>3, Zenon DEF ObjsTyped, TypeOK, Exists

LEMMA DeletedObject ==
    ASSUME TypeOK, NEW k \in Keys, objs' = [objs EXCEPT ![k] = None]
    PROVE  ObjsTyped' /\ objs'[k] = None /\ \A j \in Keys \ {k} : objs'[j] = objs[j]
  BY Zenon DEF TypeOK, ObjsTyped, Exists

\* The create under the lock: one object of a kind that no other has the name of.
LEMMA CreateNamedSound ==
    ASSUME TypeOK, NEW r \in Requests, CreateNamed(r)
    PROVE  /\ Sound(r) /\ LockStep(r) /\ ObjsTyped'
           /\ req[r].key \in Named /\ \A j \in Keys \ {req[r].key} : objs'[j] = objs[j]
           /\ objs'[req[r].key] # objs[req[r].key] => ~Exists(req[r].key)
           /\ req'[r].pc # "create"
           /\ req'[r].op = "create" =>
                 /\ req[r].key = App /\ req'[r].pc = "enqueue" /\ req'[r].arg = 0
                 /\ Exists(App)' => objs'[App].a = 0
<1> DEFINE k == req[r].key
<1>1. req[r].op = "create" /\ req[r].pc = "create" /\ k \in Named /\ k \in Keys
  BY RequestTypes, KeyFacts, Zenon DEF CreateNamed
<1>2. CASE Exists(k) /\ Answer(r) /\ nameMu' = Unlocked(r) /\ UNCHANGED objs
  <2>1. ObjsTyped'
    BY <1>2, Zenon DEF TypeOK, ObjsTyped, Exists
  <2> QED
    BY <1>1, <1>2, <2>1, DoneSound, UnlockedStep, Zenon DEF Answer
<1>3. ASSUME ~Exists(k), k # App, Answer(r), nameMu' = Unlocked(r),
             NEW s \in Sizes, CreateObject(k, s, FALSE)
      PROVE  /\ Sound(r) /\ LockStep(r) /\ ObjsTyped' /\ req'[r].op = "idle" /\ req'[r].pc = "idle"
             /\ \A j \in Keys \ {k} : objs'[j] = objs[j]
  <2>1. s \in Nat /\ FALSE \in FieldB(k)
    BY <1>1, <1>3, CatalogConstants, Zenon DEF FieldB, Named
  <2>2. ObjsTyped' /\ \A j \in Keys \ {k} : objs'[j] = objs[j]
    BY <1>1, <1>3, <2>1, CreatedObject, Zenon
  <2> QED
    BY <1>3, <2>2, DoneSound, UnlockedStep, Zenon DEF Answer
<1>4. CASE /\ ~Exists(k) /\ k = App /\ CreateObject(k, 0, Plain)
           /\ Goto(r, "create", "enqueue", k, None, 0) /\ UNCHANGED nameMu
  <2>1. Plain \in FieldB(k)
    BY <1>4, Zenon DEF FieldB, Plain
  <2>2. /\ ObjsTyped' /\ \A j \in Keys \ {k} : objs'[j] = objs[j]
        /\ objs'[k] = [uid |-> FreshUid, a |-> 0, b |-> Plain]
    BY <1>1, <1>4, <2>1, CreatedObject
  <2>3. /\ Alone(r) /\ DOMAIN req'[r] = {"op", "pc", "key", "read", "arg"}
        /\ req'[r].op = "create" /\ req'[r].pc = "enqueue" /\ req'[r].key = k
        /\ req'[r].read = None /\ req'[r].arg = 0
    BY <1>4, GotoRequest
  <2>4. Sound(r)
    BY <1>4, <2>3, Zenon DEF Sound, ReqTyped, Checked
  <2>5. LockStep(r)
    BY <1>1, <1>4, <2>3, SameLockStep, Zenon
  <2> QED
    BY <1>1, <1>4, <2>2, <2>3, <2>4, <2>5
<1> QED
  BY <1>1, <1>2, <1>3, <1>4, Zenon DEF CreateNamed

LEMMA EnqueueSound ==
    ASSUME TypeOK, NEW r \in Requests, EnqueueManualDeploy(r)
    PROVE  Sound(r) /\ LockStep(r) /\ objs' = objs
  BY DoneSound, UnlockedStep, Zenon DEF EnqueueManualDeploy, Answer

\* An update of the version that was read changes the field of the request.
LEMMA UpdateSound ==
    ASSUME TypeOK, NEW r \in Requests, Checked(r), UpdateWrite(r)
    PROVE  /\ Sound(r) /\ LockStep(r) /\ ObjsTyped'
           /\ req[r].key \in Named /\ \A j \in Keys \ {req[r].key} : objs'[j] = objs[j]
           /\ objs'[req[r].key] # objs[req[r].key] =>
                 /\ Exists(req[r].key) /\ objs[req[r].key] = req[r].read
                 /\ objs'[req[r].key].uid = objs[req[r].key].uid
                 /\ req[r].op = "edit a" => /\ objs'[req[r].key].a = req[r].arg
                                            /\ objs'[req[r].key].b = objs[req[r].key].b
                 /\ req[r].op = "edit b" => /\ objs'[req[r].key].a = objs[req[r].key].a
           /\ Current(r) /\ NeedsBuild(r) => req'[r].pc = "enqueue" /\ req'[r].arg = req[r].arg
           /\ ~(Current(r) /\ NeedsBuild(r)) => req'[r].op = "idle" /\ req'[r].pc = "idle"
<1> DEFINE k == req[r].key
<1>1. /\ req[r].op \in {"edit a", "edit b"} /\ req[r].pc = "update" /\ k \in Named /\ k \in Keys
      /\ nameMu' = nameMu /\ req[r].read \in Objects(k)
      /\ req[r].op = "edit a" => req[r].arg \in Nat
      /\ req[r].op = "edit b" => req[r].arg \in FieldB(k)
  BY RequestTypes, KeyFacts, Zenon DEF UpdateWrite
<1>2. CASE ~Current(r) /\ Answer(r) /\ UNCHANGED objs
  <2>1. ObjsTyped'
    BY <1>2, Zenon DEF TypeOK, ObjsTyped, Exists
  <2> QED
    BY <1>1, <1>2, <2>1, DoneSound, SameLockStep, Zenon DEF Answer
<1>3. CASE /\ Current(r) /\ objs' = [objs EXCEPT ![k] = Edited(r)]
           /\ IF NeedsBuild(r) THEN Step(r, "enqueue") /\ UNCHANGED failed ELSE Answer(r)
  <2>1. Exists(k) /\ objs[k] = req[r].read
    BY <1>3, Zenon DEF Current, Exists
  <2>2. /\ Edited(r) \in Objects(k) /\ Edited(r).uid = objs[k].uid
        /\ req[r].op = "edit a" => Edited(r).a = req[r].arg /\ Edited(r).b = objs[k].b
        /\ req[r].op = "edit b" => Edited(r).a = objs[k].a
    BY <1>1, <2>1, Zenon DEF Edited, Objects
  <2>3. DOMAIN objs' = Keys /\ objs'[k] = Edited(r) /\ \A j \in Keys \ {k} : objs'[j] = objs[j]
    BY <1>1, <1>3, Zenon DEF TypeOK
  <2>4. ObjsTyped'
    BY <2>2, <2>3, Zenon DEF TypeOK, ObjsTyped, Exists
  <2>5. CASE NeedsBuild(r)
    <3>1. /\ Alone(r) /\ DOMAIN req'[r] = {"op", "pc", "key", "read", "arg"}
          /\ req'[r].op = req[r].op /\ req'[r].pc = "enqueue" /\ req'[r].key = k
          /\ req'[r].read = req[r].read /\ req'[r].arg = req[r].arg
      BY <1>3, <2>5, StepRequest, Zenon
    <3>2. k = App /\ req[r].op = "edit a"
      BY <1>1, <2>1, <2>2, <2>5, Zenon DEF NeedsBuild
    <3>3. Sound(r)
      BY <1>1, <3>1, <3>2, Zenon DEF Sound, ReqTyped, Checked
    <3> QED
      BY <1>1, <1>3, <2>1, <2>2, <2>3, <2>4, <2>5, <3>1, <3>3, SameLockStep, Zenon
  <2>6. CASE ~NeedsBuild(r)
    <3>1. Done(r)
      BY <1>3, <2>6, Zenon DEF Answer
    <3>2. Sound(r) /\ LockStep(r) /\ req'[r].op = "idle" /\ req'[r].pc = "idle"
      BY <1>1, <3>1, DoneSound, SameLockStep, Zenon
    <3> QED
      BY <1>1, <2>1, <2>2, <2>3, <2>4, <2>6, <3>2, Zenon
  <2> QED
    BY <2>5, <2>6, Zenon
<1> QED
  BY <1>2, <1>3, Zenon DEF UpdateWrite

\* The environment editor changes the variables of the App it read, and no other object.
LEMMA SetEnvSound ==
    ASSUME TypeOK, NEW r \in Requests, SetEnvSpec(r)
    PROVE  /\ Sound(r) /\ LockStep(r) /\ ObjsTyped' /\ req'[r].op = "idle"
           /\ \A j \in Keys \ {App} : objs'[j] = objs[j]
           /\ \/ objs'[App] = objs[App] /\ ~Current(r) /\ failed'
              \/ /\ Exists(App) /\ Current(r)
                 /\ objs'[App].uid = objs[App].uid /\ objs'[App].a = objs[App].a
                 /\ objs'[App].b = ReconcileEnvRefs(objs[App].b, req[r].arg)
<1>1. req[r].op = "env" /\ req[r].key = App /\ nameMu' = nameMu /\ App \in Keys /\ Done(r)
  BY RequestTypes, KeyFacts, Zenon DEF SetEnvSpec, Answer, FailHalfway
<1>2. Sound(r) /\ LockStep(r) /\ req'[r].op = "idle"
  BY <1>1, DoneSound, SameLockStep, Zenon
<1>3. CASE ~Current(r) /\ FailHalfway(r) /\ UNCHANGED objs
  BY <1>2, <1>3, Zenon DEF TypeOK, ObjsTyped, Exists, FailHalfway
<1>4. CASE Current(r) /\ objs' = [objs EXCEPT ![App].b = ReconcileEnvRefs(@, req[r].arg)]
  <2>1. Exists(App) /\ objs[App] \in Objects(App)
    BY <1>1, <1>4, Zenon DEF Current, Exists, TypeOK
  <2>2. objs[App].b \in [EnvNames -> {"none", "plain", "managed"}]
    BY <2>1, Zenon DEF Objects, FieldB
  <2> DEFINE b == ReconcileEnvRefs(objs[App].b, req[r].arg)
  <2>3. b \in FieldB(App)
    BY <2>2, Zenon DEF ReconcileEnvRefs, FieldB
  <2> HIDE DEF b
  <2>4. /\ DOMAIN objs' = Keys /\ objs'[App] = [objs[App] EXCEPT !.b = b]
        /\ \A j \in Keys \ {App} : objs'[j] = objs[j]
    BY <1>1, <1>4, Zenon DEF TypeOK, b
  <2>5. /\ objs'[App] \in Objects(App) /\ objs'[App].uid = objs[App].uid /\ objs'[App].a = objs[App].a
        /\ objs'[App].b = b
    BY <2>1, <2>3, <2>4, Zenon DEF Objects
  <2>6. ObjsTyped'
    BY <2>4, <2>5, Zenon DEF TypeOK, ObjsTyped, Exists
  <2> QED
    BY <1>2, <1>4, <2>1, <2>4, <2>5, <2>6, Zenon DEF b
<1> QED
  BY <1>3, <1>4, Zenon DEF SetEnvSpec

\* A store is made with nothing but a uid; the connect that made it carries that.
LEMMA ConnectStoreSound ==
    ASSUME TypeOK, NEW r \in Requests, ConnectStore(r)
    PROVE  /\ Sound(r) /\ LockStep(r) /\ ObjsTyped'
           /\ \A j \in Keys \ {Store} : objs'[j] = objs[j]
           /\ \/ objs'[Store] = objs[Store] /\ Exists(Store) /\ (tokened' <=> tokened) /\ Done(r)
              \/ /\ ~Exists(Store) /\ req'[r].op = "connect" /\ req'[r].pc = "token" /\ req'[r].read # None
                 /\ req'[r].read.uid = objs'[Store].uid
           /\ failed' = failed /\ queued' = queued
<1>1. req[r].op = "connect" /\ nameMu' = nameMu /\ Store \in Keys
  BY KeyFacts, Zenon DEF ConnectStore
<1>2. CASE Exists(Store) /\ Answer(r) /\ UNCHANGED objs /\ tokened' = (Exists(Store) /\ tokened)
  <2>1. Sound(r) /\ LockStep(r) /\ req'[r].op = "idle"
    BY <1>1, <1>2, DoneSound, SameLockStep, Zenon DEF Answer
  <2>2. ObjsTyped'
    BY <1>2, Zenon DEF TypeOK, ObjsTyped, Exists
  <2>3. tokened' <=> tokened
    BY <1>2, Zenon DEF TypeOK
  <2> QED
    BY <1>2, <2>1, <2>2, <2>3, Zenon DEF Answer, ConnectStore
<1>3. CASE /\ ~Exists(Store) /\ CreateObject(Store, 0, 0)
           /\ Goto(r, "connect", "token", Store, [uid |-> FreshUid], None) /\ UNCHANGED failed
  <2>1. 0 \in FieldB(Store)
    BY KeyFacts, Zenon DEF FieldB, Named
  <2>2. /\ ObjsTyped' /\ \A j \in Keys \ {Store} : objs'[j] = objs[j]
        /\ objs'[Store] = [uid |-> FreshUid, a |-> 0, b |-> 0] /\ FreshUid \in Uids
    BY <1>1, <1>3, <2>1, CreatedObject, Zenon
  <2>3. /\ Alone(r) /\ DOMAIN req'[r] = {"op", "pc", "key", "read", "arg"}
        /\ req'[r].op = "connect" /\ req'[r].pc = "token" /\ req'[r].key = Store
        /\ req'[r].read = [uid |-> FreshUid]
    BY <1>3, GotoRequest, Zenon
  <2>4. req'[r].read \in [uid : Uids] /\ req'[r].read.uid = FreshUid
    BY <2>2, <2>3
  <2>5. req'[r].read # None
    BY <2>4, CatalogConstants, Zenon
  <2>6. Sound(r)
    BY <2>3, <2>4, Zenon DEF Sound, ReqTyped, Checked
  <2> QED
    BY <1>1, <1>3, <2>2, <2>3, <2>4, <2>5, <2>6, SameLockStep DEF ConnectStore
<1> QED
  BY <1>2, <1>3, Zenon DEF ConnectStore

LEMMA RollbackSound ==
    ASSUME TypeOK, NEW r \in Requests, Rollback(r)
    PROVE  /\ Sound(r) /\ LockStep(r) /\ ObjsTyped' /\ Done(r)
           /\ objs'[Store] = None /\ \A j \in Keys \ {Store} : objs'[j] = objs[j]
<1>1. Sound(r) /\ LockStep(r)
  BY DoneSound, SameLockStep, Zenon DEF Rollback, Answer
<1> QED
  BY <1>1, DeletedObject, KeyFacts, Zenon DEF Rollback, Answer

LEMMA SyncCreateSound ==
    ASSUME TypeOK, NEW r \in Requests, SyncCreate(r)
    PROVE  /\ Sound(r) /\ LockStep(r) /\ ObjsTyped' /\ Done(r)
           /\ \A j \in Keys \ {Sync} : objs'[j] = objs[j]
           /\ objs'[Sync] # objs[Sync] => ~Exists(Sync)
<1>1. Sound(r) /\ LockStep(r)
  BY DoneSound, SameLockStep, Zenon DEF SyncCreate, Answer
<1>2. CASE UNCHANGED objs
  BY <1>1, <1>2, Zenon DEF TypeOK, ObjsTyped, Exists, SyncCreate, Answer
<1>3. CASE ~Exists(Sync) /\ CreateObject(Sync, 0, 0)
  <2>1. 0 \in FieldB(Sync) /\ Sync \in Keys
    BY KeyFacts, Zenon DEF FieldB, Named
  <2> QED
    BY <1>1, <1>3, <2>1, CreatedObject, Zenon DEF SyncCreate, Answer
<1> QED
  BY <1>2, <1>3, Zenon DEF SyncCreate

(***************************************************************************)
(* Names: every step of a request is sound, and only the holder of the     *)
(* lock makes an object that has a name to itself.                         *)
(***************************************************************************)

Effect(r) ==
    /\ Sound(r) /\ LockStep(r) /\ ObjsTyped'
    /\ \A k \in Named : (Exists(k)' /\ ~Exists(k)) =>
          req[r].op = "create" /\ req[r].pc = "create" /\ k = req[r].key /\ req'[r].pc # "create"

LEMMA QuietEffect ==
    ASSUME TypeOK, NEW r \in Requests, Sound(r), LockStep(r), objs' = objs
    PROVE  Effect(r)
  BY Zenon DEF Effect, TypeOK, ObjsTyped, Exists

LEMMA HandlerEffect ==
    ASSUME TypeOK, NEW r \in Requests, Checked(r), Handler(r)
    PROVE  Effect(r)
<1>1. CASE CreateNamed(r)
  <2>1. req[r].op = "create" /\ req[r].pc = "create"
    BY <1>1, Zenon DEF CreateNamed
  <2>2. /\ Sound(r) /\ LockStep(r) /\ ObjsTyped' /\ req[r].key \in Named
        /\ \A j \in Keys \ {req[r].key} : objs'[j] = objs[j]
    BY <1>1, CreateNamedSound, Zenon
  <2>3. req'[r].pc # "create"
    BY <1>1, CreateNamedSound, Zenon
  <2> QED
    BY <2>1, <2>2, <2>3, KeyFacts, Zenon DEF Effect, Exists
<1>2. CASE UpdateWrite(r)
  <2>1. /\ Sound(r) /\ LockStep(r) /\ ObjsTyped' /\ req[r].key \in Named
        /\ \A j \in Keys \ {req[r].key} : objs'[j] = objs[j]
        /\ objs'[req[r].key] # objs[req[r].key] => Exists(req[r].key)
    BY <1>2, UpdateSound, Zenon
  <2> QED
    BY <2>1, KeyFacts, Zenon DEF Effect, Exists
<1>3. CASE SetEnvSpec(r)
  <2>1. /\ Sound(r) /\ LockStep(r) /\ ObjsTyped' /\ \A j \in Keys \ {App} : objs'[j] = objs[j]
        /\ objs'[App] = objs[App] \/ Exists(App)
    BY <1>3, SetEnvSound, Zenon
  <2> QED
    BY <2>1, KeyFacts, Zenon DEF Effect, Exists
<1>4. CASE ConnectStore(r)
  BY <1>4, ConnectStoreSound, KeyFacts, Zenon DEF Effect, Exists
<1>5. CASE Rollback(r)
  BY <1>5, RollbackSound, KeyFacts, Zenon DEF Effect, Exists
<1>6. CASE SyncCreate(r)
  BY <1>6, SyncCreateSound, KeyFacts, Zenon DEF Effect, Exists
<1>7. CASE EnqueueManualDeploy(r)
  BY <1>7, EnqueueSound, QuietEffect, Zenon
<1>8. CASE WriteEnvSecret(r) \/ ConnectToken(r) \/ RotateStore(r) \/ RotateToken(r)
  BY <1>8, WritesSound, QuietEffect, Zenon
<1> QED
  BY <1>1, <1>2, <1>3, <1>4, <1>5, <1>6, <1>7, <1>8, Zenon DEF Handler

LEMMA RequestEffect ==
    ASSUME TypeOK, NEW r \in Requests, Checked(r),
           StartCreate(r) \/ StartEdit(r) \/ StartOther(r) \/ Handler(r) \/ CallFails(r)
    PROVE  Effect(r)
<1>1. CASE StartCreate(r)
  BY <1>1, StartCreateSound, QuietEffect, Zenon DEF StartCreate
<1>2. CASE StartEdit(r)
  BY <1>2, StartEditSound, QuietEffect, Zenon DEF StartEdit
<1>3. CASE StartOther(r)
  BY <1>3, StartOtherSound, QuietEffect, Zenon DEF StartOther, SetEnvRead, ConnectCheck, RotateRead, SyncCheck
<1>4. CASE Handler(r)
  BY <1>4, HandlerEffect, Zenon
<1>5. CASE CallFails(r)
  BY <1>5, CallFailsSound, QuietEffect, Zenon DEF CallFails
<1> QED
  BY <1>1, <1>2, <1>3, <1>4, <1>5, Zenon

SecretsTyped == secrets \in [SecretNames -> [owner : Uids, keys : SUBSET EnvNames] \cup {None}]

LEMMA OverwrittenSecret ==
    ASSUME SecretsTyped, NEW n \in SecretNames, NEW o \in Uids, NEW keys \in SUBSET EnvNames, Overwrite(n, o, keys)
    PROVE  SecretsTyped'
<1>1. [owner |-> o, keys |-> keys] \in [owner : Uids, keys : SUBSET EnvNames]
  BY Zenon
<1> QED
  BY <1>1, Zenon DEF SecretsTyped, Overwrite

LEMMA SecretsNext ==
    ASSUME TypeOK, Next
    PROVE  SecretsTyped'
<1>1. SecretsTyped /\ {} \in SUBSET EnvNames /\ "x-env" \in SecretNames /\ "x-credentials" \in SecretNames
  BY Zenon DEF TypeOK, SecretsTyped, SecretNames
<1>2. CASE UNCHANGED secrets
  BY <1>1, <1>2, Zenon DEF SecretsTyped
<1>3. ASSUME NEW r \in Requests, WriteEnvSecret(r)
      PROVE  SecretsTyped'
  <2>1. req[r].read.uid \in Uids /\ req[r].arg \in SUBSET EnvNames
    BY <1>3, RequestTypes, Zenon DEF WriteEnvSecret, Objects, EnvNames
  <2> QED
    BY <1>1, <1>3, <2>1, OverwrittenSecret, Zenon DEF WriteEnvSecret
<1>4. ASSUME NEW r \in Requests, ConnectToken(r) \/ RotateToken(r)
      PROVE  SecretsTyped'
  <2>1. req[r].read.uid \in Uids
    BY <1>4, RequestTypes, Zenon DEF ConnectToken, RotateToken, Objects
  <2> QED
    BY <1>1, <1>2, <1>4, <2>1, OverwrittenSecret, Zenon DEF ConnectToken, RotateToken
<1>5. ASSUME NEW k \in Keys, Claim(k)
      PROVE  SecretsTyped'
  <2>1. objs[k].uid \in Uids
    BY <1>5, Zenon DEF Claim, TypeOK, Objects
  <2>2. k.name \in SecretNames
    BY <1>5, KeyFacts DEF Claim, Sync, Object, SecretNames
  <2> QED
    BY <1>1, <1>5, <2>1, <2>2, OverwrittenSecret, Zenon DEF Claim
<1>6. ASSUME NEW n \in SecretNames, Collect(n)
      PROVE  SecretsTyped'
  BY <1>1, <1>6, Zenon DEF Collect, SecretsTyped
<1>7. ASSUME NEW r \in Requests,
             StartCreate(r) \/ StartEdit(r) \/ StartOther(r) \/ Deletes(r) \/ CallFails(r)
      PROVE  UNCHANGED secrets
  BY <1>7, Zenon DEF StartCreate, StartEdit, StartOther, Deletes, CallFails, SetEnvRead, ConnectCheck, RotateRead, SyncCheck
<1>8. ASSUME NEW r \in Requests,
             \/ CreateNamed(r) \/ EnqueueManualDeploy(r) \/ UpdateWrite(r) \/ SetEnvSpec(r)
             \/ ConnectStore(r) \/ Rollback(r) \/ RotateStore(r) \/ SyncCreate(r)
      PROVE  UNCHANGED secrets
  BY <1>8, Zenon DEF CreateNamed, EnqueueManualDeploy, UpdateWrite, SetEnvSpec, ConnectStore, Rollback, RotateStore, SyncCreate
<1> QED
  BY <1>2, <1>3, <1>4, <1>5, <1>6, <1>7, <1>8, NextSplit, Zenon DEF Handler

\* A step of r keeps the types, the names and what every other request checked.
LEMMA NamesStep ==
    ASSUME NamesSound, NEW r \in Requests, \A q \in Requests : Checked(q), Effect(r), SecretsTyped'
    PROVE  NamesSound' /\ \A q \in Requests : Checked(q)'
<1>1. TypeOK /\ OneKindPerName /\ Alone(r) /\ ReqTyped(r)' /\ Checked(r)' /\ LockStep(r)
  BY Zenon DEF NamesSound, Effect, Sound
<1>2. ASSUME NEW q \in Requests \ {r}
      PROVE  /\ ReqTyped(q)' /\ req'[q] = req[q]
             /\ req'[q].op = "create" <=> nameMu' = q
  <2>1. req'[q] = req[q] /\ ReqTyped(q)
    BY <1>1, Zenon DEF Alone, TypeOK
  <2>2. ReqTyped(q)'
    BY <2>1, Zenon DEF ReqTyped
  <2>3. nameMu' = q <=> nameMu = q
    BY <1>1, CatalogConstants, Zenon DEF LockStep
  <2> QED
    BY <1>1, <2>1, <2>2, <2>3, Zenon DEF TypeOK
<1>3. nameMu' \in Requests \cup {None} /\ (req'[r].op = "create" <=> nameMu' = r)
  BY <1>1, Zenon DEF LockStep, TypeOK
<1>4. TypeOK'
  BY <1>1, <1>2, <1>3, Zenon DEF TypeOK, Effect, ObjsTyped, SecretsTyped, Alone
<1>5. ASSUME NEW j \in Named, Exists(j)', ~Exists(j)
      PROVE  /\ req[r].op = "create" /\ j = req[r].key
             /\ \A k \in Named : k.name = j.name /\ Exists(k) => k = j
  <2>1. req[r].op = "create" /\ req[r].pc = "create" /\ j = req[r].key /\ ~ConflictingKind(j)
    BY <1>5, Zenon DEF Effect, Checked
  <2> QED
    BY <2>1, KeyFacts, Zenon DEF ConflictingKind, Named
<1>6. OneKindPerName'
  <2> SUFFICES ASSUME NEW j \in Named, NEW k \in Named, Exists(j)', Exists(k)', j.name = k.name
               PROVE  j = k
    BY Zenon DEF OneKindPerName, Named
  <2>1. CASE Exists(j) /\ Exists(k)
    BY <1>1, <2>1, Zenon DEF OneKindPerName, Named
  <2>2. CASE ~Exists(j)
    BY <1>5, <2>2, Zenon
  <2>3. CASE ~Exists(k)
    BY <1>5, <2>3
  <2> QED
    BY <2>1, <2>2, <2>3, Zenon
<1>7. ASSUME NEW q \in Requests \ {r}
      PROVE  Checked(q)'
  <2>1. Checked(q) /\ req'[q] = req[q]
    BY <1>2, Zenon
  <2>2. ASSUME req[q].op = "create"
        PROVE  \A j \in Named : Exists(j)' => Exists(j)
    <3>1. req[r].op # "create"
      BY <1>1, <2>2, Zenon DEF TypeOK
    <3> QED
      BY <1>5, <3>1, Zenon
  <2>3. req[q].op = "create" /\ req[q].pc = "create" => ~ConflictingKind(req[q].key)'
    BY <2>1, <2>2, Zenon DEF Checked, ConflictingKind, Named
  <2> QED
    BY <2>1, <2>3, Zenon DEF Checked, ConflictingKind, Exists
<1> QED
  BY <1>1, <1>4, <1>6, <1>7, Zenon DEF NamesSound

\* A step that no request takes: an object goes, or only Secrets change.
LEMMA OutsideStep ==
    ASSUME IInv, UNCHANGED <<req, nameMu, failed, queued, tokened>>, SecretsTyped',
           DOMAIN objs' = Keys, \A k \in Keys : objs'[k] \in {objs[k], None}
    PROVE  IInv'
<1>1. \A k \in Keys : Exists(k)' => Exists(k) /\ objs'[k] = objs[k]
  BY Zenon DEF Exists
<1>2. TypeOK'
  <2>1. ASSUME NEW r \in Requests
        PROVE  ReqTyped(r)'
    <3>1. ReqTyped(r) /\ req' = req
      BY Zenon DEF IInv, NamesSound, TypeOK
    <3> QED
      BY <3>1, Zenon DEF ReqTyped
  <2> QED
    BY <1>1, <2>1, Zenon DEF IInv, NamesSound, TypeOK, SecretsTyped
<1>3. OneKindPerName'
  BY <1>1, KeyFacts, Zenon DEF IInv, NamesSound, OneKindPerName, Named
<1>4. \A r \in Requests : Checked(r)'
  <2> SUFFICES ASSUME NEW r \in Requests PROVE Checked(r)'
    BY Zenon
  <2>1. Checked(r)
    BY Zenon DEF IInv
  <2>2. ConflictingKind(req[r].key)' => ConflictingKind(req[r].key)
    BY <1>1, KeyFacts, Zenon DEF ConflictingKind, Named
  <2> QED
    BY <2>1, <2>2, Zenon DEF Checked
<1>5. SourceQueued'
  BY <1>1, KeyFacts, Zenon DEF IInv, SourceQueued
<1>6. NoHalfConnect'
  BY <1>1, KeyFacts, Zenon DEF IInv, NoHalfConnect
<1> QED
  BY <1>2, <1>3, <1>4, <1>5, <1>6, Zenon DEF IInv, NamesSound

(***************************************************************************)
(* Every source gets its build.                                            *)
(***************************************************************************)

\* A step of r that neither changes the source nor was to queue a build.
LEMMA SourceKept ==
    ASSUME SourceQueued, NEW r \in Requests, Alone(r), req[r].pc # "enqueue",
           Exists(App)' => Exists(App) /\ objs'[App].a = objs[App].a,
           queued => queued', failed => failed'
    PROVE  SourceQueued'
  BY Zenon DEF SourceQueued, Alone

LEMMA SourceStep ==
    ASSUME TypeOK, SourceQueued, NEW r \in Requests, Checked(r), Effect(r),
           StartCreate(r) \/ StartEdit(r) \/ StartOther(r) \/ Handler(r) \/ CallFails(r)
    PROVE  SourceQueued'
<1>1. Alone(r) /\ App \in Keys
  BY KeyFacts, Zenon DEF Effect, Sound
<1>2. CASE StartCreate(r) \/ StartEdit(r) \/ StartOther(r)
  <2>1. req[r].op = "idle" /\ UNCHANGED <<objs, failed, queued>>
    BY <1>2, Zenon DEF StartCreate, StartEdit, StartOther, SetEnvRead, ConnectCheck, RotateRead, SyncCheck, Start
  <2>2. req[r].pc # "enqueue"
    BY <2>1, RequestTypes, Zenon
  <2> QED
    BY <1>1, <2>1, <2>2, SourceKept, Zenon DEF Exists
<1>3. CASE CreateNamed(r)
  <2>1. /\ req[r].key \in Named /\ \A j \in Keys \ {req[r].key} : objs'[j] = objs[j]
        /\ req[r].pc = "create"
    BY <1>3, CreateNamedSound, Zenon DEF CreateNamed
  <2>2. CASE req'[r].op = "create"
    <3>1. req'[r].pc = "enqueue" /\ req'[r].arg = 0 /\ (Exists(App)' => objs'[App].a = 0)
      BY <1>3, <2>2, CreateNamedSound, Zenon
    <3> QED
      BY <3>1, Zenon DEF SourceQueued
  <2>3. CASE req'[r].op # "create"
    <3>1. ~Goto(r, "create", "enqueue", req[r].key, None, 0)
      BY <2>3, GotoRequest, Zenon
    <3>2. /\ failed' = failed /\ queued' = queued
          /\ (Exists(req[r].key) /\ objs' = objs) \/ req[r].key # App
      BY <1>3, <3>1, Zenon DEF CreateNamed, Answer
    <3>3. objs'[App] = objs[App]
      BY <1>1, <2>1, <3>2, Zenon
    <3> QED
      BY <1>1, <2>1, <3>2, <3>3, SourceKept, Zenon DEF Exists
  <2> QED
    BY <2>2, <2>3, Zenon
<1>4. CASE EnqueueManualDeploy(r)
  <2>1. /\ queued' = IF Exists(App) THEN queued \/ objs[App].a = req[r].arg ELSE FALSE
        /\ failed' = failed /\ objs' = objs
    BY <1>4, Zenon DEF EnqueueManualDeploy, Answer
  <2> QED
    BY <1>1, <2>1, Zenon DEF SourceQueued, Alone, Exists
<1>5. CASE UpdateWrite(r)
  <2>1. /\ req[r].op \in {"edit a", "edit b"} /\ req[r].pc = "update" /\ failed' = failed
        /\ Current(r) \/ queued' = queued
        /\ Current(r) => queued' = (queued /\ ~(req[r].key = App /\ req[r].op = "edit a"))
    BY <1>5, Zenon DEF UpdateWrite, Answer
  <2>2. CASE Current(r) /\ req[r].key = App /\ req[r].op = "edit a"
    <3>1. req[r].read \in Objects(App) /\ req[r].arg # req[r].read.a
      BY <2>2, RequestTypes, Zenon DEF Checked
    <3>2. Edited(r).a = req[r].arg
      BY <2>2, <3>1, Zenon DEF Edited, Objects
    <3>3. req'[r].pc = "enqueue" /\ req'[r].arg = req[r].arg
      BY <1>5, <2>2, <3>1, <3>2, UpdateSound, Zenon DEF NeedsBuild
    <3>4. objs'[App].a = req[r].arg
      BY <1>1, <1>5, <2>2, <3>2, Zenon DEF UpdateWrite, TypeOK
    <3> QED
      BY <3>3, <3>4, Zenon DEF SourceQueued
  <2>3. CASE ~(Current(r) /\ req[r].key = App /\ req[r].op = "edit a")
    <3>1. queued => queued'
      BY <2>1, <2>3, Zenon
    <3>2. /\ \A j \in Keys \ {req[r].key} : objs'[j] = objs[j]
          /\ objs'[req[r].key] # objs[req[r].key] =>
                /\ Exists(req[r].key) /\ Current(r)
                /\ req[r].op = "edit b" => objs'[req[r].key].a = objs[req[r].key].a
      BY <1>5, UpdateSound, Zenon DEF UpdateWrite, Current, Exists
    <3>3. Exists(App)' => Exists(App) /\ objs'[App].a = objs[App].a
      BY <1>1, <2>1, <2>3, <3>2, Zenon DEF Exists
    <3> QED
      BY <1>1, <2>1, <3>1, <3>3, SourceKept, Zenon
  <2> QED
    BY <2>2, <2>3, Zenon
<1>6. CASE SetEnvSpec(r)
  <2>1. \/ failed'
        \/ Exists(App) /\ objs'[App].a = objs[App].a /\ failed' = failed
    BY <1>6, SetEnvSound, Zenon DEF SetEnvSpec, Answer
  <2>2. req[r].pc # "enqueue" /\ queued' = queued
    BY <1>6, Zenon DEF SetEnvSpec
  <2>3. CASE failed'
    BY <2>3, Zenon DEF SourceQueued
  <2> QED
    BY <1>1, <2>1, <2>2, <2>3, SourceKept
<1>7. CASE \/ WriteEnvSecret(r) \/ ConnectStore(r) \/ ConnectToken(r) \/ Rollback(r)
           \/ RotateStore(r) \/ RotateToken(r) \/ SyncCreate(r)
  <2>1. queued' = queued /\ failed' = failed
    BY <1>7, Zenon DEF WriteEnvSecret, ConnectStore, ConnectToken, Rollback, RotateStore, RotateToken, SyncCreate, Answer
  <2>2. req[r].pc # "enqueue"
    BY <1>7, RequestTypes, Zenon DEF WriteEnvSecret, ConnectStore, ConnectToken, Rollback, RotateStore, RotateToken, SyncCreate
  <2>3. objs'[App] = objs[App]
    BY <1>7, WritesSound, ConnectStoreSound, RollbackSound, SyncCreateSound, KeyFacts, Zenon DEF Named
  <2> QED
    BY <1>1, <2>1, <2>2, <2>3, SourceKept, Zenon DEF Exists
<1>8. CASE CallFails(r)
  <2>1. objs' = objs /\ queued' = queued
    BY <1>8, Zenon DEF CallFails
  <2>2. CASE req[r].pc = "enqueue"
    <3>1. failed'
      BY <1>8, <2>2, Zenon DEF CallFails, FailHalfway
    <3> QED
      BY <3>1, Zenon DEF SourceQueued
  <2>3. CASE req[r].pc # "enqueue"
    <3>1. failed => failed'
      BY <1>8, Zenon DEF CallFails, FailHalfway, Answer
    <3> QED
      BY <1>1, <2>1, <2>3, <3>1, SourceKept, Zenon DEF Exists
  <2> QED
    BY <2>2, <2>3, Zenon
<1> QED
  BY <1>2, <1>3, <1>4, <1>5, <1>6, <1>7, <1>8, Zenon DEF Handler

(***************************************************************************)
(* A connect is made as a whole.                                           *)
(***************************************************************************)

\* A step of r that keeps the store and, if r made it, r's hand on it.
LEMMA StoreKept ==
    ASSUME NoHalfConnect, NEW r \in Requests, Alone(r), Exists(Store)' => objs'[Store] = objs[Store],
           tokened => tokened', failed => failed',
           \/ req[r].op # "connect" \/ req[r].read = None \/ failed' \/ tokened'
           \/ req'[r].op = "connect" /\ req'[r].read = req[r].read
    PROVE  NoHalfConnect'
  BY Zenon DEF NoHalfConnect, Alone, Exists

LEMMA StoreStep ==
    ASSUME TypeOK, NoHalfConnect, NEW r \in Requests, Checked(r), Effect(r),
           StartCreate(r) \/ StartEdit(r) \/ StartOther(r) \/ Handler(r) \/ CallFails(r)
    PROVE  NoHalfConnect'
<1>1. Alone(r) /\ Store \in Keys /\ Store \notin Named
  BY KeyFacts, Zenon DEF Effect, Sound
<1>2. CASE StartCreate(r) \/ StartEdit(r) \/ StartOther(r)
  <2>1. req[r].op = "idle" /\ UNCHANGED <<objs, failed, tokened>>
    BY <1>2, Zenon DEF StartCreate, StartEdit, StartOther, SetEnvRead, ConnectCheck, RotateRead, SyncCheck, Start
  <2> QED
    BY <1>1, <2>1, StoreKept, Zenon
<1>3. CASE \/ CreateNamed(r) \/ EnqueueManualDeploy(r) \/ UpdateWrite(r) \/ WriteEnvSecret(r) \/ SetEnvSpec(r)
           \/ RotateStore(r) \/ RotateToken(r) \/ SyncCreate(r)
  <2>1. tokened' = tokened /\ (failed => failed')
    <3>1. tokened' = tokened
      BY <1>3, Zenon DEF CreateNamed, EnqueueManualDeploy, UpdateWrite, WriteEnvSecret, SetEnvSpec,
                  RotateStore, RotateToken, SyncCreate
    <3>2. SetEnvSpec(r) => (failed => failed')
      BY Zenon DEF SetEnvSpec, Answer, FailHalfway
    <3>3. ~SetEnvSpec(r) => failed' = failed
      BY <1>3, Zenon DEF CreateNamed, EnqueueManualDeploy, UpdateWrite, WriteEnvSecret,
                  RotateStore, RotateToken, SyncCreate, Answer
    <3> QED
      BY <3>1, <3>2, <3>3
  <2>2. req[r].op # "connect"
    BY <1>3, RequestTypes, Zenon DEF CreateNamed, EnqueueManualDeploy, UpdateWrite, WriteEnvSecret, SetEnvSpec,
                RotateStore, RotateToken, SyncCreate
  <2>3. CASE CreateNamed(r) \/ UpdateWrite(r)
    <3>1. req[r].key \in Named /\ \A j \in Keys \ {req[r].key} : objs'[j] = objs[j]
      BY <2>3, CreateNamedSound, UpdateSound, Zenon
    <3> QED
      BY <1>1, <2>1, <2>2, <3>1, StoreKept, Zenon
  <2>4. CASE ~(CreateNamed(r) \/ UpdateWrite(r))
    <3>1. objs'[Store] = objs[Store]
      BY <1>3, <2>4, EnqueueSound, WritesSound, SetEnvSound, SyncCreateSound, KeyFacts, Zenon DEF Named
    <3> QED
      BY <1>1, <2>1, <2>2, <3>1, StoreKept, Zenon
  <2> QED
    BY <2>3, <2>4, Zenon
<1>4. CASE ConnectStore(r)
  <2>1. CASE objs'[Store] = objs[Store] /\ Exists(Store)
    <3>1. req[r].read = None
      BY <1>4, RequestTypes, Zenon DEF ConnectStore
    <3>2. tokened => tokened'
      BY <2>1, <1>4, Zenon DEF ConnectStore
    <3> QED
      BY <1>1, <1>4, <2>1, <3>1, <3>2, ConnectStoreSound, StoreKept
  <2>2. CASE ~Exists(Store)
    <3>1. req'[r].op = "connect" /\ req'[r].read # None /\ req'[r].read.uid = objs'[Store].uid
      BY <1>4, <2>2, ConnectStoreSound, Zenon
    <3> QED
      BY <3>1, Zenon DEF NoHalfConnect
  <2> QED
    BY <1>4, <2>1, <2>2, ConnectStoreSound, Zenon
<1>5. CASE ConnectToken(r)
  <2>1. req[r].op = "connect" /\ objs' = objs /\ failed' = failed
    BY <1>5, Zenon DEF ConnectToken, Answer
  <2>2. CASE Step(r, "rollback") /\ UNCHANGED tokened
    <3>1. req'[r].op = "connect" /\ req'[r].read = req[r].read
      BY <2>1, <2>2, StepRequest, Zenon
    <3> QED
      BY <1>1, <2>1, <2>2, <3>1, StoreKept, Zenon
  <2>3. CASE tokened' = IF Exists(Store) THEN tokened \/ objs[Store].uid = req[r].read.uid ELSE FALSE
    BY <1>1, <2>1, <2>3, Zenon DEF NoHalfConnect, Alone, Exists
  <2> QED
    BY <1>5, <2>2, <2>3, Zenon DEF ConnectToken
<1>6. CASE Rollback(r)
  BY <1>6, RollbackSound, Zenon DEF NoHalfConnect, Exists
<1>7. CASE CallFails(r)
  <2>1. objs' = objs /\ tokened' = tokened /\ (failed => failed')
    BY <1>7, Zenon DEF CallFails, FailHalfway, Answer
  <2>2. CASE req[r].op = "connect" /\ req[r].pc = "token"
    <3>1. req'[r].op = "connect" /\ req'[r].read = req[r].read
      BY <1>7, <2>2, StepRequest, Zenon DEF CallFails
    <3> QED
      BY <1>1, <2>1, <3>1, StoreKept, Zenon
  <2>3. CASE ~(req[r].op = "connect" /\ req[r].pc = "token")
    <3>1. req[r].op = "connect" /\ req[r].read # None => req[r].pc = "rollback"
      BY <2>3, RequestTypes, Zenon
    <3>2. req[r].op = "connect" /\ req[r].read # None => failed'
      BY <1>7, <2>3, <3>1, Zenon DEF CallFails, FailHalfway
    <3> QED
      BY <1>1, <2>1, <3>2, StoreKept, Zenon
  <2> QED
    BY <2>2, <2>3, Zenon
<1> QED
  BY <1>2, <1>3, <1>4, <1>5, <1>6, <1>7, Zenon DEF Handler

(***************************************************************************)
(* The invariant holds.                                                    *)
(***************************************************************************)

LEMMA InvInit ==
    Init => IInv
<1> SUFFICES ASSUME Init PROVE IInv
  BY Zenon
<1>1. \A r \in Requests : /\ req[r] = Idle /\ req[r].op = "idle"
                          /\ DOMAIN req[r] = {"op", "pc", "key", "read", "arg"}
  BY Zenon DEF Init, Idle
<1>2. \A k \in Keys : ~Exists(k)
  BY Zenon DEF Init, Exists
<1>3. TypeOK
  BY <1>1, <1>2, CatalogConstants, Zenon DEF Init, TypeOK, ReqTyped
<1>4. \A r \in Requests : Checked(r)
  BY <1>1, Zenon DEF Checked
<1> QED
  BY <1>2, <1>3, <1>4, KeyFacts, Zenon DEF IInv, NamesSound, OneKindPerName, SourceQueued, NoHalfConnect, Named

LEMMA InvNext ==
    IInv /\ [Next]_vars => IInv'
<1> SUFFICES ASSUME IInv, [Next]_vars PROVE IInv'
  BY Zenon
<1>1. TypeOK /\ NamesSound /\ SourceQueued /\ NoHalfConnect /\ \A q \in Requests : Checked(q)
  BY Zenon DEF IInv, NamesSound
<1>2. SecretsTyped /\ DOMAIN objs = Keys
  BY <1>1, Zenon DEF TypeOK, SecretsTyped
<1>3. CASE UNCHANGED vars
  <2>1. SecretsTyped' /\ UNCHANGED <<objs, req, nameMu, failed, queued, tokened>>
    BY <1>2, <1>3, Zenon DEF vars, SecretsTyped
  <2> QED
    BY <1>2, <2>1, OutsideStep, Zenon
<1>4. CASE Next
  <2>1. SecretsTyped'
    BY <1>1, <1>4, SecretsNext, Zenon
  <2>2. ASSUME NEW r \in Requests,
               StartCreate(r) \/ StartEdit(r) \/ StartOther(r) \/ Handler(r) \/ CallFails(r)
        PROVE  IInv'
    <3>1. Effect(r)
      BY <1>1, <2>2, RequestEffect, Zenon
    <3>2. NamesSound' /\ \A q \in Requests : Checked(q)'
      BY <1>1, <2>1, <3>1, NamesStep, Zenon
    <3>3. SourceQueued'
      BY <1>1, <2>2, <3>1, SourceStep, Zenon
    <3>4. NoHalfConnect'
      BY <1>1, <2>2, <3>1, StoreStep, Zenon
    <3> QED
      BY <3>2, <3>3, <3>4, Zenon DEF IInv
  <2>3. ASSUME NEW r \in Requests, Deletes(r)
        PROVE  IInv'
    <3>1. PICK k \in Keys : objs' = [objs EXCEPT ![k] = None] /\ UNCHANGED <<req, nameMu, failed, queued, tokened>>
      BY <2>3, Zenon DEF Deletes
    <3>2. DOMAIN objs' = Keys /\ \A j \in Keys : objs'[j] \in {objs[j], None}
      BY <1>2, <3>1, Zenon
    <3> QED
      BY <2>1, <3>1, <3>2, OutsideStep, Zenon
  <2>4. CASE (\E k \in Keys : Claim(k)) \/ (\E n \in SecretNames : Collect(n))
    <3>1. UNCHANGED <<objs, req, nameMu, failed, queued, tokened>>
      BY <2>4, Zenon DEF Claim, Collect
    <3> QED
      BY <1>2, <2>1, <3>1, OutsideStep, Zenon
  <2> QED
    BY <1>4, <2>2, <2>3, <2>4, NextSplit, Zenon
<1> QED
  BY <1>3, <1>4, Zenon

LEMMA Invariance ==
    Spec => []IInv
  BY InvInit, InvNext, PTL DEF Spec

\* However creates, edits and deletes interleave, the types hold, the lock over
\* names is held exactly across a create, and a name belongs to one kind.
THEOREM NamesStaySound ==
    Spec => []NamesSound
<1>1. IInv => NamesSound
  BY Zenon DEF IInv
<1> QED
  BY <1>1, Invariance, PTL

\* Every source an App is given has a build queued, or the request that gave it is
\* about to queue one, unless a call failed.
THEOREM SourcesQueued ==
    Spec => []SourceQueued
<1>1. IInv => SourceQueued
  BY Zenon DEF IInv
<1> QED
  BY <1>1, Invariance, PTL

(***************************************************************************)
(* What a step does to an object that exists, and to a Secret.             *)
(***************************************************************************)

LEMMA ObjectStep ==
    ASSUME IInv, [Next]_vars, NEW k \in Keys, Exists(k), objs'[k] # None
    PROVE  /\ objs'[k].a = objs[k].a \/ objs'[k].b = objs[k].b
           /\ k \in Databases => objs'[k].a >= objs[k].a
<1>1. TypeOK /\ (\A q \in Requests : Checked(q)) /\ objs[k] \in Objects(k) /\ objs[k].a \in Nat
  BY Zenon DEF IInv, NamesSound, TypeOK, Objects
<1>2. CASE objs'[k] = objs[k]
  BY <1>1, <1>2
<1>3. ASSUME NEW r \in Requests, UpdateWrite(r), objs'[k] # objs[k]
      PROVE  /\ objs'[k].a = objs[k].a \/ objs'[k].b = objs[k].b
             /\ k \in Databases => objs'[k].a >= objs[k].a
  <2>1. k = req[r].key /\ objs[k] = req[r].read /\ req[r].op \in {"edit a", "edit b"}
    BY <1>1, <1>3, UpdateSound, Zenon DEF UpdateWrite
  <2>2. CASE req[r].op = "edit a"
    <3>1. objs'[k].a = req[r].arg /\ objs'[k].b = objs[k].b
      BY <1>1, <1>3, <2>1, <2>2, UpdateSound, Zenon
    <3>2. k \in Databases => req[r].arg >= objs[k].a
      BY <1>1, <2>1, <2>2, Zenon DEF Checked
    <3> QED
      BY <3>1, <3>2, Zenon
  <2>3. CASE req[r].op = "edit b"
    <3>1. objs'[k].a = objs[k].a
      BY <1>1, <1>3, <2>1, <2>3, UpdateSound, Zenon
    <3> QED
      BY <1>1, <3>1
  <2> QED
    BY <2>1, <2>2, <2>3, Zenon
<1>4. ASSUME NEW r \in Requests, SetEnvSpec(r), objs'[k] # objs[k]
      PROVE  objs'[k].a = objs[k].a
  BY <1>1, <1>4, SetEnvSound, Zenon
<1>5. ASSUME NEW r \in Requests,
             \/ CreateNamed(r) \/ EnqueueManualDeploy(r) \/ ConnectStore(r) \/ Rollback(r) \/ SyncCreate(r)
             \/ WriteEnvSecret(r) \/ ConnectToken(r) \/ RotateStore(r) \/ RotateToken(r)
      PROVE  objs'[k] = objs[k]
  <2>1. CASE CreateNamed(r)
    BY <1>1, <2>1, CreateNamedSound, Zenon
  <2>2. CASE ConnectStore(r)
    BY <1>1, <2>2, ConnectStoreSound, Zenon
  <2>3. CASE Rollback(r)
    BY <1>1, <2>3, RollbackSound, Zenon
  <2>4. CASE SyncCreate(r)
    BY <1>1, <2>4, SyncCreateSound, Zenon
  <2>5. CASE EnqueueManualDeploy(r) \/ WriteEnvSecret(r) \/ ConnectToken(r) \/ RotateStore(r) \/ RotateToken(r)
    BY <1>1, <2>5, EnqueueSound, WritesSound, Zenon
  <2> QED
    BY <1>5, <2>1, <2>2, <2>3, <2>4, <2>5, Zenon
<1>6. ASSUME NEW r \in Requests, StartCreate(r) \/ StartEdit(r) \/ StartOther(r) \/ CallFails(r)
      PROVE  objs' = objs
  BY <1>6, Zenon DEF StartCreate, StartEdit, StartOther, SetEnvRead, ConnectCheck, RotateRead, SyncCheck, CallFails
<1>7. ASSUME NEW r \in Requests, Deletes(r)
      PROVE  objs'[k] = objs[k]
  <2>1. PICK j \in Keys : objs' = [objs EXCEPT ![j] = None]
    BY <1>7, Zenon DEF Deletes
  <2> QED
    BY <1>1, <2>1, Zenon DEF TypeOK
<1>8. CASE (\E j \in Keys : Claim(j)) \/ (\E n \in SecretNames : Collect(n)) \/ UNCHANGED vars
  BY <1>2, <1>8, Zenon DEF Claim, Collect, vars
<1>9. ASSUME NEW r \in Requests, Handler(r)
      PROVE  /\ objs'[k].a = objs[k].a \/ objs'[k].b = objs[k].b
             /\ k \in Databases => objs'[k].a >= objs[k].a
  BY <1>1, <1>2, <1>3, <1>4, <1>5, <1>9 DEF Handler
<1> QED
  BY <1>2, <1>6, <1>7, <1>8, <1>9, NextSplit, Zenon

LEMMA SecretStep ==
    ASSUME IInv, [Next]_vars, NEW n \in SecretNames,
           secrets[n] # None, secrets[n].owner \in LiveUids, secrets'[n] # secrets[n]
    PROVE  \E r \in Requests : req[r].op \in {"rotate", "env"} /\ req'[r] # req[r]
<1>1. TypeOK /\ DOMAIN secrets = SecretNames
  BY Zenon DEF IInv, NamesSound, TypeOK
<1>2. ASSUME NEW r \in Requests, WriteEnvSecret(r)
      PROVE  req[r].op = "env" /\ req'[r] # req[r]
  <2>1. req[r].op = "env" /\ req[r].pc = "secret" /\ req'[r].pc = "spec"
    BY <1>1, <1>2, StepRequest, Zenon DEF WriteEnvSecret
  <2> QED
    BY <2>1, Zenon
<1>3. ASSUME NEW r \in Requests, RotateToken(r)
      PROVE  req[r].op = "rotate" /\ req'[r] # req[r]
  <2>1. req[r].op = "rotate" /\ req'[r].op = "idle"
    BY <1>1, <1>3, DoneSound, Zenon DEF RotateToken, Answer
  <2> QED
    BY <2>1, Zenon
<1>4. ASSUME NEW r \in Requests, ConnectToken(r)
      PROVE  FALSE
  BY <1>1, <1>4, Zenon DEF ConnectToken, StrictCreate, Overwrite
<1>5. ASSUME NEW k \in Keys, Claim(k)
      PROVE  FALSE
  BY <1>1, <1>5, Zenon DEF Claim, Overwrite
<1>6. ASSUME NEW m \in SecretNames, Collect(m)
      PROVE  FALSE
  BY <1>1, <1>6, Zenon DEF Collect
<1>7. ASSUME NEW r \in Requests,
             StartCreate(r) \/ StartEdit(r) \/ StartOther(r) \/ Deletes(r) \/ CallFails(r)
      PROVE  FALSE
  BY <1>7, Zenon DEF StartCreate, StartEdit, StartOther, Deletes, CallFails, SetEnvRead, ConnectCheck, RotateRead, SyncCheck
<1>8. ASSUME NEW r \in Requests,
             \/ CreateNamed(r) \/ EnqueueManualDeploy(r) \/ UpdateWrite(r) \/ SetEnvSpec(r)
             \/ ConnectStore(r) \/ Rollback(r) \/ RotateStore(r) \/ SyncCreate(r)
      PROVE  FALSE
  BY <1>8, Zenon DEF CreateNamed, EnqueueManualDeploy, UpdateWrite, SetEnvSpec, ConnectStore, Rollback, RotateStore, SyncCreate
<1>9. ~UNCHANGED vars
  BY Zenon DEF vars
<1> QED
  BY <1>2, <1>3, <1>4, <1>5, <1>6, <1>7, <1>8, <1>9, NextSplit, Zenon DEF Handler

\* The step that ends an environment request is that request's own.
LEMMA EnvStep ==
    ASSUME IInv, [Next]_vars, NEW r \in Requests, req[r].op = "env", req'[r].op = "idle", objs'[App] # objs[App]
    PROVE  SetEnvSpec(r)
<1>1. TypeOK /\ (\A q \in Requests : Checked(q)) /\ App \in Keys
  BY KeyFacts, Zenon DEF IInv, NamesSound
<1>2. req' # req /\ objs' # objs
  BY Zenon
<1>3. ASSUME NEW q \in Requests,
             StartCreate(q) \/ StartEdit(q) \/ StartOther(q) \/ Handler(q) \/ CallFails(q)
      PROVE  q = r
  <2>1. Alone(q)
    BY <1>1, <1>3, RequestEffect, Zenon DEF Effect, Sound
  <2> QED
    BY <2>1, Zenon DEF Alone
<1>4. ~(StartCreate(r) \/ StartEdit(r) \/ StartOther(r) \/ CallFails(r))
  BY <1>2, Zenon DEF StartCreate, StartEdit, StartOther, SetEnvRead, ConnectCheck, RotateRead, SyncCheck, CallFails
<1>5. ~\E q \in Requests : Deletes(q)
  BY <1>2, Zenon DEF Deletes
<1>6. ~(UNCHANGED vars \/ (\E k \in Keys : Claim(k)) \/ (\E n \in SecretNames : Collect(n)))
  BY <1>2, Zenon DEF vars, Claim, Collect
<1>7. Handler(r)
  BY <1>3, <1>4, <1>5, <1>6, NextSplit, Zenon
<1>8. ~EnqueueManualDeploy(r) /\ ~WriteEnvSecret(r)
  BY <1>2, Zenon DEF EnqueueManualDeploy, WriteEnvSecret
<1> QED
  BY <1>7, <1>8, Zenon DEF Handler, CreateNamed, UpdateWrite, ConnectStore, ConnectToken, Rollback, RotateStore,
                    RotateToken, SyncCreate

\* No store is left without its token by a connect that did not fail, and no call
\* takes over a Secret whose owner lives, but a rotation and the environment editor.
THEOREM ConnectsStayWhole ==
    Spec => ConnectsWhole
<1> DEFINE Kept == \A n \in SecretNames :
              (secrets[n] # None /\ secrets[n].owner \in LiveUids /\ secrets'[n] # secrets[n])
              => \E r \in Requests : req[r].op \in {"rotate", "env"} /\ req'[r] # req[r]
<1>1. IInv => NoHalfConnect
  BY Zenon DEF IInv
<1>2. IInv /\ [Next]_vars => [Kept]_vars
  BY SecretStep, Zenon
<1>3. Spec => []NoHalfConnect
  BY <1>1, Invariance, PTL
<1>4. Spec => OwnedSecretKept
  BY <1>2, Invariance, PTL DEF Spec, OwnedSecretKept
<1> QED
  BY <1>3, <1>4, PTL DEF ConnectsWhole

\* An edit changes the one field it names of the version it read: no edit that came
\* between is undone, no storage shrinks, and the environment editor drops no
\* variable it does not manage.
THEOREM EditsStayKept ==
    Spec => EditsKept
<1> DEFINE Merge == \A k \in Keys : (Exists(k) /\ objs'[k] # None /\ objs'[k].uid = objs[k].uid)
                       => objs'[k].a = objs[k].a \/ objs'[k].b = objs[k].b
           Grows == \A k \in Databases : (Exists(k) /\ objs'[k] # None /\ objs'[k].uid = objs[k].uid)
                       => objs'[k].a >= objs[k].a
           Plains == \A r \in Requests, n \in EnvNames :
                       (/\ req[r].op = "env" /\ req'[r].op = "idle" /\ objs'[App] # objs[App]
                        /\ objs[App].b[n] = "plain" /\ n \notin req[r].arg)
                       => objs'[App].b[n] = "plain"
<1>1. IInv /\ [Next]_vars => [Merge]_vars
  BY ObjectStep, Zenon
<1>2. IInv /\ [Next]_vars => [Grows]_vars
  BY ObjectStep, KeyFacts, Zenon DEF Named
<1>3. IInv /\ [Next]_vars => [Plains]_vars
  <2> SUFFICES ASSUME IInv, [Next]_vars, NEW r \in Requests, NEW n \in EnvNames,
                      req[r].op = "env", req'[r].op = "idle", objs'[App] # objs[App],
                      objs[App].b[n] = "plain", n \notin req[r].arg
               PROVE  objs'[App].b[n] = "plain"
    BY Zenon
  <2>1. SetEnvSpec(r) /\ TypeOK
    BY EnvStep, Zenon DEF IInv, NamesSound
  <2>2. objs'[App].b = ReconcileEnvRefs(objs[App].b, req[r].arg)
    BY <2>1, SetEnvSound, Zenon
  <2> QED
    BY <2>2, Zenon DEF ReconcileEnvRefs
<1>4. Spec => EditsMerge
  BY <1>1, Invariance, PTL DEF Spec, EditsMerge
<1>5. Spec => StorageGrows
  BY <1>2, Invariance, PTL DEF Spec, StorageGrows
<1>6. Spec => PlainVariablesKept
  BY <1>3, Invariance, PTL DEF Spec, PlainVariablesKept
<1> QED
  BY <1>4, <1>5, <1>6, PTL DEF EditsKept

(***************************************************************************)
(* The doctors: the inductive invariant.                                   *)
(***************************************************************************)

OneCheck == <<[requires |-> {}, severity |-> "critical"]>>

WalkFields == {"reg", "kind", "fix", "pc", "order", "at", "out", "said", "attempts"}

Probes ==
    [pc : {"none", "create", "wait", "clean"}, absent : BOOLEAN, stamp : Stamps,
     batch : 0..MaxBatches, role : 1..3, legs : Seq(Legs), leaks : Nat, failed : BOOLEAN,
     held : BOOLEAN, gaps : SUBSET (1..MaxBatches)]

\* What DoctorTypeOK says of a walk, and the place the walk is at.
Shaped(w) ==
    /\ DOMAIN w = WalkFields
    /\ w.kind \in {"plain", "netpol"}
    /\ w.pc \in {"plan", "walk", "refused", "done", "killed"}
    /\ w.at \in Nat \ {0}
    /\ DOMAIN w.out = {w.order[n] : n \in 1..(w.at - 1)}
    /\ \A i \in DOMAIN w.out : w.out[i] \in Outcomes
    /\ w.pc = "plan" => w.at = 1

\* The walk of the NetworkPolicy check: its registry has no other check.
Single(w) ==
    w.kind = "netpol" =>
        /\ w.reg = OneCheck /\ w.fix = FALSE
        /\ w.pc # "plan" => w.order = <<1>>
        /\ w.at \in {1, 2}
        /\ w.pc \in IF w.at = 1 THEN {"plan", "walk", "killed"} ELSE {"walk", "done"}

\* Network n has left its mark in the history of q's batch.
Observed(n, q) == (Enforces(n) => q.held) /\ (~Enforces(n) => q.batch \in q.gaps)

\* A pod that bears the name of a canary which q has created was created after q's
\* batch began, by q or by a doctor of the same second.
Watched(q) ==
    \A c \in pods, r \in 1..3 :
        c.name = Name(q, r) /\ q.pc # "clean" /\ (q.pc = "create" => r < q.role)
            => \A n \in c.nets : Observed(n, q)

Heard(q) ==
    /\ q.pc = "create" => Len(q.legs) = 0
    /\ q.pc = "wait" => Len(q.legs) = q.role - 1
    /\ q.pc = "clean" => q.failed \/ Len(q.legs) = 3
    /\ \A r \in 1..Len(q.legs) :
        /\ r = 3 /\ q.legs[r] = "blocked" => q.held
        /\ r \in {2, 3} /\ q.legs[r] = "connected" => q.batch \in q.gaps

\* Each leak counted so far was in an earlier batch of its own.
Counted(q) == ExistsInjection(1..q.leaks, q.gaps \cap (1..(q.batch - 1)))

Going(q) == q.batch \in 1..MaxBatches /\ Observed(net, q) /\ Watched(q) /\ Heard(q) /\ Counted(q)

\* What a Fail needs.
Gapped(q) == ExistsInjection(1..MinLeakBatches, q.gaps) \/ (q.absent /\ q.gaps # {})

Evident(w, q) ==
    /\ q \in Probes
    /\ q.pc # "none" => w.kind = "netpol" /\ w.pc = "walk" /\ w.at = 1 /\ Going(q)
    /\ q.pc = "none" /\ w.kind = "netpol" /\ w.at = 1 /\ w.pc # "killed" =>
           q.leaks = 0 /\ q.gaps = {} /\ q.batch = 0
    /\ w.kind = "netpol" /\ w.at = 2 =>
           /\ q.pc = "none" /\ w.out[1] \in {"pass", "fail", "error"}
           /\ w.out[1] = "pass" => q.held
           /\ w.out[1] = "fail" => Gapped(q)

PodsSound ==
    /\ pods \subseteq Pods
    /\ \A a, b \in pods : a.name = b.name => a = b
    /\ outages \in 0..MaxOutages
    /\ net \in Networks

DoctorInv ==
    /\ DOMAIN probe = DOMAIN walk
    /\ \A p \in DOMAIN walk :
           Shaped(walk[p]) /\ Single(walk[p]) /\ Evident(walk[p], probe[p])
    /\ PodsSound
    /\ NoStrays

-----------------------------------------------------------------------------

LEMMA FewerLeaks ==
    ASSUME NEW n \in Nat, NEW m \in Nat, n <= m, NEW S, NEW T, S \subseteq T,
           ExistsInjection(1..m, S)
    PROVE  ExistsInjection(1..n, T)
<1>1. PICK f \in [1..m -> S] : \A a, b \in 1..m : f[a] = f[b] => a = b
  BY Zenon DEF ExistsInjection, Injection, IsInjective
<1>2. 1..n \subseteq 1..m
  BY SMT
<1> DEFINE g == [i \in 1..n |-> f[i]]
<1>3. g \in [1..n -> T]
  BY <1>2
<1>4. \A a, b \in DOMAIN g : g[a] = g[b] => a = b
  BY <1>1, <1>2
<1>5. QED
  BY <1>3, <1>4, Zenon DEF ExistsInjection, Injection, IsInjective

LEMMA OneMoreLeak ==
    ASSUME NEW n \in Nat, NEW S, NEW T, S \subseteq T, NEW x \in T, x \notin S,
           ExistsInjection(1..n, S)
    PROVE  ExistsInjection(1..(n + 1), T)
<1>1. PICK f \in [1..n -> S] : \A a, b \in 1..n : f[a] = f[b] => a = b
  BY Zenon DEF ExistsInjection, Injection, IsInjective
<1> DEFINE g == [i \in 1..(n + 1) |-> IF i = n + 1 THEN x ELSE f[i]]
<1>2. \A i \in 1..(n + 1) : i = n + 1 \/ i \in 1..n
  BY SMT
<1>3. g \in [1..(n + 1) -> T]
  BY <1>2
<1>4. \A a, b \in 1..(n + 1) : g[a] = g[b] => a = b
  BY <1>1, <1>2
<1>5. QED
  BY <1>3, <1>4, Zenon DEF ExistsInjection, Injection, IsInjective

LEMMA NoLeaks == ASSUME NEW S PROVE ExistsInjection(1..0, S)
<1> DEFINE g == [i \in {} |-> i]
<1>1. g \in [1..0 -> S] /\ \A a, b \in DOMAIN g : g[a] = g[b] => a = b
  BY SMT
<1>2. QED
  BY <1>1, Zenon DEF ExistsInjection, Injection, IsInjective

LEMMA RoleNames ==
    /\ Len(Roles) = 3
    /\ Roles[1] = "control" /\ Roles[2] = "deny-registry" /\ Roles[3] = "deny-egress"
    /\ \A r \in 1..3 : Roles[r] \in Range(Roles)
BY DEF Roles, Range

\* The plan of the registry with the NetworkPolicy check alone.
LEMMA PlanOfOne == Runnable(OneCheck) /\ Plan(OneCheck) = <<1>>
<1>1. Len(OneCheck) = 1 /\ DOMAIN OneCheck = {1} /\ OneCheck[1].requires = {}
  BY DEF OneCheck
<1>2. Range(<<>>) = {}
  BY DEF Range
<1>3. Min({1}) = 1
  BY DEF Min
<1>4. Ready(OneCheck, <<>>) = <<1>>
  <2>1. {i \in DOMAIN OneCheck \ Range(<<>>) : OneCheck[i].requires \subseteq Range(<<>>)} = {1}
    BY <1>1, <1>2
  <2>2. QED
    BY <2>1, <1>3, Zenon DEF Ready
<1>5. 0 \in 0..Len(OneCheck) /\ 1 \in 0..Len(OneCheck) /\ 1 - 1 = 0 /\ 1 # 0
  BY <1>1, SMT
<1>6. \A n \in 0..Len(OneCheck) : n = 0 \/ n = 1
  BY <1>1, SMT
<1>7. <<>> \o <<1>> = <<1>>
  BY SMT
<1> DEFINE Round(f) == [n \in 0..Len(OneCheck) |->
                            IF n = 0 THEN <<>> ELSE f[n - 1] \o Ready(OneCheck, f[n - 1])]
<1>8. PICK g : g = [n \in 0..Len(OneCheck) |-> IF n = 0 THEN <<>> ELSE <<1>>]
  BY Zenon
<1>9. g = Round(g)
  <2>1. g[0] = <<>>
    BY <1>5, <1>8, Zenon
  <2>2. ASSUME NEW n \in 0..Len(OneCheck) PROVE g[n] = Round(g)[n]
    <3>1. CASE n = 0
      BY <2>1, <3>1, <1>5, Zenon
    <3>2. CASE n = 1
      BY <2>1, <3>2, <1>4, <1>5, <1>7, <1>8, Zenon
    <3>3. QED
      BY <1>6, <3>1, <3>2, Zenon
  <2>3. QED
    BY <1>8, <2>2, Zenon
<1>10. PICK plan : plan = (CHOOSE f : f = Round(f)) /\ plan = Round(plan)
  BY <1>9, Zenon
<1>11. plan[0] = <<>> /\ plan[1] = plan[0] \o Ready(OneCheck, plan[0])
  BY <1>5, <1>10, Zenon
<1>12. Plan(OneCheck) = <<1>>
  BY <1>1, <1>4, <1>7, <1>10, <1>11, Zenon DEF Plan
<1>13. ~Missing(OneCheck)
  BY <1>1 DEF Missing
<1>14. Len(<<1>>) = 1
  OBVIOUS
<1>15. QED
  BY <1>1, <1>12, <1>13, <1>14, Zenon DEF Runnable

\* The check needs no other, so it is asked, and its outcome is that of the run.
LEMMA OneIsAsked ==
    /\ \A out : Judge(OneCheck[1], out) = "probe"
    /\ \A out : /\ out[1] \in {"pass", "fail", "error"}
                => /\ ExitCode(OneCheck, out) = 0 => out[1] = "pass"
                   /\ ExitCode(OneCheck, out) = 1 => out[1] = "fail"
<1>1. DOMAIN OneCheck = {1} /\ OneCheck[1].requires = {} /\ OneCheck[1].severity = "critical"
  BY DEF OneCheck
<1>2. ASSUME NEW out PROVE Judge(OneCheck[1], out) = "probe"
  BY <1>1 DEF Judge
<1>3. ASSUME NEW out, out[1] \in {"pass", "fail", "error"}
      PROVE  /\ ExitCode(OneCheck, out) = 0 => out[1] = "pass"
             /\ ExitCode(OneCheck, out) = 1 => out[1] = "fail"
  <2>1. {out[i] : i \in {j \in DOMAIN OneCheck : OneCheck[j].severity = "critical"}} = {out[1]}
    BY <1>1
  <2>2. QED
    BY <2>1, <1>3 DEF ExitCode
<1>4. QED
  BY <1>2, <1>3

-----------------------------------------------------------------------------

LEMMA LaterFields ==
    ASSUME NEW q \in Probes, NEW pc \in {"wait", "clean"}
    PROVE  /\ Later(q, pc) \in Probes
           /\ Later(q, pc).absent = q.absent /\ Later(q, pc).stamp = q.stamp
           /\ Later(q, pc).batch = q.batch /\ Later(q, pc).legs = q.legs
           /\ Later(q, pc).leaks = q.leaks /\ Later(q, pc).failed = q.failed
           /\ Later(q, pc).held = q.held /\ Later(q, pc).gaps = q.gaps
           /\ q.role < 3 => Later(q, pc).pc = q.pc /\ Later(q, pc).role = q.role + 1
           /\ ~(q.role < 3) => Later(q, pc).pc = pc /\ Later(q, pc).role = 1 /\ q.role = 3
<1>1. q.role \in 1..3 /\ 1 \in 1..3 /\ Len(Roles) = 3 /\ pc \in {"none", "create", "wait", "clean"}
  BY RoleNames, SMT DEF Probes
<1>2. (q.role < 3 => q.role + 1 \in 1..3) /\ (~(q.role < 3) => q.role = 3)
  BY <1>1, SMT
<1>3. CASE q.role < 3
  BY <1>1, <1>2, <1>3, Zenon DEF Later, Probes
<1>4. CASE ~(q.role < 3)
  BY <1>1, <1>2, <1>4, Zenon DEF Later, Probes
<1>5. QED
  BY <1>3, <1>4, Zenon

LEMMA LegFields ==
    ASSUME NEW q \in Probes, NEW leg \in Legs
    PROVE  LET l == Told(q, leg) IN
           /\ l \in Probes /\ l.legs = Append(q.legs, leg)
           /\ l.pc = q.pc /\ l.absent = q.absent /\ l.stamp = q.stamp /\ l.batch = q.batch
           /\ l.role = q.role /\ l.leaks = q.leaks /\ l.failed = q.failed
           /\ l.held = q.held /\ l.gaps = q.gaps
BY DEF Probes, Told

LEMMA FailedFields ==
    ASSUME NEW q \in Probes
    PROVE  /\ Failed(q) \in Probes
           /\ Failed(q).pc = "clean" /\ Failed(q).legs = <<>> /\ Failed(q).failed = TRUE
           /\ Failed(q).stamp = q.stamp /\ Failed(q).batch = q.batch /\ Failed(q).leaks = q.leaks
           /\ Failed(q).held = q.held /\ Failed(q).gaps = q.gaps
<1>1. <<>> \in Seq(Legs) /\ 1 \in 1..3
  BY SMT
<1>2. QED
  BY <1>1, Zenon DEF Failed, Probes

LEMMA OverFields ==
    ASSUME NEW q \in Probes
    PROVE  /\ Over(q) \in Probes
           /\ Over(q).pc = "none" /\ Over(q).absent = q.absent
           /\ Over(q).held = q.held /\ Over(q).gaps = q.gaps
<1>1. <<>> \in Seq(Legs) /\ 1 \in 1..3 /\ 0 \in Nat
  BY SMT
<1>2. QED
  BY <1>1, Zenon DEF Over, Probes

\* A batch begins: what is counted so far was in earlier batches.
LEMMA BegunFields ==
    ASSUME NEW q \in Probes, q.batch < MaxBatches
    PROVE  /\ Begun(q) \in Probes
           /\ Begun(q).pc = "create" /\ Begun(q).role = 1 /\ Begun(q).legs = <<>>
           /\ Begun(q).batch = q.batch + 1 /\ Begun(q).leaks = q.leaks
           /\ Begun(q).held = Enforces(net)
           /\ Begun(q).gaps = IF Enforces(net) THEN q.gaps ELSE q.gaps \cup {q.batch + 1}
<1>1. Enforces(net) \in BOOLEAN
  BY DEF Enforces
<1>2. q.batch + 1 \in 1..MaxBatches /\ q.batch + 1 \in 0..MaxBatches
  BY DoctorConstants DEF Probes
<1>3. <<>> \in Seq(Legs) /\ 1 \in 1..3
  OBVIOUS
<1>4. q.gaps \cup {q.batch + 1} \in SUBSET (1..MaxBatches)
  BY <1>2 DEF Probes
<1>5. QED
  BY <1>1, <1>2, <1>3, <1>4, Zenon DEF Begun, Probes

LEMMA BegunGoes ==
    ASSUME NEW q \in Probes, q.batch < MaxBatches,
           ExistsInjection(1..q.leaks, q.gaps \cap (1..q.batch))
    PROVE  /\ Begun(q).batch \in 1..MaxBatches
           /\ Observed(net, Begun(q)) /\ Heard(Begun(q)) /\ Counted(Begun(q))
<1>1. PICK b : b = Begun(q)
  BY Zenon
<1>2. /\ b \in Probes /\ b.pc = "create" /\ b.legs = <<>> /\ b.batch = q.batch + 1
      /\ b.leaks = q.leaks /\ b.held = Enforces(net)
      /\ b.gaps = IF Enforces(net) THEN q.gaps ELSE q.gaps \cup {q.batch + 1}
  BY <1>1, BegunFields, Zenon
<1>3. q.batch \in 0..MaxBatches /\ q.leaks \in Nat
  BY Zenon DEF Probes
<1>4. b.batch \in 1..MaxBatches /\ b.batch - 1 = q.batch /\ q.leaks <= q.leaks
  BY <1>2, <1>3, DoctorConstants, SMT
<1>5. Observed(net, b)
  BY <1>2, Zenon DEF Observed
<1>6. Heard(b)
  <2>1. Len(b.legs) = 0 /\ 1..Len(b.legs) = {}
    BY <1>2, SMT
  <2>2. QED
    BY <1>2, <2>1, Zenon DEF Heard
<1>7. Counted(b)
  <2>1. q.gaps \cap (1..q.batch) \subseteq b.gaps \cap (1..(b.batch - 1))
    BY <1>2, <1>4, Zenon
  <2>2. ExistsInjection(1..q.leaks, b.gaps \cap (1..(b.batch - 1)))
    BY <1>3, <1>4, <2>1, FewerLeaks, SMT
  <2>3. QED
    BY <1>2, <2>2, Zenon DEF Counted
<1>8. QED
  BY <1>1, <1>4, <1>5, <1>6, <1>7, Zenon

\* The walk records an outcome.
LEMMA RecordedWalk ==
    ASSUME NEW w, Shaped(w), w.pc = "walk", NEW outcome \in Outcomes, NEW status
    PROVE  LET r == Recorded(w, outcome, status) IN
           /\ Shaped(r)
           /\ r.kind = w.kind /\ r.reg = w.reg /\ r.fix = w.fix /\ r.pc = w.pc
           /\ r.order = w.order /\ r.at = w.at + 1
           /\ r.out[w.order[w.at]] = outcome
<1>1. PICK r : r = Recorded(w, outcome, status)
  BY Zenon
<1>2. /\ DOMAIN r = WalkFields /\ r.kind = w.kind /\ r.reg = w.reg /\ r.fix = w.fix
      /\ r.pc = w.pc /\ r.order = w.order
      /\ r.at = w.at + 1 /\ r.out = Put(w.out, w.order[w.at], outcome)
  BY <1>1, Zenon DEF Recorded, Shaped, WalkFields, Upcoming
<1>3. w.at \in Nat \ {0}
  BY DEF Shaped
<1>4. /\ DOMAIN r.out = DOMAIN w.out \cup {w.order[w.at]} /\ r.out[w.order[w.at]] = outcome
      /\ \A i \in DOMAIN w.out : r.out[i] \in {outcome, w.out[i]}
  BY <1>2 DEF Put
<1>5. DOMAIN r.out = {r.order[n] : n \in 1..(r.at - 1)}
  <2>1. 1..(r.at - 1) = (1..(w.at - 1)) \cup {w.at}
    BY <1>2, <1>3, SMT
  <2>2. DOMAIN w.out = {w.order[n] : n \in 1..(w.at - 1)}
    BY DEF Shaped
  <2>3. ASSUME NEW A, NEW f, NEW a PROVE {f[n] : n \in A \cup {a}} = {f[n] : n \in A} \cup {f[a]}
    BY Zenon
  <2>4. {r.order[n] : n \in 1..(r.at - 1)} = {w.order[n] : n \in (1..(w.at - 1)) \cup {w.at}}
    BY <1>2, <2>1, Zenon
  <2>5. QED
    BY <1>4, <2>2, <2>3, <2>4, Zenon
<1>6. \A i \in DOMAIN r.out : r.out[i] \in Outcomes
  BY <1>4 DEF Shaped
<1>7. r.at \in Nat \ {0} /\ r.pc = "walk" /\ r.kind \in {"plain", "netpol"}
  BY <1>2, <1>3 DEF Shaped
<1>8. Shaped(r)
  BY <1>2, <1>5, <1>6, <1>7, Zenon DEF Shaped
<1>9. QED
  BY <1>1, <1>2, <1>4, <1>8, Zenon

-----------------------------------------------------------------------------

\* Only process p moves, and only pods that were just created are new.
Moves(p) ==
    /\ DOMAIN walk' = DOMAIN walk /\ DOMAIN probe' = DOMAIN walk
    /\ \A o \in DOMAIN walk : o # p => walk'[o] = walk[o] /\ probe'[o] = probe[o]
    /\ net' = net
    /\ \A c \in pods' : c \in pods \/ c.nets = {net}

\* A process that does not move keeps its evidence.
LEMMA OthersKept ==
    ASSUME DoctorInv, NEW o \in DOMAIN walk, walk'[o] = walk[o], probe'[o] = probe[o],
           net' = net, \A c \in pods' : c \in pods \/ c.nets = {net}
    PROVE  (Shaped(walk[o]) /\ Single(walk[o]) /\ Evident(walk[o], probe[o]))'
<1>1. PICK w, q : w = walk[o] /\ q = probe[o]
  BY Zenon
<1>2. Shaped(w) /\ Single(w) /\ Evident(w, q)
  BY <1>1, Zenon DEF DoctorInv
<1>3. ASSUME q.pc # "none" PROVE Going(q)'
  <2>1. Going(q)
    BY <1>2, <1>3, Zenon DEF Evident
  <2>2. Watched(q)'
    <3>1. SUFFICES ASSUME NEW c \in pods', NEW r \in 1..3, c.name = Name(q, r),
                          q.pc # "clean", q.pc = "create" => r < q.role, NEW n \in c.nets
                   PROVE  Observed(n, q)
      BY Zenon DEF Watched
    <3>2. CASE c \in pods
      BY <3>1, <3>2, <2>1, Zenon DEF Going, Watched
    <3>3. CASE c.nets = {net}
      BY <3>1, <3>3, <2>1, Zenon DEF Going
    <3>4. QED
      BY <3>2, <3>3, Zenon
  <2>3. QED
    BY <2>1, <2>2, Zenon DEF Going, Heard, Counted
<1>4. Evident(w, q)'
  BY <1>2, <1>3, Zenon DEF Evident
<1>5. QED
  BY <1>1, <1>2, <1>4, Zenon

LEMMA OneMoves ==
    ASSUME DoctorInv, NEW p \in DOMAIN walk, Moves(p), Shaped(walk'[p]), Single(walk'[p]),
           Evident(walk[p], probe[p])', PodsSound', NoStrays'
    PROVE  DoctorInv'
<1>1. \A o \in DOMAIN walk' : (Shaped(walk[o]) /\ Single(walk[o]) /\ Evident(walk[o], probe[o]))'
  BY OthersKept, Zenon DEF Moves
<1>2. QED
  BY <1>1, Zenon DEF DoctorInv, Moves

\* The steps of the walk itself, which leave probes and pods alone.
LEMMA WalkMoves ==
    ASSUME DoctorInv, NEW p \in DOMAIN walk, NEW w, walk' = [walk EXCEPT ![p] = w],
           UNCHANGED <<probe, pods, net, strays, outages>>,
           Shaped(w), Single(w), Evident(w, probe[p])
    PROVE  DoctorInv'
<1>1. walk'[p] = w /\ Moves(p)
  BY Zenon DEF Moves, DoctorInv
<1>2. Evident(walk[p], probe[p])'
  BY <1>1, Zenon DEF Evident, Going, Observed, Watched, Heard, Counted
<1>3. PodsSound'
  BY Zenon DEF DoctorInv, PodsSound
<1>4. NoStrays'
  <2>1. DOMAIN walk' = DOMAIN walk /\ NoStrays
    BY <1>1, Zenon DEF DoctorInv, Moves
  <2>2. QED
    BY <2>1, SMT DEF NoStrays
<1>5. QED
  BY <1>1, <1>2, <1>3, <1>4, OneMoves, Zenon

LEMMA PlainQuiet ==
    ASSUME NEW w, NEW q, NEW v, Evident(w, q), w.kind = "plain", v.kind = "plain"
    PROVE  Single(v) /\ Evident(v, q)
BY Zenon DEF Evident, Single

LEMMA PlanStep ==
    ASSUME DoctorInv, NEW p \in DOMAIN walk, MakePlan(p)
    PROVE  DoctorInv'
<1>1. PICK w : w = walk[p]
  BY Zenon
<1> DEFINE runs == Runnable(w.reg)
<1>2. Shaped(w) /\ Single(w) /\ Evident(w, probe[p]) /\ w.pc = "plan"
  BY <1>1, Zenon DEF DoctorInv, MakePlan
<1>3. PICK v : /\ v = [w EXCEPT !.pc = IF runs THEN "walk" ELSE "refused",
                                !.order = IF runs THEN Plan(w.reg) ELSE <<>>]
               /\ walk' = [walk EXCEPT ![p] = v]
  BY <1>1, Zenon DEF MakePlan
<1>4. /\ DOMAIN v = WalkFields /\ v.reg = w.reg /\ v.kind = w.kind /\ v.fix = w.fix
      /\ v.at = w.at /\ v.out = w.out
      /\ v.pc = (IF runs THEN "walk" ELSE "refused")
      /\ v.order = (IF runs THEN Plan(w.reg) ELSE <<>>)
  BY <1>2, <1>3, Zenon DEF Shaped, WalkFields
<1>5. Shaped(v)
  <2>1. w.at = 1 /\ DOMAIN w.out = {w.order[n] : n \in 1..(w.at - 1)}
    BY <1>2, Zenon DEF Shaped
  <2>2. 1..(w.at - 1) = {}
    BY <2>1
  <2>3. DOMAIN v.out = {v.order[n] : n \in 1..(v.at - 1)}
    BY <2>1, <2>2, <1>4, Zenon
  <2>4. QED
    BY <2>1, <2>3, <1>2, <1>4, Zenon DEF Shaped
<1>6. CASE w.kind = "plain"
  <2>1. Single(v) /\ Evident(v, probe[p])
    BY <1>2, <1>4, <1>6, PlainQuiet, Zenon
  <2>2. UNCHANGED <<probe, pods, net, strays, outages>>
    BY Zenon DEF MakePlan
  <2>3. QED
    BY <1>3, <1>5, <2>1, <2>2, WalkMoves, Zenon
<1>7. CASE w.kind = "netpol"
  <2>1. w.reg = OneCheck /\ w.fix = FALSE /\ w.at = 1
    BY <1>2, <1>7, Zenon DEF Single, Shaped
  <2>2. v.pc = "walk" /\ v.order = <<1>>
    BY <2>1, <1>4, PlanOfOne, Zenon
  <2>3. Single(v)
    BY <2>1, <2>2, <1>4, SMT DEF Single
  <2>4. Evident(v, probe[p])
    BY <2>1, <2>2, <1>2, <1>4, <1>7, Zenon DEF Evident
  <2>5. QED
    BY <1>3, <1>5, <2>3, <2>4, WalkMoves, Zenon DEF MakePlan
<1>8. QED
  BY <1>2, <1>6, <1>7, Zenon DEF Shaped

LEMMA AskedWalk ==
    ASSUME DoctorInv, NEW p \in DOMAIN walk, Asking(p), walk[p].kind = "netpol"
    PROVE  walk[p].at = 1 /\ walk[p].order = <<1>> /\ Ask(walk[p]) = "probe"
<1>1. Single(walk[p]) /\ walk[p].pc = "walk" /\ walk[p].at <= Len(walk[p].order)
  BY Zenon DEF DoctorInv, Asking
<1>2. walk[p].reg = OneCheck /\ walk[p].order = <<1>> /\ walk[p].at \in {1, 2}
  BY <1>1, Zenon DEF Single
<1>3. walk[p].at = 1
  BY <1>1, <1>2, SMT
<1>4. walk[p].order[1] = 1
  BY <1>2, SMT
<1>5. QED
  BY <1>2, <1>3, <1>4, OneIsAsked, Zenon DEF Ask, Upcoming

LEMMA JudgeStep ==
    ASSUME DoctorInv, NEW p \in DOMAIN walk, NotProbed(p) \/ PlainProbe(p)
    PROVE  DoctorInv'
<1>1. Shaped(walk[p]) /\ Evident(walk[p], probe[p]) /\ Asking(p) /\ walk[p].pc = "walk"
  BY Zenon DEF DoctorInv, NotProbed, PlainProbe, Asking
<1>2. walk[p].kind = "plain"
  BY <1>1, AskedWalk, Zenon DEF NotProbed, PlainProbe, Shaped
<1>3. PICK outcome \in Outcomes, status \in Statuses \cup {"none"} :
          walk' = [walk EXCEPT ![p] = Recorded(walk[p], outcome, status)]
  <2>1. CASE NotProbed(p)
    <3>1. Ask(walk[p]) \in {"blocked", "skip"}
      BY <2>1, Zenon DEF NotProbed, Ask, Judge
    <3>2. Ask(walk[p]) \in Outcomes
      BY <3>1, Zenon DEF Outcomes, Statuses
    <3>3. QED
      BY <2>1, <3>2, Zenon DEF NotProbed
  <2>2. CASE PlainProbe(p)
    BY <2>2, Zenon DEF PlainProbe, Outcomes
  <2>3. QED
    BY <2>1, <2>2
<1>4. PICK v : v = Recorded(walk[p], outcome, status)
  BY Zenon
<1>5. Shaped(v) /\ v.kind = "plain"
  BY <1>1, <1>2, <1>4, RecordedWalk
<1>6. Single(v) /\ Evident(v, probe[p])
  BY <1>1, <1>2, <1>5, PlainQuiet, Zenon
<1>7. UNCHANGED <<probe, pods, net, strays, outages>>
  BY Zenon DEF NotProbed, PlainProbe
<1>8. QED
  BY <1>3, <1>4, <1>5, <1>6, <1>7, WalkMoves, Zenon

LEMMA FinishStep ==
    ASSUME DoctorInv, NEW p \in DOMAIN walk, FinishRun(p)
    PROVE  DoctorInv'
<1>1. PICK w : w = walk[p]
  BY Zenon
<1>2. Shaped(w) /\ Single(w) /\ Evident(w, probe[p]) /\ w.pc = "walk" /\ w.at > Len(w.order)
  BY <1>1, Zenon DEF DoctorInv, FinishRun
<1>3. UNCHANGED <<probe, pods, net, strays, outages>>
  BY Zenon DEF FinishRun
<1>4. CASE w.fix /\ w.attempts = {} /\ ToFix(w) # {}
  <2>1. PICK again :
            /\ again = [w EXCEPT !.attempts = ToFix(w), !.at = 1, !.out = <<>>, !.said = <<>>]
            /\ walk' = [walk EXCEPT ![p] = again]
    BY <1>1, <1>4, Zenon DEF FinishRun
  <2>2. /\ DOMAIN again = WalkFields /\ again.kind = w.kind /\ again.pc = w.pc
        /\ again.at = 1 /\ again.out = <<>> /\ again.order = w.order
    BY <1>2, <2>1, Zenon DEF Shaped, WalkFields
  <2>3. 1..(again.at - 1) = {} /\ again.at \in Nat \ {0} /\ DOMAIN again.out = {}
    BY <2>2
  <2>4. Shaped(again)
    BY <1>2, <2>2, <2>3, Zenon DEF Shaped
  <2>5. w.kind = "plain"
    BY <1>2, <1>4, Zenon DEF Single, Shaped
  <2>6. QED
    <3>1. Single(again) /\ Evident(again, probe[p])
      BY <1>2, <2>2, <2>5, PlainQuiet, Zenon
    <3>2. QED
      BY <1>3, <2>1, <2>4, <3>1, WalkMoves, Zenon
<1>5. CASE ~(w.fix /\ w.attempts = {} /\ ToFix(w) # {})
  <2>1. PICK done : done = [w EXCEPT !.pc = "done"] /\ walk' = [walk EXCEPT ![p] = done]
    BY <1>1, <1>5, Zenon DEF FinishRun
  <2>2. /\ DOMAIN done = WalkFields /\ done.kind = w.kind /\ done.pc = "done" /\ done.reg = w.reg
        /\ done.fix = w.fix /\ done.at = w.at /\ done.out = w.out /\ done.order = w.order
    BY <1>2, <2>1, Zenon DEF Shaped, WalkFields
  <2>3. Shaped(done)
    BY <1>2, <2>2, Zenon DEF Shaped
  <2>4. w.kind = "netpol" => w.at = 2
    <3>1. SUFFICES ASSUME w.kind = "netpol" PROVE w.at = 2
      OBVIOUS
    <3>2. w.order = <<1>> /\ w.at \in {1, 2}
      BY <1>2, <3>1, Zenon DEF Single
    <3>3. QED
      BY <1>2, <3>2, SMT
  <2>5. Single(done) /\ Evident(done, probe[p])
    <3>1. Single(done)
      BY <1>2, <2>2, <2>4, SMT DEF Single
    <3>2. Evident(done, probe[p])
      BY <1>2, <2>2, <2>4, Zenon DEF Evident
    <3>3. QED
      BY <3>1, <3>2
  <2>6. QED
    BY <1>3, <2>1, <2>3, <2>5, WalkMoves, Zenon
<1>6. QED
  BY <1>4, <1>5

-----------------------------------------------------------------------------

\* p's own part of a step of its probe.
LEMMA ProbeMoves ==
    ASSUME DoctorInv, NEW p \in DOMAIN walk, NEW q \in Probes, walk' = walk,
           probe' = [probe EXCEPT ![p] = q], net' = net,
           \A c \in pods' : c \in pods \/ c.nets = {net},
           q.pc # "none", walk[p].kind = "netpol", walk[p].pc = "walk", walk[p].at = 1,
           q.batch \in 1..MaxBatches, Observed(net, q), Heard(q), Counted(q), Watched(q)',
           PodsSound', NoStrays'
    PROVE  DoctorInv'
<1>1. probe'[p] = q /\ Moves(p)
  BY Zenon DEF Moves, DoctorInv
<1>2. Shaped(walk'[p]) /\ Single(walk'[p])
  BY Zenon DEF DoctorInv
<1>3. Going(q)'
  BY Zenon DEF Going, Observed, Heard, Counted
<1>4. Evident(walk[p], q)'
  <2>1. walk[p].at # 2
    BY SMT
  <2>2. QED
    BY <1>3, <2>1, Zenon DEF Evident
<1>5. Evident(walk[p], probe[p])'
  BY <1>1, <1>4, Zenon
<1>6. QED
  BY <1>1, <1>2, <1>5, OneMoves, Zenon

\* p's own part of a step that ends its probe with an outcome.
LEMMA ConcludeMoves ==
    ASSUME DoctorInv, NEW p \in DOMAIN walk, Asking(p), walk[p].kind = "netpol",
           NEW q \in Probes, NEW status \in {"pass", "fail", "error"},
           walk' = [walk EXCEPT ![p] = Recorded(walk[p], status, status)],
           DOMAIN probe' = DOMAIN walk, probe'[p] = q,
           \A o \in DOMAIN walk : o # p => probe'[o] = probe[o], net' = net, pods' \subseteq pods,
           q.pc = "none", status = "pass" => q.held, status = "fail" => Gapped(q),
           PodsSound', NoStrays'
    PROVE  DoctorInv'
<1>1. PICK w, v : w = walk[p] /\ v = Recorded(w, status, status)
  BY Zenon
<1>2. walk'[p] = v /\ probe'[p] = q /\ Moves(p)
  BY <1>1, Zenon DEF Moves, DoctorInv
<1>3. Shaped(w) /\ Single(w) /\ w.pc = "walk" /\ w.at = 1 /\ w.order = <<1>> /\ status \in Outcomes
  BY <1>1, AskedWalk, Zenon DEF DoctorInv, Asking, Outcomes, Statuses
<1>4. /\ Shaped(v) /\ v.kind = "netpol" /\ v.reg = w.reg /\ v.fix = w.fix /\ v.pc = "walk"
      /\ v.order = <<1>> /\ v.at = w.at + 1 /\ v.out[w.order[w.at]] = status
  BY <1>1, <1>3, RecordedWalk
<1>5. v.at = 2 /\ v.out[1] = status
  <2>1. w.order[w.at] = 1 /\ w.at + 1 = 2
    BY <1>3, SMT
  <2>2. QED
    BY <2>1, <1>4, Zenon
<1>6. v.at # 1
  BY <1>5, SMT
<1>7. Single(v)
  BY <1>1, <1>3, <1>4, <1>5, <1>6, Zenon DEF Single
<1>8. Evident(v, q)'
  BY <1>4, <1>5, <1>6, Zenon DEF Evident
<1>9. Evident(walk[p], probe[p])'
  BY <1>2, <1>8, Zenon
<1>10. QED
  BY <1>2, <1>4, <1>7, <1>9, OneMoves, Zenon

LEMMA StartStep ==
    ASSUME DoctorInv, NEW p \in DOMAIN walk, StartProbe(p)
    PROVE  DoctorInv'
<1>1. PICK w, q : w = walk[p] /\ q = probe[p]
  BY Zenon
<1>2. /\ Asking(p) /\ w.kind = "netpol" /\ q.pc = "none" /\ w.pc = "walk" /\ w.at = 1
      /\ net' = net /\ outages' = outages
  BY <1>1, AskedWalk, Zenon DEF StartProbe, At, Asking
<1>3. q \in Probes /\ q.leaks = 0 /\ q.gaps = {} /\ q.batch = 0
  BY <1>1, <1>2, Zenon DEF DoctorInv, Evident
<1>4. CASE /\ walk' = [walk EXCEPT ![p] = Recorded(@, "error", "error")]
           /\ UNCHANGED <<probe, pods, strays>>
  <2>1. /\ walk' = [walk EXCEPT ![p] = Recorded(walk[p], "error", "error")]
        /\ DOMAIN probe' = DOMAIN walk /\ probe' = probe /\ pods' \subseteq pods
    BY <1>4, Zenon DEF DoctorInv
  <2>2. PodsSound'
    BY <1>2, <1>4, Zenon DEF DoctorInv, PodsSound
  <2>3. NoStrays'
    BY <1>2, <1>4, Zenon DEF DoctorInv, NoStrays
  <2>4. QED
    BY <1>1, <1>2, <1>3, <2>1, <2>2, <2>3, ConcludeMoves, Zenon
<1>5. CASE /\ \E absent \in {FALSE, net.policies = "none"} :
                  probe' = [probe EXCEPT ![p] = Begun([@ EXCEPT !.absent = absent])]
           /\ pods' = {} /\ strays' = {}
           /\ UNCHANGED walk
  <2>1. PICK absent \in BOOLEAN :
            probe' = [probe EXCEPT ![p] = Begun([q EXCEPT !.absent = absent])]
    BY <1>1, <1>5, Zenon
  <2>2. PICK m, b : m = [q EXCEPT !.absent = absent] /\ b = Begun(m)
    BY Zenon
  <2>3. m \in Probes /\ m.leaks = 0 /\ m.gaps = {} /\ m.batch = 0
    BY <1>3, <2>2, Zenon DEF Probes
  <2>4. m.batch < MaxBatches
    BY <2>3, DoctorConstants
  <2>5. ExistsInjection(1..m.leaks, m.gaps \cap (1..m.batch))
    BY <2>3, NoLeaks, Zenon
  <2>6. b \in Probes /\ b.pc = "create" /\ b.role = 1
    BY <2>3, <2>4, <2>2, BegunFields, Zenon
  <2>7. /\ b.batch \in 1..MaxBatches
        /\ Observed(net, b) /\ Heard(b) /\ Counted(b)
    BY <2>3, <2>4, <2>5, <2>2, BegunGoes, Zenon
  <2>8. Watched(b)' /\ NoStrays' /\ \A c \in pods' : c \in pods \/ c.nets = {net}
    BY <1>5, Zenon DEF Watched, NoStrays
  <2>9. PodsSound'
    BY <1>2, <1>5, Zenon DEF PodsSound, DoctorInv
  <2>10. QED
    BY <1>1, <1>2, <1>5, <2>1, <2>6, <2>7, <2>8, <2>9, <2>2, ProbeMoves, Zenon
<1>6. QED
  BY <1>4, <1>5, Zenon DEF StartProbe

LEMMA StraysKept ==
    ASSUME DoctorInv, NEW p \in DOMAIN walk, NEW q, walk' = walk,
           probe' = [probe EXCEPT ![p] = q], strays' = strays,
           q.stamp = probe[p].stamp, q.batch = probe[p].batch,
           q.pc \in {"create", "wait", "clean"},
           \A c \in pods' : c \in pods \/ \E r \in 1..3 : c.name = Name(q, r)
    PROVE  NoStrays'
<1>1. SUFFICES ASSUME NEW c \in pods', c.name \notin strays
               PROVE  \E o \in DOMAIN walk, r \in 1..3 :
                          /\ c.name = Name(probe'[o], r)
                          /\ probe'[o].pc \in {"create", "wait", "clean"}
  BY Zenon DEF NoStrays
<1>2. probe'[p] = q /\ \A o \in DOMAIN walk : o # p => probe'[o] = probe[o]
  BY Zenon DEF DoctorInv
<1>3. CASE c \in pods
  <2>1. PICK o \in DOMAIN walk, r \in 1..3 :
            c.name = Name(probe[o], r) /\ probe[o].pc \in {"create", "wait", "clean"}
    BY <1>1, <1>3, Zenon DEF DoctorInv, NoStrays
  <2>2. CASE o = p
    <3>1. c.name = Name(q, r)
      BY <2>1, <2>2, Zenon DEF Name
    <3>2. QED
      BY <3>1, <1>2, Zenon
  <2>3. CASE o # p
    BY <2>1, <2>3, <1>2, Zenon
  <2>4. QED
    BY <2>2, <2>3
<1>4. CASE \E r \in 1..3 : c.name = Name(q, r)
  BY <1>2, <1>4, Zenon
<1>5. QED
  BY <1>3, <1>4, Zenon

LEMMA SameEvidence ==
    ASSUME NEW q, NEW l, l.batch = q.batch, l.held = q.held, l.gaps = q.gaps
    PROVE  \A n : Observed(n, q) => Observed(n, l)
BY Zenon DEF Observed

\* What is known while a batch goes on.
LEMMA Active ==
    ASSUME DoctorInv, NEW p \in DOMAIN walk, probe[p].pc # "none"
    PROVE  /\ probe[p] \in Probes /\ walk[p].kind = "netpol" /\ walk[p].pc = "walk"
           /\ walk[p].at = 1 /\ Going(probe[p])
BY Zenon DEF DoctorInv, Evident

LEMMA FailMoves ==
    ASSUME DoctorInv, NEW p \in DOMAIN walk, probe[p].pc \in {"create", "wait"},
           probe' = [probe EXCEPT ![p] = Failed(@)],
           UNCHANGED <<walk, pods, net, strays, outages>>
    PROVE  DoctorInv'
<1>1. PICK q, f : q = probe[p] /\ f = Failed(q)
  BY Zenon
<1>2. /\ q \in Probes /\ walk[p].kind = "netpol" /\ walk[p].pc = "walk" /\ walk[p].at = 1
      /\ Going(q)
  BY <1>1, Active, Zenon
<1>3. /\ f \in Probes /\ f.pc = "clean" /\ f.legs = <<>> /\ f.failed = TRUE
      /\ f.stamp = q.stamp /\ f.batch = q.batch /\ f.leaks = q.leaks
      /\ f.held = q.held /\ f.gaps = q.gaps
  BY <1>1, <1>2, FailedFields, Zenon
<1>4. probe' = [probe EXCEPT ![p] = f]
  BY <1>1, Zenon
<1>5. f.batch \in 1..MaxBatches /\ Observed(net, f) /\ Counted(f)
  BY <1>2, <1>3, SameEvidence, Zenon DEF Going, Counted
<1>6. Heard(f)
  <2>1. 1..Len(f.legs) = {}
    BY <1>3
  <2>2. QED
    BY <1>3, <2>1, Zenon DEF Heard
<1>7. Watched(f)'
  BY <1>3, Zenon DEF Watched
<1>8. PodsSound'
  BY Zenon DEF DoctorInv, PodsSound
<1>9. NoStrays'
  BY <1>1, <1>3, <1>4, StraysKept, Zenon
<1>10. QED
  BY <1>2, <1>3, <1>4, <1>5, <1>6, <1>7, <1>8, <1>9, ProbeMoves, Zenon

LEMMA CreateStep ==
    ASSUME DoctorInv, NEW p \in DOMAIN walk, CreateCanary(p)
    PROVE  DoctorInv'
<1>1. PICK q, name, l, pod : /\ q = probe[p] /\ name = Name(q, q.role) /\ l = Later(q, "wait")
                            /\ pod = [name |-> name, nets |-> {net}]
  BY Zenon
<1>2. /\ q \in Probes /\ walk[p].kind = "netpol" /\ walk[p].pc = "walk" /\ walk[p].at = 1
      /\ Going(q) /\ q.pc = "create"
  BY <1>1, Active, Zenon DEF CreateCanary, At
<1>3. UNCHANGED <<walk, net, strays, outages>>
  BY Zenon DEF CreateCanary
<1>4. CASE \E c \in pods : c.name = name
  <2>1. probe' = [probe EXCEPT ![p] = Failed(@)] /\ pods' = pods
    BY <1>1, <1>4, Zenon DEF CreateCanary
  <2>2. QED
    BY <1>1, <1>2, <1>3, <2>1, FailMoves, Zenon
<1>5. CASE ~\E c \in pods : c.name = name
  <2>1. probe' = [probe EXCEPT ![p] = l] /\ pods' = pods \cup {pod}
    BY <1>1, <1>5, Zenon DEF CreateCanary
  <2>2. /\ l \in Probes /\ l.stamp = q.stamp /\ l.batch = q.batch /\ l.legs = q.legs
        /\ l.leaks = q.leaks /\ l.held = q.held /\ l.gaps = q.gaps
        /\ q.role < 3 => l.pc = "create" /\ l.role = q.role + 1
        /\ ~(q.role < 3) => l.pc = "wait" /\ l.role = 1 /\ q.role = 3
    BY <1>1, <1>2, LaterFields, Zenon
  <2>3. pod.name = name /\ pod.nets = {net} /\ q.role \in 1..3
    BY <1>1, <1>2, Zenon DEF Probes
  <2>4. l.batch \in 1..MaxBatches /\ Observed(net, l) /\ Counted(l)
    BY <1>2, <2>2, SameEvidence, Zenon DEF Going, Counted
  <2>5. Len(l.legs) = 0 /\ l.pc \in {"create", "wait"} /\ (l.pc = "wait" => l.role = 1)
    BY <1>2, <2>2, Zenon DEF Going, Heard
  <2>6. Heard(l)
    <3>1. 1..Len(l.legs) = {} /\ (l.pc = "wait" => Len(l.legs) = l.role - 1)
      BY <2>5, SMT
    <3>2. QED
      BY <2>5, <3>1, Zenon DEF Heard
  <2>7. Watched(l)'
    <3>1. SUFFICES ASSUME NEW c \in pods', NEW r \in 1..3, c.name = Name(l, r),
                          l.pc = "create" => r < l.role, NEW n \in c.nets
                   PROVE  Observed(n, l)
      BY Zenon DEF Watched
    <3>2. CASE c \in pods
      <4>1. c.name = Name(q, r)
        BY <3>1, <2>2, Zenon DEF Name
      <4>2. r # q.role
        BY <4>1, <3>2, <1>1, <1>5, Zenon
      <4>3. r < q.role
        BY <4>2, <2>2, <2>3, <3>1, SMT
      <4>4. Observed(n, q)
        BY <4>1, <4>3, <3>1, <3>2, <1>2, Zenon DEF Going, Watched
      <4>5. QED
        BY <4>4, <2>2, SameEvidence, Zenon
    <3>3. CASE c = pod
      BY <3>1, <3>3, <2>3, <2>4, Zenon
    <3>4. QED
      BY <3>2, <3>3, <2>1, Zenon
  <2>8. PodsSound'
    <3>1. name \in PodNames
      <4>1. q.stamp \in Stamps /\ q.batch \in 1..MaxBatches /\ Roles[q.role] \in Range(Roles)
        BY <1>2, <2>3, RoleNames, Zenon DEF Probes, Going
      <4>2. QED
        BY <4>1, <1>1, Zenon DEF Name, PodNames
    <3>2. net \in Networks /\ pods \subseteq Pods /\ outages \in 0..MaxOutages
          /\ \A a, b \in pods : a.name = b.name => a = b
      BY Zenon DEF DoctorInv, PodsSound
    <3>3. pod \in Pods
      BY <3>1, <3>2, <1>1, Zenon DEF Pods
    <3>4. \A a, b \in pods' : a.name = b.name => a = b
      BY <3>2, <2>1, <2>3, <1>5, Zenon
    <3>5. QED
      BY <3>2, <3>3, <3>4, <2>1, <1>3, Zenon DEF PodsSound
  <2>9. NoStrays'
    <3>1. pod.name = Name(l, q.role)
      BY <2>2, <2>3, <1>1, Zenon DEF Name
    <3>2. \A c \in pods' : c \in pods \/ \E r \in 1..3 : c.name = Name(l, r)
      BY <3>1, <2>1, <2>3, Zenon
    <3>3. l.stamp = probe[p].stamp /\ l.batch = probe[p].batch /\ l.pc \in {"create", "wait", "clean"}
      BY <1>1, <2>2, <2>5, Zenon
    <3>4. QED
      BY <3>2, <3>3, <1>3, <2>1, StraysKept, Zenon
  <2>10. \A c \in pods' : c \in pods \/ c.nets = {net}
    BY <2>1, <2>3, Zenon
  <2>11. l.pc # "none"
    BY <2>5, Zenon
  <2>12. QED
    BY <1>2, <1>3, <2>1, <2>2, <2>4, <2>6, <2>7, <2>8, <2>9, <2>10, <2>11, ProbeMoves, Zenon
<1>6. QED
  BY <1>4, <1>5

LEMMA GiveUpStep ==
    ASSUME DoctorInv, NEW p \in DOMAIN walk, GiveUp(p)
    PROVE  DoctorInv'
BY FailMoves, Zenon DEF GiveUp, Bounded

\* What a canary that ran in network n says of n.
LEMMA LegEvidence ==
    ASSUME NEW q, NEW n, Observed(n, q), NEW r \in 1..3, NEW ran \in BOOLEAN
    PROVE  LET leg == Classify(ran, Connects(Roles[r], n)) IN
           /\ leg \in Legs
           /\ r = 3 /\ leg = "blocked" => q.held
           /\ r \in {2, 3} /\ leg = "connected" => q.batch \in q.gaps
<1> DEFINE leg == Classify(ran, Connects(Roles[r], n))
<1>1. leg \in Legs
  BY Zenon DEF Classify, Legs
<1>2. leg = "blocked" => ~Connects(Roles[r], n)
  BY Zenon DEF Classify
<1>3. leg = "connected" => Connects(Roles[r], n)
  BY Zenon DEF Classify
<1>4. r = 3 => (Connects(Roles[r], n) <=> ~Enforces(n))
  <2>1. Roles[3] = "deny-egress"
    BY RoleNames, Zenon
  <2>2. Connects("deny-egress", n) <=> ~Enforces(n)
    BY Zenon DEF Connects
  <2>3. QED
    BY <2>1, <2>2, Zenon
<1>5. r = 2 => (Connects(Roles[r], n) => ~Enforces(n))
  <2>1. Roles[2] = "deny-registry"
    BY RoleNames, Zenon
  <2>2. Connects("deny-registry", n) => ~Enforces(n)
    BY Zenon DEF Connects
  <2>3. QED
    BY <2>1, <2>2, Zenon
<1>6. QED
  BY <1>1, <1>2, <1>3, <1>4, <1>5, Zenon DEF Observed

LEMMA WaitStep ==
    ASSUME DoctorInv, NEW p \in DOMAIN walk, WaitCanary(p)
    PROVE  DoctorInv'
<1>1. PICK q : q = probe[p]
  BY Zenon
<1>2. /\ q \in Probes /\ walk[p].kind = "netpol" /\ walk[p].pc = "walk" /\ walk[p].at = 1
      /\ Going(q) /\ q.pc = "wait"
  BY <1>1, Active, Zenon DEF WaitCanary, At
<1>3. UNCHANGED <<walk, pods, net, strays>>
  BY Zenon DEF WaitCanary
<1>4. PICK c \in pods : \E n \in c.nets, ran \in BOOLEAN :
              /\ c.name = Name(q, q.role)
              /\ ran \/ outages < MaxOutages
              /\ outages' = IF ran THEN outages ELSE outages + 1
              /\ probe' = [probe EXCEPT ![p] =
                     Later(Told(@, Classify(ran, Connects(c.name.role, n))), "clean")]
  BY <1>1, Zenon DEF WaitCanary
<1>5. PICK n \in c.nets, ran \in BOOLEAN :
          /\ c.name = Name(q, q.role)
          /\ ran \/ outages < MaxOutages
          /\ outages' = IF ran THEN outages ELSE outages + 1
          /\ probe' = [probe EXCEPT ![p] =
                 Later(Told(@, Classify(ran, Connects(c.name.role, n))), "clean")]
  BY <1>4, Zenon
<1>6. PICK leg, m : /\ leg = Classify(ran, Connects(Roles[q.role], n))
                   /\ m = Told(q, leg)
  BY Zenon
<1>7. q.role \in 1..3 /\ q.legs \in Seq(Legs) /\ Len(q.legs) = q.role - 1
  BY <1>2, Zenon DEF Probes, Going, Heard
<1>8. c.name.role = Roles[q.role]
  BY <1>5 DEF Name
<1>9. PICK l : /\ l = Later(Told(probe[p], Classify(ran, Connects(c.name.role, n))), "clean")
               /\ probe' = [probe EXCEPT ![p] = l]
  BY <1>5, Zenon
<1>10. l = Later(m, "clean")
  <2>1. Classify(ran, Connects(c.name.role, n)) = leg
    BY <1>8, <1>6, Zenon
  <2>2. QED
    BY <2>1, <1>9, <1>1, <1>6, Zenon
<1>11. Observed(n, q)
  BY <1>2, <1>5, <1>7, Zenon DEF Going, Watched
<1>12. /\ leg \in Legs
       /\ q.role = 3 /\ leg = "blocked" => q.held
       /\ q.role \in {2, 3} /\ leg = "connected" => q.batch \in q.gaps
  BY <1>7, <1>11, <1>6, LegEvidence, Zenon
<1>13. /\ m \in Probes /\ m.legs = Append(q.legs, leg) /\ m.pc = "wait" /\ m.stamp = q.stamp
       /\ m.batch = q.batch /\ m.role = q.role /\ m.leaks = q.leaks
       /\ m.held = q.held /\ m.gaps = q.gaps
  BY <1>2, <1>12, <1>6, LegFields, Zenon
<1>14. /\ l \in Probes /\ l.legs = Append(q.legs, leg) /\ l.stamp = q.stamp
       /\ l.batch = q.batch /\ l.leaks = q.leaks /\ l.held = q.held /\ l.gaps = q.gaps
       /\ q.role < 3 => l.pc = "wait" /\ l.role = q.role + 1
       /\ ~(q.role < 3) => l.pc = "clean" /\ l.role = 1 /\ q.role = 3
  <2>1. /\ l \in Probes /\ l.legs = m.legs /\ l.stamp = m.stamp /\ l.batch = m.batch
        /\ l.leaks = m.leaks /\ l.held = m.held /\ l.gaps = m.gaps
        /\ m.role < 3 => l.pc = m.pc /\ l.role = m.role + 1
        /\ ~(m.role < 3) => l.pc = "clean" /\ l.role = 1 /\ m.role = 3
    BY <1>13, <1>10, LaterFields, Zenon
  <2>2. QED
    BY <2>1, <1>13, Zenon
<1>15. l.batch \in 1..MaxBatches /\ Observed(net, l) /\ Counted(l)
  BY <1>2, <1>14, SameEvidence, Zenon DEF Going, Counted
<1>16. Heard(l)
  <2>1. /\ l.pc \in {"wait", "clean"} /\ (l.pc = "wait" => Len(l.legs) = l.role - 1)
        /\ l.pc = "clean" => Len(l.legs) = 3
    BY <1>7, <1>12, <1>14, SMT
  <2>2. \A r \in 1..Len(l.legs) :
            (r \in 1..Len(q.legs) /\ l.legs[r] = q.legs[r]) \/ (r = q.role /\ l.legs[r] = leg)
    BY <1>7, <1>12, <1>14, SMT
  <2>3. \A r \in 1..Len(l.legs) :
            /\ r = 3 /\ l.legs[r] = "blocked" => l.held
            /\ r \in {2, 3} /\ l.legs[r] = "connected" => l.batch \in l.gaps
    <3>1. SUFFICES ASSUME NEW r \in 1..Len(l.legs)
                   PROVE  /\ r = 3 /\ l.legs[r] = "blocked" => q.held
                          /\ r \in {2, 3} /\ l.legs[r] = "connected" => q.batch \in q.gaps
      BY <1>14, Zenon
    <3>2. CASE r \in 1..Len(q.legs) /\ l.legs[r] = q.legs[r]
      BY <3>2, <1>2, Zenon DEF Going, Heard
    <3>3. CASE r = q.role /\ l.legs[r] = leg
      BY <3>3, <1>12, Zenon
    <3>4. QED
      BY <2>2, <3>2, <3>3, Zenon
  <2>4. QED
    BY <2>1, <2>3, Zenon DEF Heard
<1>17. l.pc \in {"create", "wait", "clean"} /\ l.pc # "none" /\ l.pc # "create"
  BY <1>14, Zenon
<1>18. Watched(l)'
  <2>1. SUFFICES ASSUME NEW d \in pods, NEW r \in 1..3, d.name = Name(l, r), l.pc # "clean",
                        NEW k \in d.nets
                 PROVE  Observed(k, l)
    BY <1>3, Zenon DEF Watched
  <2>2. d.name = Name(q, r)
    BY <2>1, <1>14, Zenon DEF Name
  <2>3. Observed(k, q)
    BY <2>1, <2>2, <1>2, Zenon DEF Going, Watched
  <2>4. QED
    BY <2>3, <1>14, SameEvidence, Zenon
<1>19. PodsSound'
  <2>1. outages' \in 0..MaxOutages
    BY <1>5, DoctorConstants DEF DoctorInv, PodsSound
  <2>2. QED
    BY <2>1, <1>3, Zenon DEF DoctorInv, PodsSound
<1>20. NoStrays'
  BY <1>3, <1>9, <1>14, <1>17, <1>1, StraysKept, Zenon
<1>21. QED
  BY <1>1, <1>2, <1>3, <1>9, <1>14, <1>15, <1>16, <1>17, <1>18, <1>19, <1>20, ProbeMoves, Zenon

\* cleanup deletes the canaries of p's batch, or leaves one as a stray.
LEMMA CleanupKeeps ==
    ASSUME DoctorInv, NEW p \in DOMAIN walk, Cleanup(p), net' = net, DOMAIN walk' = DOMAIN walk,
           \A o \in DOMAIN walk : o # p => probe'[o] = probe[o]
    PROVE  pods' \subseteq pods /\ PodsSound' /\ NoStrays'
<1>1. PICK left \in {{}} \cup {{c} : c \in Mine(p)} :
          /\ left # {} => outages < MaxOutages
          /\ outages' = outages + (IF left = {} THEN 0 ELSE 1)
          /\ strays' = (strays \ {c.name : c \in Mine(p)}) \cup {c.name : c \in left}
          /\ pods' = (pods \ Mine(p)) \cup left
  BY Zenon DEF Cleanup
<1>2. left \subseteq Mine(p) /\ Mine(p) \subseteq pods
  BY <1>1, Zenon DEF Mine
<1>3. pods' \subseteq pods
  BY <1>1, <1>2, Zenon
<1>4. outages' \in 0..MaxOutages
  BY <1>1, DoctorConstants DEF DoctorInv, PodsSound
<1>5. PodsSound'
  BY <1>3, <1>4, Zenon DEF DoctorInv, PodsSound
<1>6. NoStrays'
  <2>1. SUFFICES ASSUME NEW c \in pods', c.name \notin strays'
                 PROVE  \E o \in DOMAIN walk, r \in 1..3 :
                            /\ c.name = Name(probe'[o], r)
                            /\ probe'[o].pc \in {"create", "wait", "clean"}
    BY Zenon DEF NoStrays
  <2>2. c \in pods /\ c \notin Mine(p)
    BY <1>1, <1>2, <2>1, Zenon
  <2>3. c.name \notin {d.name : d \in Mine(p)}
    BY <2>2, Zenon DEF Mine
  <2>4. c.name \notin strays
    BY <2>1, <2>3, <1>1, Zenon
  <2>5. PICK o \in DOMAIN walk, r \in 1..3 :
            c.name = Name(probe[o], r) /\ probe[o].pc \in {"create", "wait", "clean"}
    BY <2>2, <2>4, Zenon DEF DoctorInv, NoStrays
  <2>6. o # p
    BY <2>2, <2>5, Zenon DEF Mine
  <2>7. QED
    BY <2>5, <2>6, Zenon
<1>7. QED
  BY <1>3, <1>5, <1>6

\* The evidence of a whole batch, and the leaks counted with it.
LEMMA BatchEvidence ==
    ASSUME NEW q \in Probes, Going(q), q.pc = "clean", ~q.failed
    PROVE  /\ q.legs = <<"connected", "blocked", "blocked">> => q.held
           /\ Leaked(q.legs) => q.batch \in q.gaps
<1>1. Len(q.legs) = 3 /\ Heard(q)
  BY Zenon DEF Going, Heard
<1>2. 2 \in 1..Len(q.legs) /\ 3 \in 1..Len(q.legs)
  BY <1>1
<1>3. q.legs = <<"connected", "blocked", "blocked">> => q.legs[3] = "blocked"
  BY SMT
<1>4. Leaked(q.legs) => q.legs[2] = "connected" \/ q.legs[3] = "connected"
  BY SMT DEF Leaked
<1>5. QED
  BY <1>1, <1>2, <1>3, <1>4, Zenon DEF Heard

LEMMA LeaksCount ==
    ASSUME NEW q \in Probes, Going(q), NEW more \in {0, 1}, more = 1 => q.batch \in q.gaps
    PROVE  ExistsInjection(1..(q.leaks + more), q.gaps \cap (1..q.batch))
<1>1. PICK S, T : S = q.gaps \cap (1..(q.batch - 1)) /\ T = q.gaps \cap (1..q.batch)
  BY Zenon
<1>2. q.leaks \in Nat /\ q.batch \in 1..MaxBatches
  BY Zenon DEF Probes, Going
<1>3. /\ q.batch \notin 1..(q.batch - 1) /\ q.batch \in 1..q.batch
      /\ 1..(q.batch - 1) \subseteq 1..q.batch /\ q.leaks <= q.leaks /\ q.leaks + 0 = q.leaks
  BY <1>2, DoctorConstants, SMT
<1>4. S \subseteq T /\ q.batch \notin S /\ ExistsInjection(1..q.leaks, S)
  BY <1>1, <1>3, Zenon DEF Going, Counted
<1>5. CASE more = 0
  <2>1. ExistsInjection(1..q.leaks, T)
    BY <1>2, <1>3, <1>4, FewerLeaks, SMT
  <2>2. QED
    BY <2>1, <1>1, <1>3, <1>5, Zenon
<1>6. CASE more = 1
  <2>1. q.batch \in T
    BY <1>1, <1>3, <1>6, Zenon
  <2>2. QED
    BY <1>1, <1>2, <1>4, <1>6, <2>1, OneMoreLeak, Zenon
<1>7. QED
  BY <1>5, <1>6, Zenon

LEMMA BatchStep ==
    ASSUME DoctorInv, NEW p \in DOMAIN walk, FinishBatch(p)
    PROVE  DoctorInv'
<1>1. PICK w, q, leaks : /\ w = walk[p] /\ q = probe[p]
                        /\ leaks = q.leaks + (IF ~q.failed /\ Leaked(q.legs) THEN 1 ELSE 0)
  BY Zenon
<1> DEFINE leaked == ~q.failed /\ Leaked(q.legs)
<1>2. /\ q \in Probes /\ w.kind = "netpol" /\ w.pc = "walk" /\ w.at = 1 /\ Going(q)
      /\ q.pc = "clean" /\ net' = net /\ Cleanup(p) /\ Verdict(p)
  BY <1>1, Active, Zenon DEF FinishBatch, At
<1>3. Asking(p)
  <2>1. w.order = <<1>>
    BY <1>1, <1>2, Zenon DEF DoctorInv, Single
  <2>2. w.at <= Len(w.order)
    BY <1>2, <2>1, SMT
  <2>3. QED
    BY <1>1, <1>2, <2>2, Zenon DEF Asking
<1>4. ExistsInjection(1..leaks, q.gaps \cap (1..q.batch))
  <2>1. CASE leaked
    <3>1. leaks = q.leaks + 1 /\ q.batch \in q.gaps /\ 1 \in {0, 1}
      BY <2>1, <1>1, <1>2, BatchEvidence, Zenon
    <3>2. QED
      BY <3>1, <1>2, LeaksCount, Zenon
  <2>2. CASE ~leaked
    <3>1. leaks = q.leaks + 0 /\ 0 \in {0, 1}
      BY <2>2, <1>1, Zenon
    <3>2. 0 # 1
      BY SMT
    <3>3. QED
      BY <3>1, <3>2, <1>2, LeaksCount, Zenon
  <2>3. QED
    BY <2>1, <2>2
<1>5. leaks \in Nat /\ q.leaks \in Nat
  <2>1. q.leaks \in Nat
    BY <1>2, Zenon DEF Probes
  <2>2. QED
    BY <2>1, <1>1, SMT
<1>6. \/ Conclude(p, "error")
      \/ ~q.failed /\ Enforced(q.legs) /\ Conclude(p, "pass")
      \/ leaked /\ q.absent /\ Conclude(p, "fail")
      \/ leaks >= MinLeakBatches /\ Conclude(p, "fail")
      \/ /\ q.batch < MaxBatches
         /\ probe' = [probe EXCEPT ![p] = Begun([@ EXCEPT !.leaks = leaks])]
         /\ UNCHANGED walk
  BY <1>1, <1>2, Zenon DEF Verdict, Confirmed
<1>7. ASSUME NEW status \in {"pass", "fail", "error"}, Conclude(p, status),
             status = "pass" => q.held, status = "fail" => Gapped(q)
      PROVE  DoctorInv'
  <2>1. PICK v : /\ v = Over(q) /\ probe' = [probe EXCEPT ![p] = v]
                 /\ walk' = [walk EXCEPT ![p] = Recorded(walk[p], status, status)]
    BY <1>1, <1>7, Zenon DEF Conclude
  <2>2. /\ DOMAIN walk' = DOMAIN walk /\ DOMAIN probe' = DOMAIN walk /\ probe'[p] = v
        /\ \A o \in DOMAIN walk : o # p => probe'[o] = probe[o]
    BY <2>1, Zenon DEF DoctorInv
  <2>3. pods' \subseteq pods /\ PodsSound' /\ NoStrays'
    BY <1>2, <2>2, CleanupKeeps, Zenon
  <2>4. /\ v \in Probes /\ v.pc = "none"
        /\ status = "pass" => v.held
        /\ status = "fail" => Gapped(v)
    BY <1>2, <1>7, <2>1, OverFields, Zenon DEF Gapped
  <2>5. walk[p].kind = "netpol"
    BY <1>1, <1>2, Zenon
  <2>6. QED
    BY <1>2, <1>3, <2>1, <2>2, <2>3, <2>4, <2>5, ConcludeMoves, Zenon
<1>8. CASE Conclude(p, "error")
  BY <1>7, <1>8, Zenon
<1>9. CASE ~q.failed /\ Enforced(q.legs) /\ Conclude(p, "pass")
  <2>1. q.held
    BY <1>2, <1>9, BatchEvidence, Zenon DEF Enforced
  <2>2. QED
    BY <1>7, <1>9, <2>1, Zenon
<1>10. CASE leaked /\ q.absent /\ Conclude(p, "fail")
  <2>1. Gapped(q)
    BY <1>2, <1>10, BatchEvidence, Zenon DEF Gapped
  <2>2. QED
    BY <1>7, <1>10, <2>1, Zenon
<1>11. CASE leaks >= MinLeakBatches /\ Conclude(p, "fail")
  <2>1. MinLeakBatches <= leaks /\ MinLeakBatches \in Nat
    BY <1>5, <1>11, DoctorConstants
  <2>2. q.gaps \cap (1..q.batch) \subseteq q.gaps
    OBVIOUS
  <2>3. Gapped(q)
    <3>1. ExistsInjection(1..MinLeakBatches, q.gaps)
      BY <1>4, <1>5, <2>1, <2>2, FewerLeaks, SMT
    <3>2. QED
      BY <3>1, Zenon DEF Gapped
  <2>4. QED
    BY <1>7, <1>11, <2>3, Zenon
<1>12. CASE /\ q.batch < MaxBatches
            /\ probe' = [probe EXCEPT ![p] = Begun([@ EXCEPT !.leaks = leaks])]
            /\ UNCHANGED walk
  <2>1. PICK m : m = [q EXCEPT !.leaks = leaks]
    BY Zenon
  <2>2. m \in Probes /\ m.leaks = leaks /\ m.gaps = q.gaps /\ m.batch = q.batch
    BY <1>2, <1>5, <2>1, Zenon DEF Probes
  <2>3. PICK b : b = Begun(m) /\ probe' = [probe EXCEPT ![p] = b]
    BY <1>1, <1>12, <2>1, Zenon
  <2>4. DOMAIN walk' = DOMAIN walk /\ \A o \in DOMAIN walk : o # p => probe'[o] = probe[o]
    BY <1>12, <2>3, Zenon DEF DoctorInv
  <2>5. pods' \subseteq pods /\ PodsSound' /\ NoStrays'
    BY <1>2, <2>4, CleanupKeeps, Zenon
  <2>6. b \in Probes /\ b.pc = "create" /\ b.role = 1
    BY <1>12, <2>2, <2>3, BegunFields, Zenon
  <2>7. b.batch \in 1..MaxBatches /\ Observed(net, b) /\ Heard(b) /\ Counted(b)
    <3>1. m.batch < MaxBatches /\ ExistsInjection(1..m.leaks, m.gaps \cap (1..m.batch))
      BY <1>4, <1>12, <2>2, Zenon
    <3>2. QED
      BY <3>1, <2>2, <2>3, BegunGoes, Zenon
  <2>8. Watched(b)'
    <3>1. \A r \in 1..3 : ~(r < 1)
      BY SMT
    <3>2. QED
      BY <2>6, <3>1, Zenon DEF Watched
  <2>9. b.pc # "none" /\ \A c \in pods' : c \in pods \/ c.nets = {net}
    BY <2>5, <2>6, Zenon
  <2>10. QED
    BY <1>1, <1>2, <1>12, <2>3, <2>5, <2>6, <2>7, <2>8, <2>9, ProbeMoves, Zenon
<1>13. QED
  BY <1>6, <1>8, <1>9, <1>10, <1>11, <1>12, Zenon

LEMMA KillStep ==
    ASSUME DoctorInv, NEW p \in DOMAIN walk, Killed(p)
    PROVE  DoctorInv'
<1>1. PICK w, v, q : w = walk[p] /\ v = [w EXCEPT !.pc = "killed"] /\ q = Over(probe[p])
  BY Zenon
<1>2. /\ probe[p] \in Probes /\ w.kind = "netpol" /\ w.pc = "walk" /\ w.at = 1
      /\ Shaped(w) /\ Single(w)
  BY <1>1, Active, Zenon DEF DoctorInv, Killed
<1>3. /\ walk' = [walk EXCEPT ![p] = v] /\ probe' = [probe EXCEPT ![p] = q]
      /\ UNCHANGED <<pods, net>>
  BY <1>1, Zenon DEF Killed
<1>4. walk'[p] = v /\ probe'[p] = q /\ Moves(p)
  BY <1>3, Zenon DEF Moves, DoctorInv
<1>5. /\ DOMAIN v = WalkFields /\ v.kind = w.kind /\ v.pc = "killed" /\ v.reg = w.reg
      /\ v.fix = w.fix /\ v.at = 1 /\ v.out = w.out /\ v.order = w.order
  BY <1>1, <1>2, Zenon DEF Shaped, WalkFields
<1>6. Shaped(v)
  BY <1>2, <1>5, Zenon DEF Shaped
<1>7. v.at # 2
  BY <1>5, SMT
<1>8. Single(v)
  BY <1>2, <1>5, Zenon DEF Single
<1>9. q \in Probes /\ q.pc = "none"
  BY <1>1, <1>2, OverFields, Zenon
<1>10. Evident(v, q)'
  BY <1>5, <1>7, <1>9, Zenon DEF Evident
<1>11. Evident(walk[p], probe[p])'
  BY <1>4, <1>10, Zenon
<1>12. PodsSound'
  <2>1. outages' \in 0..MaxOutages
    BY DoctorConstants DEF Killed, DoctorInv, PodsSound
  <2>2. QED
    BY <1>3, <2>1, Zenon DEF DoctorInv, PodsSound
<1>13. NoStrays'
  <2>1. SUFFICES ASSUME NEW c \in pods, c.name \notin strays'
                 PROVE  \E o \in DOMAIN walk, r \in 1..3 :
                            /\ c.name = Name(probe'[o], r)
                            /\ probe'[o].pc \in {"create", "wait", "clean"}
    BY <1>3, <1>4, Zenon DEF NoStrays, Moves
  <2>2. c.name \notin strays /\ c \notin Mine(p)
    BY <2>1, Zenon DEF Killed
  <2>3. PICK o \in DOMAIN walk, r \in 1..3 :
            c.name = Name(probe[o], r) /\ probe[o].pc \in {"create", "wait", "clean"}
    BY <2>2, Zenon DEF DoctorInv, NoStrays
  <2>4. o # p
    BY <2>2, <2>3, Zenon DEF Mine
  <2>5. QED
    BY <2>3, <2>4, <1>4, Zenon DEF Moves
<1>14. QED
  BY <1>4, <1>6, <1>8, <1>11, <1>12, <1>13, OneMoves, Zenon

\* A change of the network leaves its mark in every batch and in every pod.
LEMMA NetFields ==
    ASSUME NEW q \in Probes, q.batch \in 1..MaxBatches, NEW n
    PROVE  LET l == Marked(q, n) IN
           /\ l \in Probes /\ l.pc = q.pc /\ l.stamp = q.stamp /\ l.batch = q.batch
           /\ l.role = q.role /\ l.legs = q.legs /\ l.leaks = q.leaks /\ l.failed = q.failed
           /\ q.held => l.held
           /\ q.gaps \subseteq l.gaps
           /\ Observed(n, l)
<1>1. PICK held, gaps, l : /\ held = (q.held \/ Enforces(n))
                          /\ gaps = (IF Enforces(n) THEN q.gaps ELSE q.gaps \cup {q.batch})
                          /\ l = Marked(q, n)
  BY Zenon
<1>2. held \in BOOLEAN /\ gaps \in SUBSET (1..MaxBatches)
  BY <1>1, Zenon DEF Probes
<1>3. l = [q EXCEPT !.held = held, !.gaps = gaps]
  BY <1>1, Zenon DEF Marked
<1>4. /\ l \in Probes /\ l.pc = q.pc /\ l.stamp = q.stamp /\ l.batch = q.batch
      /\ l.role = q.role /\ l.legs = q.legs /\ l.leaks = q.leaks /\ l.failed = q.failed
      /\ l.held = held /\ l.gaps = gaps
  BY <1>2, <1>3, Zenon DEF Probes
<1>5. /\ q.held => l.held
      /\ q.gaps \subseteq l.gaps
      /\ Observed(n, l)
  BY <1>1, <1>4, Zenon DEF Observed
<1>6. QED
  BY <1>1, <1>4, <1>5, Zenon

LEMMA NetStep ==
    ASSUME DoctorInv, NetChanges
    PROVE  DoctorInv'
<1>1. PICK new : new = net'
  BY Zenon
<1> DEFINE Seen(c) == [c EXCEPT !.nets = @ \cup {new}]
<1>2. /\ walk' = walk /\ strays' = strays /\ new \in Networks /\ net' = new
      /\ outages < MaxOutages /\ outages' = outages + 1
      /\ pods' = {Seen(c) : c \in pods}
      /\ probe' = [o \in DOMAIN probe |->
                      IF probe[o].pc \in {"create", "wait", "clean"}
                      THEN Marked(probe[o], new) ELSE probe[o]]
  BY <1>1, Zenon DEF NetChanges
<1>3. DOMAIN probe' = DOMAIN walk /\ DOMAIN probe = DOMAIN walk
  <2>1. DOMAIN probe = DOMAIN walk
    BY Zenon DEF DoctorInv
  <2>2. QED
    BY <2>1, <1>2, Zenon
<1>4. \A c \in pods : Seen(c) \in Pods /\ Seen(c).name = c.name /\ Seen(c).nets = c.nets \cup {new}
  <2>1. SUFFICES ASSUME NEW c \in pods
                 PROVE  Seen(c) \in Pods /\ Seen(c).name = c.name /\ Seen(c).nets = c.nets \cup {new}
    BY Zenon
  <2>2. c \in [name : PodNames, nets : SUBSET Networks]
    BY Zenon DEF DoctorInv, PodsSound, Pods
  <2>3. QED
    BY <1>2, <2>2, Zenon DEF Pods
<1>5. PodsSound'
  <2>1. outages \in 0..MaxOutages /\ \A a, b \in pods : a.name = b.name => a = b
    BY Zenon DEF DoctorInv, PodsSound
  <2>2. outages < MaxOutages /\ outages' = outages + 1
    BY <1>2, Zenon
  <2>3. outages' \in 0..MaxOutages
    BY <2>1, <2>2, DoctorConstants, SMT
  <2>4. \A a \in pods' : \E c \in pods : a = Seen(c) /\ a.name = c.name /\ a \in Pods
    BY <1>2, <1>4, Zenon
  <2>5. \A a, b \in pods' : a.name = b.name => a = b
    BY <2>1, <2>4, Zenon
  <2>6. QED
    BY <1>2, <2>3, <2>4, <2>5, Zenon DEF PodsSound
<1>6. ASSUME NEW o \in DOMAIN walk
      PROVE  /\ Evident(walk[o], probe[o])'
             /\ probe'[o].pc = probe[o].pc
             /\ \A r \in 1..3 : probe[o].pc # "none" => Name(probe'[o], r) = Name(probe[o], r)
  <2>1. PICK q, w : q = probe[o] /\ w = walk[o]
    BY Zenon
  <2>2. Evident(w, q) /\ q \in Probes
    BY <2>1, Zenon DEF DoctorInv, Evident
  <2>3. CASE q.pc = "none"
    <3>1. probe'[o] = q
      BY <2>1, <1>2, <1>3, <2>3, Zenon
    <3>2. QED
      BY <2>1, <3>1, <2>2, <2>3, <1>2, Zenon DEF Evident, Gapped
  <2>4. CASE q.pc # "none"
    <3>1. /\ q.pc \in {"create", "wait", "clean"} /\ Going(q) /\ q.batch \in 1..MaxBatches
          /\ w.kind = "netpol" /\ w.pc = "walk" /\ w.at = 1
      BY <2>2, <2>4, Zenon DEF Evident, Going, Probes
    <3>2. PICK l : l = Marked(q, new) /\ probe'[o] = l
      BY <2>1, <3>1, <1>2, <1>3, Zenon
    <3>3. /\ l \in Probes /\ l.pc = q.pc /\ l.stamp = q.stamp /\ l.batch = q.batch
          /\ l.role = q.role /\ l.legs = q.legs /\ l.leaks = q.leaks /\ l.failed = q.failed
          /\ q.held => l.held
          /\ q.gaps \subseteq l.gaps
          /\ Observed(new, l)
      <4>1. q \in Probes /\ q.batch \in 1..MaxBatches /\ l = Marked(q, new)
        BY <2>2, <3>1, <3>2, Zenon
      <4>2. QED
        BY <4>1, NetFields
    <3>4. \A n : Observed(n, q) => Observed(n, l)
      BY <3>3, Zenon DEF Observed
    <3>5. \A r \in 1..3 : Name(l, r) = Name(q, r)
      BY <3>3, Zenon DEF Name
    <3>6. Watched(l)'
      <4>1. SUFFICES ASSUME NEW c \in pods, NEW r \in 1..3, Seen(c).name = Name(l, r),
                            l.pc # "clean", l.pc = "create" => r < l.role, NEW n \in Seen(c).nets
                     PROVE  Observed(n, l)
        <5>1. pods' = {Seen(c) : c \in pods}
          BY <1>2, Zenon
        <5>2. QED
          BY <5>1, Zenon DEF Watched
      <4>2. CASE n = new
        BY <4>2, <3>3, Zenon
      <4>3. CASE n \in c.nets
        <5>1. c.name = Name(q, r) /\ q.pc # "clean" /\ (q.pc = "create" => r < q.role)
          BY <4>1, <1>4, <3>3, <3>5, Zenon
        <5>2. Observed(n, q)
          BY <5>1, <4>3, <3>1, Zenon DEF Going, Watched
        <5>3. QED
          BY <5>2, <3>4, Zenon
      <4>4. QED
        BY <4>1, <4>2, <4>3, <1>4, Zenon
    <3>7. Heard(l)
      BY <3>1, <3>3, Zenon DEF Going, Heard
    <3>8. Counted(l)
      <4>1. /\ q.gaps \cap (1..(q.batch - 1)) \subseteq l.gaps \cap (1..(l.batch - 1))
            /\ q.leaks \in Nat
        BY <2>2, <3>3, Zenon DEF Probes
      <4>2. q.leaks <= q.leaks
        BY <4>1, SMT
      <4>3. ExistsInjection(1..q.leaks, q.gaps \cap (1..(q.batch - 1)))
        BY <3>1, Zenon DEF Going, Counted
      <4>4. ExistsInjection(1..q.leaks, l.gaps \cap (1..(l.batch - 1)))
        BY <4>1, <4>2, <4>3, FewerLeaks, SMT
      <4>5. QED
        BY <4>4, <3>3, Zenon DEF Counted
    <3>9. Going(l)'
      <4>1. l.batch \in 1..MaxBatches /\ Observed(net', l)
        BY <1>2, <3>1, <3>3, Zenon
      <4>2. QED
        BY <4>1, <3>6, <3>7, <3>8, Zenon DEF Going, Heard, Counted, Observed
    <3>10. w.at # 2
      BY <3>1, SMT
    <3>11. Evident(w, l)'
      BY <3>1, <3>3, <3>9, <3>10, Zenon DEF Evident
    <3>12. QED
      BY <2>1, <1>2, <3>2, <3>3, <3>5, <3>11, Zenon
  <2>5. QED
    BY <2>3, <2>4
<1>7. NoStrays'
  <2>1. SUFFICES ASSUME NEW c \in pods, c.name \notin strays
                 PROVE  \E o \in DOMAIN walk, r \in 1..3 :
                            /\ c.name = Name(probe'[o], r)
                            /\ probe'[o].pc \in {"create", "wait", "clean"}
    <3>1. walk' = walk /\ strays' = strays /\ \A d \in pods' : \E c \in pods : d.name = c.name
      BY <1>2, <1>4, Zenon
    <3>2. QED
      BY <3>1, Zenon DEF NoStrays
  <2>2. PICK o \in DOMAIN walk, r \in 1..3 :
            c.name = Name(probe[o], r) /\ probe[o].pc \in {"create", "wait", "clean"}
    BY <2>1, Zenon DEF DoctorInv, NoStrays
  <2>3. QED
    BY <2>2, <1>6, Zenon
<1>8. QED
  BY <1>2, <1>3, <1>5, <1>6, <1>7, Zenon DEF DoctorInv

-----------------------------------------------------------------------------

LEMMA DoctorInvInit == DoctorInit => DoctorInv
<1>1. SUFFICES ASSUME DoctorInit PROVE DoctorInv
  OBVIOUS
<1>2. \A s \in Stamps : NoProbe(s) \in Probes /\ NoProbe(s).pc = "none"
                        /\ NoProbe(s).leaks = 0 /\ NoProbe(s).gaps = {} /\ NoProbe(s).batch = 0
  BY DoctorConstants DEF NoProbe, Probes
<1>3. DOMAIN probe = DOMAIN walk
      /\ \A p \in DOMAIN walk : \E s \in Stamps : probe[p] = NoProbe(s)
  <2>1. \/ probe = [p \in DOMAIN walk |-> NoProbe("same")]
        \/ DOMAIN walk = Walks /\ probe = [p \in Walks |-> NoProbe(p)]
    BY <1>1, SMT DEF DoctorInit
  <2>2. QED
    BY <2>1, Zenon DEF Stamps
<1>4. ASSUME NEW p \in DOMAIN walk
      PROVE  Shaped(walk[p]) /\ Single(walk[p]) /\ Evident(walk[p], probe[p])
  <2>1. PICK g, s, kind, f :
            /\ kind \in {"plain", "netpol"} /\ f \in BOOLEAN
            /\ walk[p] = Scene(g, s, kind, f)
            /\ kind = "netpol" => g = <<{}>> /\ s = <<"critical">> /\ f = FALSE
    <3>1. CASE walk \in [{"w"} -> PlainScenes]
      <4>1. walk[p] \in PlainScenes
        BY <3>1, Zenon
      <4>2. PICK g, s, f : f \in BOOLEAN /\ walk[p] = Scene(g, s, "plain", f)
        BY <4>1 DEF PlainScenes
      <4>3. QED
        BY <4>2, SMT
    <3>2. CASE walk = [o \in Walks |-> Scene(<<{}>>, <<"critical">>, "netpol", FALSE)]
      BY <3>2, Zenon
    <3>3. QED
      BY <1>1, <3>1, <3>2, Zenon DEF DoctorInit
  <2>2. PICK w : w = walk[p]
    BY Zenon
  <2>3. /\ DOMAIN w = WalkFields /\ w.kind = kind /\ w.fix = f /\ w.pc = "plan" /\ w.at = 1
        /\ w.out = <<>> /\ w.order = <<>>
        /\ w.reg = [i \in DOMAIN g |-> [requires |-> g[i], severity |-> s[i]]]
    BY <2>1, <2>2 DEF Scene, WalkFields
  <2>4. Shaped(w)
    <3>1. 1..(w.at - 1) = {} /\ DOMAIN w.out = {} /\ w.at \in Nat \ {0}
      BY <2>3
    <3>2. {w.order[n] : n \in 1..(w.at - 1)} = {}
      BY <3>1, Zenon
    <3>3. f \in BOOLEAN /\ kind \in {"plain", "netpol"}
      BY <2>1, Zenon
    <3>4. DOMAIN w.out = {w.order[n] : n \in 1..(w.at - 1)}
      BY <3>1, <3>2, Zenon
    <3>5. QED
      BY <2>3, <3>1, <3>3, <3>4, Zenon DEF Shaped
  <2>5. Single(w)
    <3>1. SUFFICES ASSUME kind = "netpol" PROVE w.reg = OneCheck
      BY <2>1, <2>3, Zenon DEF Single
    <3>2. g = <<{}>> /\ s = <<"critical">>
      BY <2>1, <3>1
    <3>3. QED
      <4>1. DOMAIN g = 1..1 /\ g[1] = {} /\ s[1] = "critical"
        BY <3>2, SMT
      <4>2. w.reg = [i \in 1..1 |-> [requires |-> g[i], severity |-> s[i]]]
        BY <2>3, <4>1, Zenon
      <4>3. QED
        BY <4>1, <4>2, SMT DEF OneCheck
  <2>6. Evident(w, probe[p])
    <3>1. 1 # 2
      OBVIOUS
    <3>2. QED
      BY <2>3, <3>1, <1>2, <1>3, Zenon DEF Evident
  <2>7. QED
    BY <2>4, <2>5, <2>6, <2>2, Zenon
<1>5. PodsSound
  <2>1. 0 \in 0..MaxOutages
    BY DoctorConstants
  <2>2. QED
    <3>1. net \in Networks /\ pods = {} /\ outages = 0
      BY <1>1, SMT DEF DoctorInit
    <3>2. QED
      BY <2>1, <3>1, Zenon DEF PodsSound
<1>6. NoStrays
  BY <1>1, SMT DEF DoctorInit, NoStrays
<1>7. QED
  BY <1>3, <1>4, <1>5, <1>6, Zenon DEF DoctorInv

LEMMA DoctorInvStep == DoctorInv /\ [DoctorNext]_doctorVars => DoctorInv'
<1>1. SUFFICES ASSUME DoctorInv, [DoctorNext]_doctorVars PROVE DoctorInv'
  OBVIOUS
<1>2. CASE NetChanges
  BY <1>1, <1>2, NetStep, Zenon
<1>3. ASSUME NEW p \in DOMAIN walk, WalkStep(p) \/ Killed(p) PROVE DoctorInv'
  BY <1>1, <1>3, PlanStep, JudgeStep, FinishStep, StartStep, CreateStep, WaitStep, GiveUpStep,
     BatchStep, KillStep, Zenon DEF WalkStep
<1>4. CASE UNCHANGED doctorVars
  <2>1. UNCHANGED <<walk, probe, pods, net, strays, outages>>
    BY <1>4, Zenon DEF doctorVars
  <2>2. \A o \in DOMAIN walk : (Shaped(walk[o]) /\ Single(walk[o]) /\ Evident(walk[o], probe[o]))'
    BY <1>1, <2>1, OthersKept, Zenon
  <2>3. PodsSound'
    BY <1>1, <2>1, Zenon DEF DoctorInv, PodsSound
  <2>4. NoStrays'
    BY <1>1, <2>1, SMT DEF DoctorInv, NoStrays
  <2>5. QED
    BY <1>1, <2>1, <2>2, <2>3, <2>4, Zenon DEF DoctorInv
<1>5. QED
  BY <1>1, <1>2, <1>3, <1>4, Zenon DEF DoctorNext

LEMMA DoctorInvariant == DoctorSpec => []DoctorInv
BY DoctorInvInit, DoctorInvStep, PTL DEF DoctorSpec

\* A doctor passes the NetworkPolicy check only when the policies were enforced at
\* some time in the batch it judged by, and fails it only on a gap in the
\* enforcement in MinLeakBatches batches, or in one when no policy existed
\* (probeEnforcement of netpol.go), however many doctors sweep each other's canaries
\* and whatever the network does meanwhile.
THEOREM DoctorEarnsVerdicts == DoctorSpec => []VerdictsEarned
<1>1. DoctorInv => VerdictsEarned
  <2>1. SUFFICES ASSUME DoctorInv PROVE DoctorTypeOK /\ PassIsEarned /\ FailIsEarned
    BY Zenon DEF VerdictsEarned
  <2>2. ASSUME NEW p \in DOMAIN walk, probe[p].pc = "clean", ~probe[p].failed
        PROVE  Len(probe[p].legs) = Len(Roles)
    BY <2>1, <2>2, Active, RoleNames, Zenon DEF Going, Heard
  <2>3. DoctorTypeOK
    BY <2>1, <2>2, Zenon DEF DoctorTypeOK, DoctorInv, PodsSound, Shaped, Evident, Probes, At
  <2>4. ASSUME NEW p \in DOMAIN walk, walk[p].kind = "netpol", walk[p].pc = "done"
        PROVE  /\ ExitCode(walk[p].reg, walk[p].out) = 0 => probe[p].held
               /\ ExitCode(walk[p].reg, walk[p].out) = 1 => Gapped(probe[p])
    <3>1. PICK w, q : w = walk[p] /\ q = probe[p]
      BY Zenon
    <3>2. Single(w) /\ Evident(w, q)
      BY <2>1, <3>1, Zenon DEF DoctorInv
    <3>3. w.reg = OneCheck /\ w.at = 2
      BY <2>4, <3>1, <3>2, Zenon DEF Single
    <3>4. /\ w.out[1] \in {"pass", "fail", "error"}
          /\ w.out[1] = "pass" => q.held
          /\ w.out[1] = "fail" => Gapped(q)
      BY <2>4, <3>1, <3>2, <3>3, Zenon DEF Evident
    <3>5. /\ ExitCode(OneCheck, w.out) = 0 => w.out[1] = "pass"
          /\ ExitCode(OneCheck, w.out) = 1 => w.out[1] = "fail"
      BY <3>4, OneIsAsked
    <3>6. QED
      BY <3>1, <3>3, <3>4, <3>5, Zenon
  <2>5. PassIsEarned /\ FailIsEarned
    BY <2>4, Zenon DEF PassIsEarned, FailIsEarned, Gapped
  <2>6. QED
    BY <2>3, <2>5
<1>2. QED
  BY DoctorInvariant, <1>1, PTL

\* A canary pod belongs to a batch that is still going on, or was left by a doctor
\* that was killed or whose delete failed (runCanaryBatch, cleanup): the safety part
\* of DoctorsTidy.
THEOREM DoctorLeavesNoStrays == DoctorSpec => []NoStrays
<1>1. DoctorInv => NoStrays
  BY Zenon DEF DoctorInv
<1>2. QED
  BY DoctorInvariant, <1>1, PTL
=============================================================================
