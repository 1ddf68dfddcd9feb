-------------------------------- MODULE Catalog --------------------------------
(***************************************************************************)
(* The dashboard's write API: Apps, databases, secret stores and syncs,    *)
(* and the environment editor.                                             *)
(*                                                                         *)
(*   dashboard/internal/server/{resource_names,app,postgres,mongo,         *)
(*                              secrets,vault}.go                          *)
(*                                                                         *)
(* Handlers run at once and each is a sequence of calls to the API server, *)
(* which are atomic; an update succeeds only on the version that was read. *)
(* The Secrets they write share one namespace of names with the connection *)
(* Secrets of the databases and the targets of the syncs: the database     *)
(* controller, External Secrets and the garbage collector are the          *)
(* environment.  The name x stands for itself; x's store keeps its token   *)
(* in the Secret "x-credentials", x's App its values in "x-env".           *)
(***************************************************************************)
EXTENDS Integers, FiniteSets, Sequences

CONSTANTS
    None,
    Requests,      \* handlers that may run at once
    DatabaseNames, \* names given to databases, of "x", "x-credentials", "x-env"
    EnvSets,       \* the sets of variables the environment editor is sent
    Sizes,         \* storage sizes a request may ask for
    MaxUid,        \* bound on the objects referred to at a time
    MaxRequests,   \* bound on the requests of a run
    MaxFaults      \* bound on failed calls to the API server

EnvNames    == UNION EnvSets
SecretNames == {"x", "x-credentials", "x-env"}
Uids        == 1..MaxUid

ASSUME CatalogConstants ==
    /\ DatabaseNames \subseteq SecretNames /\ Sizes \subseteq Nat
    /\ MaxUid \in Nat /\ MaxRequests \in Nat /\ MaxFaults \in Nat
    /\ None \notin Requests /\ None \notin [uid : Uids]

Object(k, n) == [kind |-> k, name |-> n]
App   == Object("App", "x")
Store == Object("SecretStore", "x")
Sync  == Object("ExternalSecret", "x")
DatabaseKinds == {"Postgres", "Mongo"}
Databases == {Object(k, n) : k \in DatabaseKinds, n \in DatabaseNames}
Keys == {App, Store, Sync} \cup Databases

\* What is edited in an object: the source and the environment of an App, the
\* storage and the web interface of a database.
FieldB(k) ==
    IF k = App THEN [EnvNames -> {"none", "plain", "managed"}]
    ELSE IF k \in Databases THEN BOOLEAN ELSE {0}
Objects(k) == [uid : Uids, a : Nat, b : FieldB(k)]

VARIABLES
    objs,     \* [Keys -> object or None]; an object has two fields that are edited separately
    secrets,  \* [SecretNames -> [owner, keys] or None]
    req,      \* [Requests -> the handler in hand]
    nameMu,   \* the request that holds Server.nameMu, or None
    started, faults,
    failed,   \* some request ended with an error after it wrote something (history)
    queued,   \* a build of the App's present source has been queued (history)
    tokened   \* the store that exists has had its token written (history)

vars == <<objs, secrets, req, nameMu, started, faults, failed, queued, tokened>>

Idle == [op |-> "idle", pc |-> "idle", key |-> None, read |-> None, arg |-> None]
Plain == [n \in EnvNames |-> "none"]

Init ==
    /\ objs = [k \in Keys |-> None] /\ secrets = [n \in SecretNames |-> None]
    /\ req = [r \in Requests |-> Idle] /\ nameMu = None
    /\ started = 0 /\ faults = 0 /\ failed = FALSE /\ queued = FALSE /\ tokened = FALSE

(***************************************************************************)
(* The API server.                                                         *)
(***************************************************************************)

Exists(k) == objs[k] # None
LiveUids == {objs[k].uid : k \in {j \in Keys : Exists(j)}}

\* A uid is never used twice; the model reuses one that nothing refers to any more.
UnusedUids ==
    Uids \ (LiveUids \cup {secrets[n].owner : n \in {m \in SecretNames : secrets[m] # None}}
                     \cup {req[r].read.uid : r \in {q \in Requests : req[q].read # None}})
FreshUid == CHOOSE u \in UnusedUids : TRUE

CreateObject(k, a, b) ==
    /\ UnusedUids # {}
    /\ objs' = [objs EXCEPT ![k] = [uid |-> FreshUid, a |-> a, b |-> b]]

\* Mutant of Current: updates carry no resourceVersion.
Current_Any(r) == objs[req[r].key] # None

\* An update goes through when the object is as it was read; an update that
\* changes nothing leaves the version as it is.
Current(r) == objs[req[r].key] # None /\ objs[req[r].key] = req[r].read

Overwrite(n, owner, keys) == secrets' = [secrets EXCEPT ![n] = [owner |-> owner, keys |-> keys]]

(***************************************************************************)
(* Handlers.                                                               *)
(***************************************************************************)

Start(r) ==
    /\ req[r].op = "idle"
    /\ started < MaxRequests /\ started' = started + 1

Goto(r, op, pc, k, read, a) ==
    req' = [req EXCEPT ![r] = [op |-> op, pc |-> pc, key |-> k, read |-> read, arg |-> a]]
Step(r, pc) == req' = [req EXCEPT ![r].pc = pc]
Done(r) == req' = [req EXCEPT ![r] = Idle]
\* The handler answers; FailHalfway: with an error, after it has written something.
Answer(r) == Done(r) /\ UNCHANGED failed
FailHalfway(r) == Done(r) /\ failed' = TRUE

\* conflictingResourceKind
ConflictingKind(k) ==
    \E j \in {App} \cup Databases : j.kind # k.kind /\ j.name = k.name /\ Exists(j)

\* esoClaimsSecretName: a sync of that name, or the store whose token it would be.
EsoClaims(n) == (n = "x" /\ Exists(Sync)) \/ (n = "x-credentials" /\ Exists(Store))

\* Mutant of TakeNameMu: the check is not under the lock.
TakeNameMu_Never(r) == UNCHANGED nameMu

TakeNameMu(r) == nameMu = None /\ nameMu' = r

\* The checks of a create, under the lock over names; a refusal releases it.
CheckName(r, k, claimed) ==
    /\ Start(r)
    /\ LET refused == ConflictingKind(k) \/ claimed IN
       \/ refused /\ nameMu = None /\ Answer(r) /\ UNCHANGED nameMu
       \/ ~refused /\ TakeNameMu(r) /\ Goto(r, "create", "create", k, None, None) /\ UNCHANGED failed
    /\ UNCHANGED <<objs, secrets, faults, queued, tokened>>

DatabasesOf(kind) == {k \in Databases : k.kind = kind}

CreateApp(r) == CheckName(r, App, FALSE)
CreatePostgres(r) == \E k \in DatabasesOf("Postgres") : CheckName(r, k, EsoClaims(k.name))
CreateMongo(r) == \E k \in DatabasesOf("Mongo") : CheckName(r, k, EsoClaims(k.name))

Unlocked(r) == IF nameMu = r THEN None ELSE nameMu

\* The create itself, which fails when the object exists; of an App the first
\* build is queued next, still under the lock.
CreateNamed(r) ==
    /\ req[r].op = "create" /\ req[r].pc = "create"
    /\ LET k == req[r].key IN
       \/ Exists(k) /\ Answer(r) /\ nameMu' = Unlocked(r) /\ UNCHANGED <<objs, queued>>
       \/ /\ ~Exists(k) /\ k # App /\ \E s \in Sizes : CreateObject(k, s, FALSE)
          /\ Answer(r) /\ nameMu' = Unlocked(r) /\ UNCHANGED queued
       \/ /\ ~Exists(k) /\ k = App /\ CreateObject(k, 0, Plain) /\ queued' = FALSE
          /\ Goto(r, "create", "enqueue", k, None, 0) /\ UNCHANGED <<nameMu, failed>>
    /\ UNCHANGED <<secrets, started, faults, tokened>>

\* enqueueManualDeploy, with the source the request named.
EnqueueManualDeploy(r) ==
    /\ req[r].pc = "enqueue"
    /\ queued' = IF Exists(App) THEN queued \/ objs[App].a = req[r].arg ELSE FALSE
    /\ nameMu' = Unlocked(r) /\ Answer(r)
    /\ UNCHANGED <<objs, secrets, started, faults, tokened>>

\* handleDeleteApp and the others: one call; what the object owns is collected later.
Delete(r, k) ==
    /\ Start(r) /\ Exists(k)
    /\ objs' = [objs EXCEPT ![k] = None]
    /\ UNCHANGED <<secrets, req, nameMu, faults, failed, queued, tokened>>

DeleteApp(r) == Delete(r, App)
DeletePostgres(r) == \E k \in DatabasesOf("Postgres") : Delete(r, k)
DeleteMongo(r) == \E k \in DatabasesOf("Mongo") : Delete(r, k)
DeleteSecretStore(r) == Delete(r, Store)
DeleteExternalSecret(r) == Delete(r, Sync)

\* The read of a read-modify-write.
Read(r, op, k, a) ==
    /\ Start(r) /\ Goto(r, op, "update", k, objs[k], a)
    /\ UNCHANGED <<objs, secrets, nameMu, faults, failed, queued, tokened>>

\* A whole-spec update may change anything but the source; a source update only that.
UpdateApp(r) == Exists(App) /\ \E n \in EnvNames : Read(r, "edit b", App, [Plain EXCEPT ![n] = "plain"])
UpdateAppSource(r) == Exists(App) /\ \E s \in {0, 1} : s # objs[App].a /\ Read(r, "edit a", App, s)

\* Storage is refused to shrink; the web interface is switched by an update of its own.
Resize(r, k) == Exists(k) /\ \E s \in Sizes : s >= objs[k].a /\ Read(r, "edit a", k, s)
Toggle(r, k) == Exists(k) /\ \E ui \in BOOLEAN : Read(r, "edit b", k, ui)
UpdatePostgres(r) == \E k \in DatabasesOf("Postgres") : Resize(r, k)
UpdatePgweb(r) == \E k \in DatabasesOf("Postgres") : Toggle(r, k)
UpdateMongo(r) == \E k \in DatabasesOf("Mongo") : Resize(r, k)
UpdateMongoExpress(r) == \E k \in DatabasesOf("Mongo") : Toggle(r, k)

\* The object that was read, with the one field of the request replaced.
Edited(r) ==
    IF req[r].op = "edit a" THEN [req[r].read EXCEPT !.a = req[r].arg]
                            ELSE [req[r].read EXCEPT !.b = req[r].arg]

\* Mutant of NeedsBuild: a new source waits for the next push.
NeedsBuild_Never(r) == FALSE

\* handleUpdateAppSource queues a build when it changed something.
NeedsBuild(r) == req[r].key = App /\ Edited(r).a # req[r].read.a

UpdateWrite(r) ==
    /\ req[r].op \in {"edit a", "edit b"} /\ req[r].pc = "update"
    /\ \/ /\ Current(r) /\ objs' = [objs EXCEPT ![req[r].key] = Edited(r)]
          /\ queued' = (queued /\ ~(req[r].key = App /\ req[r].op = "edit a"))
          /\ IF NeedsBuild(r) THEN Step(r, "enqueue") /\ UNCHANGED failed ELSE Answer(r)
       \/ ~Current(r) /\ Answer(r) /\ UNCHANGED <<objs, queued>>
    /\ UNCHANGED <<secrets, nameMu, started, faults, tokened>>

(***************************************************************************)
(* The environment editor: handleSetEnv.                                   *)
(***************************************************************************)

\* Mutant of ReconcileEnvRefs: only the managed variables survive.
ReconcileEnvRefs_DropsOthers(env, keys) == [n \in EnvNames |-> IF n \in keys THEN "managed" ELSE "none"]

\* reconcileEnvRefs: the keys sent become references to the App's Secret, other
\* references to it go, everything else stays.
ReconcileEnvRefs(env, keys) ==
    [n \in EnvNames |-> IF n \in keys THEN "managed" ELSE IF env[n] = "managed" THEN "none" ELSE env[n]]

SetEnvRead(r) ==
    /\ Start(r) /\ Exists(App)
    /\ \E keys \in EnvSets : Goto(r, "env", "secret", App, objs[App], keys)
    /\ UNCHANGED <<objs, secrets, nameMu, faults, failed, queued, tokened>>

\* writeEnvSecret: created, or overwritten without looking.
WriteEnvSecret(r) ==
    /\ req[r].op = "env" /\ req[r].pc = "secret"
    /\ Overwrite("x-env", req[r].read.uid, req[r].arg)
    /\ Step(r, "spec")
    /\ UNCHANGED <<objs, nameMu, started, faults, failed, queued, tokened>>

SetEnvSpec(r) ==
    /\ req[r].op = "env" /\ req[r].pc = "spec"
    /\ \/ /\ Current(r) /\ Answer(r)
          /\ objs' = [objs EXCEPT ![App].b = ReconcileEnvRefs(@, req[r].arg)]
       \/ ~Current(r) /\ FailHalfway(r) /\ UNCHANGED objs
    /\ UNCHANGED <<secrets, nameMu, started, faults, queued, tokened>>

(***************************************************************************)
(* Secret stores and syncs.                                                *)
(***************************************************************************)

\* credentialsNameTaken
CredentialsNameTaken == \E k \in Databases : k.kind = "Postgres" /\ k.name = "x-credentials" /\ Exists(k)

ConnectCheck(r) ==
    /\ Start(r) /\ ~CredentialsNameTaken
    /\ Goto(r, "connect", "store", Store, None, None)
    /\ UNCHANGED <<objs, secrets, nameMu, faults, failed, queued, tokened>>

ConnectStore(r) ==
    /\ req[r].op = "connect" /\ req[r].pc = "store"
    /\ \/ /\ ~Exists(Store) /\ CreateObject(Store, 0, 0)
          /\ Goto(r, "connect", "token", Store, [uid |-> FreshUid], None) /\ UNCHANGED failed
       \/ Exists(Store) /\ Answer(r) /\ UNCHANGED objs
    /\ tokened' = (Exists(Store) /\ tokened)
    /\ UNCHANGED <<secrets, nameMu, started, faults, queued>>

\* Mutant of StrictCreate: the token is written over whatever has its name.
StrictCreate_Overwrites == TRUE

\* On connect a Secret that exists belongs to something else.
StrictCreate == secrets["x-credentials"] = None

\* writeCredentialsSecret, allowExisting = false; a failure rolls the store back.
ConnectToken(r) ==
    /\ req[r].op = "connect" /\ req[r].pc = "token"
    /\ \/ /\ StrictCreate /\ Overwrite("x-credentials", req[r].read.uid, {}) /\ Answer(r)
          /\ tokened' = IF Exists(Store) THEN tokened \/ objs[Store].uid = req[r].read.uid ELSE FALSE
       \/ ~StrictCreate /\ Step(r, "rollback") /\ UNCHANGED <<secrets, failed, tokened>>
    /\ UNCHANGED <<objs, nameMu, started, faults, queued>>

\* Mutant of Rollback: a failed connect leaves its store behind.
Rollback_Never(r) ==
    /\ req[r].op = "connect" /\ req[r].pc = "rollback"
    /\ Answer(r)
    /\ UNCHANGED <<objs, secrets, nameMu, started, faults, queued, tokened>>

\* The rollback deletes by name.
Rollback(r) ==
    /\ req[r].op = "connect" /\ req[r].pc = "rollback"
    /\ objs' = [objs EXCEPT ![Store] = None]
    /\ Answer(r)
    /\ UNCHANGED <<secrets, nameMu, started, faults, queued, tokened>>

\* handleUpdateSecretStore with a new token.
RotateRead(r) ==
    /\ Start(r) /\ Exists(Store) /\ ~CredentialsNameTaken
    /\ Goto(r, "rotate", "store", Store, objs[Store], None)
    /\ UNCHANGED <<objs, secrets, nameMu, faults, failed, queued, tokened>>

RotateStore(r) ==
    /\ req[r].op = "rotate" /\ req[r].pc = "store"
    /\ \/ Current(r) /\ Step(r, "token") /\ UNCHANGED failed
       \/ ~Current(r) /\ Answer(r)
    /\ UNCHANGED <<objs, secrets, nameMu, started, faults, queued, tokened>>

RotateToken(r) ==
    /\ req[r].op = "rotate" /\ req[r].pc = "token"
    /\ Overwrite("x-credentials", req[r].read.uid, {}) /\ Answer(r)
    /\ UNCHANGED <<objs, nameMu, started, faults, queued, tokened>>

\* handleCreateExternalSecret: not under the lock.
SyncCheck(r) ==
    /\ Start(r) /\ Exists(Store)
    /\ ~\E k \in Databases : k.kind = "Postgres" /\ k.name = "x" /\ Exists(k)
    /\ Goto(r, "sync", "create", Sync, None, None)
    /\ UNCHANGED <<objs, secrets, nameMu, faults, failed, queued, tokened>>

SyncCreate(r) ==
    /\ req[r].op = "sync"
    /\ IF Exists(Sync) THEN UNCHANGED objs ELSE CreateObject(Sync, 0, 0)
    /\ Answer(r)
    /\ UNCHANGED <<secrets, nameMu, started, faults, queued, tokened>>

\* A call fails: the handler answers with an error, releases the lock, and rolls
\* a store back whose token it could not write.
CallFails(r) ==
    /\ req[r].op # "idle" /\ faults < MaxFaults /\ faults' = faults + 1
    /\ IF req[r].op = "connect" /\ req[r].pc = "token" THEN Step(r, "rollback") /\ UNCHANGED failed
       ELSE IF req[r].pc \in {"enqueue", "spec", "token", "rollback"} THEN FailHalfway(r) ELSE Answer(r)
    /\ nameMu' = Unlocked(r)
    /\ UNCHANGED <<objs, secrets, started, queued, tokened>>

(***************************************************************************)
(* The environment: a database or a sync claims a Secret that is not       *)
(* another's, and a Secret whose owner is gone is collected.               *)
(***************************************************************************)

Claim(k) ==
    /\ k \in Databases \cup {Sync} /\ Exists(k) /\ secrets[k.name] = None
    /\ Overwrite(k.name, objs[k].uid, {})
    /\ UNCHANGED <<objs, req, nameMu, started, faults, failed, queued, tokened>>

Collect(n) ==
    /\ secrets[n] # None /\ secrets[n].owner \notin LiveUids
    /\ secrets' = [secrets EXCEPT ![n] = None]
    /\ UNCHANGED <<objs, req, nameMu, started, faults, failed, queued, tokened>>

Handler(r) ==
    \/ CreateNamed(r) \/ EnqueueManualDeploy(r) \/ UpdateWrite(r) \/ WriteEnvSecret(r) \/ SetEnvSpec(r)
    \/ ConnectStore(r) \/ ConnectToken(r) \/ Rollback(r) \/ RotateStore(r) \/ RotateToken(r) \/ SyncCreate(r)

Next ==
    \/ \E r \in Requests :
          \/ CreateApp(r) \/ CreatePostgres(r) \/ CreateMongo(r)
          \/ DeleteApp(r) \/ DeletePostgres(r) \/ DeleteMongo(r) \/ DeleteSecretStore(r) \/ DeleteExternalSecret(r)
          \/ UpdateApp(r) \/ UpdateAppSource(r) \/ UpdatePostgres(r) \/ UpdatePgweb(r)
          \/ UpdateMongo(r) \/ UpdateMongoExpress(r) \/ SetEnvRead(r)
          \/ ConnectCheck(r) \/ RotateRead(r) \/ SyncCheck(r)
          \/ Handler(r) \/ CallFails(r)
    \/ (\E k \in Keys : Claim(k)) \/ (\E n \in SecretNames : Collect(n))

Spec == Init /\ [][Next]_vars

(***************************************************************************)
(* Properties.                                                             *)
(***************************************************************************)

\* What a request has in hand at each of its steps.
ReqTyped(r) ==
    /\ DOMAIN req[r] = {"op", "pc", "key", "read", "arg"}
    /\ \/ req[r] = Idle
       \/ /\ req[r].op = "create" /\ req[r].read = None
          /\ \/ req[r].pc = "create" /\ req[r].key \in {App} \cup Databases
             \/ req[r].pc = "enqueue" /\ req[r].key = App
       \/ /\ req[r].op = "edit a" /\ req[r].arg \in Nat
          /\ \/ req[r].pc = "update" /\ req[r].key \in {App} \cup Databases
             \/ req[r].pc = "enqueue" /\ req[r].key = App
          /\ req[r].read \in Objects(req[r].key)
       \/ /\ req[r].op = "edit b" /\ req[r].pc = "update" /\ req[r].key \in {App} \cup Databases
          /\ req[r].arg \in FieldB(req[r].key) /\ req[r].read \in Objects(req[r].key)
       \/ /\ req[r].op = "env" /\ req[r].pc \in {"secret", "spec"} /\ req[r].key = App
          /\ req[r].arg \in EnvSets /\ req[r].read \in Objects(App)
       \/ /\ req[r].op = "connect" /\ req[r].key = Store
          /\ \/ req[r].pc = "store" /\ req[r].read = None
             \/ req[r].pc \in {"token", "rollback"} /\ req[r].read \in [uid : Uids]
       \/ /\ req[r].op = "rotate" /\ req[r].pc \in {"store", "token"} /\ req[r].key = Store
          /\ req[r].read \in Objects(Store)
       \/ req[r].op = "sync" /\ req[r].pc = "create" /\ req[r].read = None

\* The types of objects, Secrets and requests; the lock is held exactly by the
\* request that is between its checks and its create.
TypeOK ==
    /\ DOMAIN objs = Keys /\ \A k \in Keys : Exists(k) => objs[k] \in Objects(k)
    /\ secrets \in [SecretNames -> [owner : Uids, keys : SUBSET EnvNames] \cup {None}]
    /\ DOMAIN req = Requests /\ \A r \in Requests : ReqTyped(r)
    /\ nameMu \in Requests \cup {None}
    /\ \A r \in Requests : req[r].op = "create" <=> nameMu = r

\* However creates of several kinds interleave, a name belongs to one kind.
OneKindPerName ==
    \A j, k \in {App} \cup Databases : (Exists(j) /\ Exists(k) /\ j.name = k.name) => j = k

\* A Secret whose owner lives is not taken over by a connect, a claim or any
\* other call, except by the rotation of a store's token and by the environment
\* editor, which write without looking.
OwnedSecretKept ==
    [][\A n \in SecretNames :
          (secrets[n] # None /\ secrets[n].owner \in LiveUids /\ secrets'[n] # secrets[n])
          => \E r \in Requests : req[r].op \in {"rotate", "env"} /\ req'[r] # req[r]]_vars

\* An edit of one field never undoes an edit of the other that came between its
\* read and its write: an object changes in at most one of its fields at a time.
EditsMerge ==
    [][\A k \in Keys : (Exists(k) /\ objs'[k] # None /\ objs'[k].uid = objs[k].uid)
                       => objs'[k].a = objs[k].a \/ objs'[k].b = objs[k].b]_vars

\* The storage a database asks for never shrinks, whatever two updates read.
StorageGrows ==
    [][\A k \in Databases : (Exists(k) /\ objs'[k] # None /\ objs'[k].uid = objs[k].uid)
                            => objs'[k].a >= objs[k].a]_vars

\* The environment editor keeps the variables it does not manage, unless the
\* request names them.
PlainVariablesKept ==
    [][\A r \in Requests, n \in EnvNames :
          (/\ req[r].op = "env" /\ req'[r].op = "idle" /\ objs'[App] # objs[App]
           /\ objs[App].b[n] = "plain" /\ n \notin req[r].arg)
          => objs'[App].b[n] = "plain"]_vars

\* No store is left that never had its token: it has had it, the connect that
\* made it is still at work or rolling back, or a call failed halfway.
NoHalfConnect ==
    Exists(Store) =>
        \/ tokened \/ failed
        \/ \E r \in Requests : /\ req[r].op = "connect" /\ req[r].read # None
                               /\ req[r].read.uid = objs[Store].uid

\* Every source an App is given gets a build: one has been queued for the
\* present source, or the request that set it is about to queue it, whatever
\* other edits came between; only a failed call loses it.
SourceQueued ==
    (Exists(App) /\ ~queued /\ ~failed) =>
        \E r \in Requests : req[r].pc = "enqueue" /\ req[r].arg = objs[App].a

\* Types and names: the lock is held exactly across a create, and a name belongs
\* to one kind.
NamesSound == TypeOK /\ OneKindPerName

\* A connect is made as a whole or not at all, and takes no one's Secret.
ConnectsWhole == []NoHalfConnect /\ OwnedSecretKept

\* An edit changes what it names and nothing that came between its read and its
\* write: no field is undone, no storage shrinks, no plain variable goes.
EditsKept == EditsMerge /\ StorageGrows /\ PlainVariablesKept
=============================================================================
