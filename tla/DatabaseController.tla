-------------------------- MODULE DatabaseController --------------------------
(***************************************************************************)
(* The Postgres and Mongo controllers: each provisions a connection Secret,*)
(* a Service and a StatefulSet of the database's name, grows its volume    *)
(* and, when asked, runs a web UI beside it (Pgweb, Mongo Express).        *)
(*                                                                         *)
(*   operator/internal/controller/postgres_controller.go                   *)
(*   operator/internal/controller/mongo_controller.go                      *)
(*                                                                         *)
(* The two controllers are the same code over two kinds, with one worker   *)
(* each.  The model follows one name, under which there may be a Postgres, *)
(* a Mongo or both: their Secret, Service, StatefulSet and volume claim    *)
(* have one name, their UI objects have two.  A database is read from an   *)
(* informer cache that lags, Secrets and the volume claim from the API     *)
(* server; the caches of Services, StatefulSets and Deployments are taken  *)
(* as current, for behind they only make a create or an update fail that   *)
(* is then tried again.  Of a password the model keeps whether it equals   *)
(* another: a generated one is any that no Secret, volume or running       *)
(* reconcile holds.  Of the status it keeps the Ready condition.           *)
(***************************************************************************)
EXTENDS Integers, FiniteSets

CONSTANTS
    Null,
    Sizes,        \* storage sizes; 0 is below the minimum
    NewSizes,     \* the sizes databases are created with
    MaxEvents     \* bound on creations, edits, deletions, failed calls, lost pods, restarts

Kinds == {"postgres", "mongo"}
Owners == Kinds \X (1..MaxEvents)     \* a database: its kind and uid
Eso == <<"externalsecret", 0>>        \* a controller that is not Orkano's
Nobody == <<"nobody", 0>>             \* a user made the object by hand

Passwords == 0..5       \* 0: no password
Databases == [owner : Owners, size : Sizes, ui : BOOLEAN, deleting : BOOLEAN,
              ready : {"pending", "ready", "refused"}]
Secrets   == [owner : Owners \cup {Eso, Nobody}, pw : Passwords]
Sets      == [owner : Owners, size : Sizes, up : BOOLEAN]
Claims    == [set : Owners, size : Sizes, pw : Passwords]

ASSUME DatabaseConstants ==
    /\ Sizes \subseteq Nat /\ NewSizes \subseteq Sizes /\ MaxEvents \in Nat
    /\ Null \notin Databases \cup Secrets \cup Sets \cup Claims \cup Owners \cup {Eso}

VARIABLES
    db,        \* [Kinds -> database or Null]
    secret,    \* the connection Secret
    sts,       \* the StatefulSet, and the Service that is created with it
    pvc,       \* the volume claim: the set it is of, its size, the password it was initialised with
    ui,        \* [Kinds -> owner of the UI's Deployment, Service and NetworkPolicy]
    session,   \* owner of Mongo Express's session Secret
    dbc,       \* what the informers show of db
    queue,     \* kinds whose database is in the work queue
    work,      \* [Kinds -> the reconcile that runs: step, copy of the database, Secret read]
    events

databaseObjects == <<db, secret, sts, pvc, ui, session>>
databaseVars    == <<databaseObjects, dbc, queue, work, events>>

Event == events < MaxEvents /\ events' = events + 1

Idle == [pc |-> "idle", b |-> Null, sec |-> Null]

DatabaseInit ==
    /\ db = [k \in Kinds |-> Null] /\ secret = Null /\ sts = Null /\ pvc = Null
    /\ ui = [k \in Kinds |-> Null] /\ session = Null
    /\ dbc = db /\ queue = {} /\ work = [k \in Kinds |-> Idle] /\ events = 0

(***************************************************************************)
(* Users.                                                                  *)
(***************************************************************************)

Create(k, n) ==
    /\ db[k] = Null /\ Event
    /\ db' = [db EXCEPT ![k] = [owner |-> <<k, events + 1>>, size |-> n, ui |-> FALSE,
                                deleting |-> FALSE, ready |-> "pending"]]

Resize(k, n) ==
    /\ db[k] # Null /\ ~db[k].deleting /\ n # db[k].size /\ Event
    /\ db' = [db EXCEPT ![k].size = n]

ToggleUI(k) ==
    /\ db[k] # Null /\ ~db[k].deleting /\ Event
    /\ db' = [db EXCEPT ![k].ui = ~@]

\* In the background, or in the foreground: then the database stays until the
\* garbage collector has removed what it owns.
Delete(k) ==
    /\ db[k] # Null /\ ~db[k].deleting /\ Event
    /\ \/ db' = [db EXCEPT ![k] = Null]
       \/ db' = [db EXCEPT ![k].deleting = TRUE]

\* A Secret of the database's name that Orkano did not make, controlled by an
\* ExternalSecret or by nobody.
ForeignSecret ==
    /\ secret = Null /\ Event
    /\ \E o \in {Eso, Nobody} : secret' = [owner |-> o, pw |-> 0]
    /\ UNCHANGED <<db, sts, pvc, ui, session, dbc, queue, work>>

Users ==
    \/ /\ \E k \in Kinds : \/ Delete(k) \/ ToggleUI(k)
                        \/ (\E n \in NewSizes : Create(k, n))
                        \/ (\E n \in Sizes : Resize(k, n))
       /\ UNCHANGED <<secret, sts, pvc, ui, session, dbc, queue, work>>
    \/ ForeignSecret

(***************************************************************************)
(* Kubernetes: the garbage collector, the StatefulSet controller, the      *)
(* informers.                                                              *)
(***************************************************************************)

LiveOwner(o) == \E k \in Kinds : db[k] # Null /\ db[k].owner = o /\ ~db[k].deleting
Garbage(o) == o # Null /\ o \in Owners /\ ~LiveOwner(o)
OwnerOf(x) == IF x = Null THEN Null ELSE x.owner

\* Mutant of Watchers: nothing but the database is watched.
Watchers_None(o) == {}

\* Owns(StatefulSet), Owns(Service), Owns(Deployment), Owns(NetworkPolicy): an
\* event of an object puts the database that controls it in the queue.
Watchers(o) == IF o = Null THEN {} ELSE {o[1]}

CollectSecret ==
    /\ Garbage(OwnerOf(secret)) /\ secret' = Null
    /\ UNCHANGED <<db, sts, pvc, ui, session, dbc, queue, work, events>>

CollectSet ==
    /\ Garbage(OwnerOf(sts)) /\ sts' = Null /\ queue' = queue \cup Watchers(sts.owner)
    /\ UNCHANGED <<db, secret, pvc, ui, session, dbc, work, events>>

CollectUI(k) ==
    /\ Garbage(ui[k]) /\ ui' = [ui EXCEPT ![k] = Null] /\ queue' = queue \cup Watchers(ui[k])
    /\ UNCHANGED <<db, secret, sts, pvc, session, dbc, work, events>>

CollectSession ==
    /\ Garbage(session) /\ session' = Null
    /\ UNCHANGED <<db, secret, sts, pvc, ui, dbc, queue, work, events>>

\* Mutant of RetainedWhenDeleted: the volume outlives its StatefulSet.
RetainedWhenDeleted_Always == TRUE

\* PersistentVolumeClaimRetentionPolicy.WhenDeleted is Delete.
RetainedWhenDeleted == FALSE

CollectClaim ==
    /\ ~RetainedWhenDeleted
    /\ pvc # Null /\ OwnerOf(sts) # pvc.set
    /\ pvc' = Null
    /\ UNCHANGED <<db, secret, sts, ui, session, dbc, queue, work, events>>

CollectDatabase(k) ==
    /\ db[k] # Null /\ db[k].deleting
    /\ db[k].owner \notin {OwnerOf(secret), OwnerOf(sts), ui[k], session}
    /\ db' = [db EXCEPT ![k] = Null]
    /\ UNCHANGED <<secret, sts, pvc, ui, session, dbc, queue, work, events>>

CreateClaim ==
    /\ sts # Null /\ pvc = Null
    /\ pvc' = [set |-> sts.owner, size |-> sts.size, pw |-> 0]
    /\ UNCHANGED <<db, secret, sts, ui, session, dbc, queue, work, events>>

\* The pod starts on its own set's volume (a claim of a set that is gone blocks
\* it until the claim is collected) and initialises an empty one with the
\* password in the Secret.
StartPod ==
    /\ sts # Null /\ ~sts.up /\ pvc # Null
    /\ pvc.set = sts.owner \/ RetainedWhenDeleted
    /\ secret # Null /\ secret.pw # 0
    /\ sts' = [sts EXCEPT !.up = TRUE] /\ queue' = queue \cup Watchers(sts.owner)
    /\ pvc' = [pvc EXCEPT !.set = sts.owner, !.pw = IF @ = 0 THEN secret.pw ELSE @]
    /\ UNCHANGED <<db, secret, ui, session, dbc, work, events>>

LosePod ==
    /\ sts # Null /\ sts.up /\ Event
    /\ sts' = [sts EXCEPT !.up = FALSE] /\ queue' = queue \cup Watchers(sts.owner)
    /\ UNCHANGED <<db, secret, pvc, ui, session, dbc, work>>

SyncDatabase(k) ==
    /\ dbc[k] # db[k] /\ dbc' = [dbc EXCEPT ![k] = db[k]]
    /\ queue' = queue \cup {k}
    /\ UNCHANGED <<databaseObjects, work, events>>

Kubernetes ==
    \/ CollectSecret \/ CollectSet \/ CollectSession \/ CollectClaim
    \/ CreateClaim \/ StartPod \/ LosePod
    \/ \E k \in Kinds : CollectUI(k) \/ CollectDatabase(k) \/ SyncDatabase(k)

(***************************************************************************)
(* The reconciler, in three steps: up to the read of the Secret; its       *)
(* write; Service, StatefulSet, volume, UI and status.                     *)
(***************************************************************************)

Uid(k) == work[k].b.owner
GoOn(k, w) == work' = [work EXCEPT ![k] = w]
Requeue(k) == queue' = queue \cup {k}

\* updateStatus: a status that changed is written, and the API server takes it
\* when the copy b is still current.
UpdateDatabaseStatus(k, b, r) == IF db[k] = b THEN db' = [db EXCEPT ![k].ready = r] ELSE UNCHANGED db

\* Mutant of FailDatabaseReady: the copy is kept.
FailDatabaseReady_KeepsCopy(k, b, r) ==
    /\ UpdateDatabaseStatus(k, b, r)
    /\ GoOn(k, [Idle EXCEPT !.b = b]) /\ Requeue(k)

\* failReady: the reason is written, the error puts the database back in the queue.
FailDatabaseReady(k, b, r) ==
    /\ UpdateDatabaseStatus(k, b, r)
    /\ GoOn(k, Idle) /\ Requeue(k)

Fail(k, r) == FailDatabaseReady(k, work[k].b, r)

\* Name, version and minimum size; only the size can be wrong here.
Valid(d) == d.size > 0

Without(o, b) == IF o = b.owner THEN Null ELSE o

\* disablePgweb: the objects the database controls are deleted.
DisablePgweb(b) == ui' = [ui EXCEPT !["postgres"] = Without(@, b)] /\ UNCHANGED session

\* Mutant of DisableMongoExpress: the session Secret is looked up in the cache,
\* which has none.
DisableMongoExpress_Cached(b) == ui' = [ui EXCEPT !["mongo"] = Without(@, b)] /\ UNCHANGED session

\* disableMongoExpress, deleteOwnedMongoExpressObject: the session Secret is
\* read at the API server.
DisableMongoExpress(b) ==
    ui' = [ui EXCEPT !["mongo"] = Without(@, b)] /\ session' = Without(session, b)

DisableUI(k, b) == IF k = "postgres" THEN DisablePgweb(b) ELSE DisableMongoExpress(b)

\* Mutant of Skipped: a database that is being deleted is provisioned.
Skipped_Gone(d) == d = Null

\* Nothing to do for a database that is gone or being deleted.
Skipped(d) == IF d = Null THEN TRUE ELSE d.deleting

\* From the copy in the cache: validation, a UI that is off, the read of the Secret.
Begin(k) ==
    /\ work[k].pc = "idle" /\ k \in queue
    /\ LET b == dbc[k]
           begun == /\ GoOn(k, [Idle EXCEPT !.pc = "write", !.b = b, !.sec = secret])
                    /\ queue' = queue \ {k} /\ UNCHANGED <<db, events>>
       IN
       \/ /\ Skipped(b)
          /\ queue' = queue \ {k} /\ UNCHANGED <<db, ui, session, work, events>>
       \/ /\ ~Skipped(b) /\ ~Valid(b)
          /\ FailDatabaseReady(k, b, "refused") /\ UNCHANGED <<ui, session, events>>
       \/ /\ ~Skipped(b) /\ Valid(b) /\ b.ui
          /\ begun /\ UNCHANGED <<ui, session>>
       \/ /\ ~Skipped(b) /\ Valid(b) /\ ~b.ui
          /\ DisableUI(k, b) /\ begun
       \/ /\ ~Skipped(b) /\ Valid(b) /\ ~b.ui         \* a delete failed: the rest stays
          /\ Event /\ UNCHANGED session
          /\ UNCHANGED ui \/ ui' = [ui EXCEPT ![k] = Without(@, b)]
          /\ FailDatabaseReady(k, b, b.ready)
    /\ UNCHANGED <<secret, sts, pvc, dbc>>

\* generatePassword
Fresh == CHOOSE p \in Passwords \ {0} :
            /\ \A s \in {secret, pvc} : s # Null => s.pw # p
            /\ \A j \in Kinds : work[j].sec # Null => work[j].sec.pw # p

\* The password is generated once and kept.
Password(s) == IF s = Null THEN Fresh ELSE IF s.pw = 0 THEN Fresh ELSE s.pw

\* Mutant of Controllable: the Secret is taken whoever controls it.
Controllable_Any(k, s) == TRUE

\* SetControllerReference: AlreadyOwnedError for another controller's object.
Controllable(k, s) == IF s = Null THEN TRUE ELSE s.owner \in {Nobody, Uid(k)}

\* ensureSecret, from the copy that was read: create, leave alone or update.
EnsureSecret(k) ==
    /\ work[k].pc = "write"
    /\ LET s == work[k].sec IN
       \/ /\ ~Controllable(k, s)
          /\ Fail(k, "refused") /\ UNCHANGED secret
       \/ /\ Controllable(k, s) /\ secret = s
          /\ secret' = [owner |-> Uid(k), pw |-> Password(s)]
          /\ GoOn(k, [work[k] EXCEPT !.pc = "provision", !.sec = Null])
          /\ UNCHANGED <<db, queue>>
       \/ /\ Controllable(k, s) /\ secret # s        \* AlreadyExists, NotFound, Conflict
          /\ Fail(k, "pending") /\ UNCHANGED secret
    /\ UNCHANGED <<sts, pvc, ui, session, dbc, events>>

\* CreateOrUpdate: an object that is not there is created; one that is there
\* must be the database's.
Ensurable(k, o) == o \in {Null, Uid(k)}

\* ensureService, ensureStatefulSet.  The size of the claim template is set when
\* the set is created, and never again.
EnsureStatefulSet(k) ==
    sts' = IF sts = Null THEN [owner |-> Uid(k), size |-> work[k].b.size, up |-> FALSE] ELSE sts

\* Mutant of Shrinks: the claim gets whatever size is asked for.
Shrinks_Never(want) == FALSE

\* The claim is read at the API server; a smaller size is refused.
Shrinks(want) == IF pvc = Null THEN FALSE ELSE want < pvc.size

GrowStorage(want) == pvc' = IF pvc = Null THEN Null ELSE [pvc EXCEPT !.size = want]

\* reconcilePgweb: Service, Deployment and NetworkPolicy.
ReconcilePgweb ==
    /\ ui' = [ui EXCEPT !["postgres"] = IF Ensurable("postgres", @) THEN Uid("postgres") ELSE @]
    /\ UNCHANGED session

\* ensureMongoExpressSecret
EnsureSession == session' = IF session = Null THEN Uid("mongo") ELSE session

\* reconcileMongoExpress: the session Secret first; one that cannot be had ends it.
ReconcileMongoExpress ==
    /\ EnsureSession
    /\ ui' = [ui EXCEPT !["mongo"] =
                  IF Ensurable("mongo", session) /\ Ensurable("mongo", @) THEN Uid("mongo") ELSE @]

ReconcileUI(k) == IF k = "postgres" THEN ReconcilePgweb ELSE ReconcileMongoExpress
UISettled(k) == ui[k] = Uid(k) /\ (k = "mongo" => session = Uid(k))

\* The status is written whatever became of the UI, whose error requeues as a
\* conflict does; the objects that were created are events of their own.
WriteStatus(k) ==
    LET b == work[k].b
        r == IF sts'.up THEN "ready" ELSE "pending"
        quiet == /\ db[k] = b \/ r = b.ready             \* no conflict
                 /\ b.ui => UISettled(k)
                 /\ <<sts, ui>>' = <<sts, ui>>
    IN /\ UpdateDatabaseStatus(k, b, r)
       /\ queue' = IF quiet THEN queue ELSE queue \cup {k}

\* An error ends the reconcile where it happens; what came before it stays.
Provision(k) ==
    /\ work[k].pc = "provision"
    /\ LET b == work[k].b IN
       \/ /\ ~Ensurable(k, OwnerOf(sts))
          /\ Fail(k, "pending") /\ UNCHANGED <<sts, pvc, ui, session, events>>
       \/ /\ Ensurable(k, OwnerOf(sts)) /\ EnsureStatefulSet(k)
          /\ \/ /\ Shrinks(b.size)
                /\ Fail(k, "refused") /\ UNCHANGED <<pvc, ui, session, events>>
             \/ /\ Event /\ Fail(k, "pending") /\ UNCHANGED <<pvc, ui, session>>
             \/ /\ ~Shrinks(b.size) /\ GrowStorage(b.size)
                /\ IF b.ui THEN ReconcileUI(k) ELSE UNCHANGED <<ui, session>>
                /\ WriteStatus(k) /\ GoOn(k, Idle) /\ UNCHANGED events
    /\ UNCHANGED <<secret, dbc>>

\* The operator stops and starts again: every database is in the queue.
RestartOperator ==
    /\ Event
    /\ work' = [k \in Kinds |-> Idle]
    /\ queue' = Kinds
    /\ dbc' = db
    /\ UNCHANGED databaseObjects

MongoEnsureSecret == EnsureSecret("mongo")
MongoProvision    == Provision("mongo")
PostgresReconcile == Begin("postgres") \/ EnsureSecret("postgres") \/ Provision("postgres")
MongoReconcile    == Begin("mongo") \/ MongoEnsureSecret \/ MongoProvision

DatabaseNext == Users \/ Kubernetes \/ RestartOperator \/ PostgresReconcile \/ MongoReconcile

DatabaseSpec == DatabaseInit /\ [][DatabaseNext]_databaseVars

\* Kubernetes keeps working, and a queued database is reconciled.
DatabaseFairSpec ==
    /\ DatabaseSpec
    /\ WF_databaseVars(CollectSecret) /\ WF_databaseVars(CollectSet)
    /\ WF_databaseVars(CollectSession) /\ WF_databaseVars(CollectClaim)
    /\ WF_databaseVars(CreateClaim) /\ WF_databaseVars(StartPod)
    /\ \A k \in Kinds : /\ WF_databaseVars(CollectUI(k)) /\ WF_databaseVars(CollectDatabase(k))
                        /\ WF_databaseVars(SyncDatabase(k))
    /\ WF_databaseVars(PostgresReconcile) /\ WF_databaseVars(MongoReconcile)

(***************************************************************************)
(* Properties.                                                             *)
(***************************************************************************)

\* The types of the variables: objects have one of their owners, the reconcile
\* one of its steps.
DatabaseTypeOK ==
    /\ db \in [Kinds -> Databases \cup {Null}]
    /\ secret \in Secrets \cup {Null}
    /\ sts \in Sets \cup {Null} /\ pvc \in Claims \cup {Null}
    /\ ui \in [Kinds -> Owners \cup {Null}] /\ session \in Owners \cup {Null}
    /\ \A k \in Kinds : /\ work[k].pc \in {"idle", "write", "provision"}
                        /\ work[k].b \in Databases \cup {Null} /\ work[k].sec \in Secrets \cup {Null}
                        /\ (work[k].pc # "idle") = (work[k].b # Null)
    /\ queue \subseteq Kinds

\* The password in the connection Secret is the one the database was
\* initialised with: while a database is not being deleted and its set has an
\* initialised volume, the Secret is the database's and holds the volume's
\* password.  No reconcile, restart, edit or recreation under the same name
\* locks the users of a database out of it.
CredentialsMatch ==
    \A k \in Kinds :
        (/\ db[k] # Null /\ ~db[k].deleting
         /\ sts # Null /\ sts.owner = db[k].owner
         /\ pvc # Null /\ pvc.set = sts.owner /\ pvc.pw # 0)
        => secret = [owner |-> db[k].owner, pw |-> pvc.pw]

\* A Secret that something else controls (an ExternalSecret, the other database
\* of the name while it lives) is never taken over by a database's controller:
\* "overwriting is never an option".
OthersSecretKept ==
    [][\A o \in Owners \cup {Eso} :
          (OwnerOf(secret) = o /\ (o = Eso \/ LiveOwner(o))) => OwnerOf(secret') = o]_databaseVars

\* The volume of a StatefulSet never gets smaller, whatever the database asks
\* for and however old the copy the controller works from.
StorageNeverShrinks ==
    [][(pvc # Null /\ pvc' # Null /\ pvc'.set = pvc.set) => pvc'.size >= pvc.size]_databaseVars

Alone(k) ==
    /\ db[k] # Null /\ ~db[k].deleting /\ Valid(db[k])
    /\ \A j \in Kinds \ {k} : db[j] = Null
    /\ OwnerOf(secret) # Eso

\* A database that has its name for itself ends up ready, with a volume of the
\* size it asks for, or refused because that is less than it has.
DatabasesSettle ==
    <>[](\A k \in Kinds : Alone(k) =>
            /\ pvc # Null
            /\ db[k].ready = IF db[k].size < pvc.size THEN "refused" ELSE "ready"
            /\ db[k].size >= pvc.size => pvc.size = db[k].size)

\* A UI that is switched off leaves no object behind, and one that is switched
\* on beside a database that is not refused gets all of its objects.
UISettles ==
    <>[](\A k \in Kinds :
            /\ (db[k] # Null /\ ~db[k].deleting /\ Valid(db[k]) /\ ~db[k].ui)
               => db[k].owner \notin {ui[k], session}
            /\ (Alone(k) /\ db[k].ui /\ db[k].ready # "refused")
               => ui[k] = db[k].owner /\ (k = "mongo" => session = db[k].owner))

\* Deletion completes: the database goes, everything it owned goes, and nothing
\* of it is created again.
DeletionCompletes ==
    <>[](/\ \A k \in Kinds : db[k] # Null => ~db[k].deleting
         /\ \A o \in {OwnerOf(secret), OwnerOf(sts), session, ui["postgres"], ui["mongo"]} : ~Garbage(o)
         /\ pvc # Null => ~Garbage(pvc.set))

\* Types, and the password of a running database: every reconcile, restart, edit
\* and recreation under the same name leaves its users able to open it.
DatabaseUsable == DatabaseTypeOK /\ CredentialsMatch

\* What no reconcile does to the objects it finds under a database's name: it
\* neither takes over a Secret that is someone else's nor shrinks a volume.
ChildrenKept == OthersSecretKept /\ StorageNeverShrinks

\* Once users and faults are done, every database is ready or refused as its
\* spec says, its UI is there or gone, and a deleted one has left nothing.
NamesSettle == DatabasesSettle /\ UISettles /\ DeletionCompletes
=============================================================================
