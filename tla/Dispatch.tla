------------------------------ MODULE Dispatch ------------------------------
(***************************************************************************)
(* The doorbell queue of Orkano: the webhook receiver and the dashboard    *)
(* insert rows into the webhook_deliveries table, and the dispatcher (a    *)
(* leader-elected loop of the operator) claims the oldest row inside a     *)
(* transaction, resolves the authoritative commit of every App the row is  *)
(* about, creates one Build per App and only then deletes the row.         *)
(*                                                                         *)
(*   receiver/internal/webhook/webhook.go     Webhook                      *)
(*   dashboard/internal/server/builds.go      handleDeployApp              *)
(*   operator/internal/dispatcher/*.go        tick, processOne, handle     *)
(*   internal/db/queries/webhook_deliveries.sql                            *)
(*                                                                         *)
(* A delivery id is a member of PushIds (an X-GitHub-Delivery) or of       *)
(* ManualIds (a random id drawn by the dashboard).  What an id is about is *)
(* fixed by PushRepo and ManualApp, for an id is used for one doorbell.    *)
(* A row is its delivery id: the column is unique in the table.            *)
(***************************************************************************)
EXTENDS Integers, FiniteSets, Sequences

CONSTANTS
    Sources,       \* GitHub repositories, Git URLs and uploaded archives
    GitHub,        \* the Sources that are GitHub repositories
    Uploads,       \* the Sources that are uploaded archives
    Allowlist,     \* the repositories the receiver enqueues for
    Commits,
    Apps,
    SourceOf,      \* [Apps -> Sources]
    Gated,         \* Apps that need an unsafe feature this install disables
    PushIds, PushRepo,     \* [PushIds -> GitHub]
    ManualIds, ManualApp,  \* [ManualIds -> Apps]
    None,          \* no row, no App, no commit, no request
    ShortNames,    \* what is left of a commit in a Build's name
    Abbrev,        \* [Commits -> ShortNames], the first 12 hex digits
    MaxConcurrentBuilds,
    Stuck,         \* Sources whose resolution may fail, retryably, at every attempt
    CatchUp,       \* TRUE: the Build informer has caught up whenever a tick reads it
    UserApps,      \* the Apps that users create and delete meanwhile
    Mortal,        \* the Sources that may become unresolvable
    MaxHeads,      \* bound on the commits a source's branch goes through
    MaxFaults      \* bound on transient failures, crashes and Build deletions

Ids == PushIds \cup ManualIds
BuildNames == Apps \X ShortNames \X (ManualIds \cup {None})

ASSUME DispatchConstants ==
    /\ GitHub \subseteq Sources /\ Allowlist \subseteq GitHub
    /\ Uploads \subseteq Sources \ GitHub
    /\ SourceOf \in [Apps -> Sources]
    /\ Gated \subseteq Apps /\ Stuck \subseteq Sources
    /\ PushRepo \in [PushIds -> GitHub]
    /\ ManualApp \in [ManualIds -> Apps]
    /\ PushIds \cap ManualIds = {}
    /\ None \notin Ids \cup Apps \cup Commits
    /\ Abbrev \in [Commits -> ShortNames]
    /\ \A c, d \in Commits : Abbrev[c] = Abbrev[d] => c = d
    /\ IsFiniteSet(Apps) /\ IsFiniteSet(BuildNames)
    /\ MaxConcurrentBuilds \in Nat \ {0}
    /\ MaxHeads \in Nat /\ MaxFaults \in Nat
    /\ CatchUp \in BOOLEAN
    /\ UserApps \subseteq Apps /\ Mortal \subseteq Sources \ Uploads

VARIABLES
    heads,     \* [Sources -> Seq(Commits)]: the commits its ref has pointed at, HEAD last
    shown,     \* [Sources -> Nat]: the digest the cached App carries, for an upload
    gone,      \* Sources that will never resolve again
    apps,      \* [Apps -> AppStates]
    since,     \* [Ids -> Nat]: the place of the commit current when the doorbell rang, or 0
    owed,      \* [Ids -> SUBSET Apps]: Apps the dispatcher could see when the row went in
    queue,     \* Seq(Ids): the rows of webhook_deliveries by ascending id
    locked,    \* rows whose lock a dead dispatcher's transaction still holds
    pc,        \* where the leader's tick is
    budget,    \* deliveries the tick may still process
    row,       \* the row the open transaction holds
    todo,      \* Apps handle() has still to go through
    digest,    \* the upload digest in the listed App
    cur, sha, ver,  \* the App in hand, its resolved commit and that commit's place
    builds,    \* [BuildNames -> BuildStates]
    made,      \* Builds in the order they were created (history)
    faults

world  == <<heads, shown, gone, apps>>
bells  == <<since, owed>>
table  == <<queue, locked>>
worker == <<pc, budget, row, todo, digest, cur, sha, ver>>
vars   == <<world, bells, table, worker, builds, made, faults>>

\* An App is "new" until the dispatcher's informer shows it, and "dying" while
\* the informer still shows an App that was deleted.
AppStates == {"absent", "new", "live", "dying", "deleted"}
Exists(a) == apps[a] \in {"new", "live"}
Visible(a) == apps[a] \in {"live", "dying"}

\* A Build is "unseen" until the informer shows it, "ended" while the informer
\* still shows the phase before Succeeded or Failed.
BuildStates == {"none", "unseen", "running", "ended", "done"}

Rows == {queue[i] : i \in DOMAIN queue}
HeadOf(s) == heads[s][Len(heads[s])]

\* What a doorbell rung now can count on: the HEAD of a repository, or the digest
\* in the spec of the App as the dispatcher's cache has it.
Current(s) == IF s \in Uploads THEN shown[s] ELSE Len(heads[s])

\* appsForDelivery: a push is about every App of the repository, a manual row
\* about the App it names.
Targets(id) == IF id \in PushIds THEN {a \in Apps : SourceOf[a] = PushRepo[id]}
                                 ELSE {ManualApp[id]}
Subject(id) == IF id \in PushIds THEN PushRepo[id] ELSE SourceOf[ManualApp[id]]

\* buildNameForDelivery: app and abbreviated commit, and the request for a manual row.
BuildName(a, c, id) == <<a, Abbrev[c], IF id \in ManualIds THEN id ELSE None>>

Init ==
    /\ heads \in [Sources -> {<<c>> : c \in Commits}]
    /\ shown = [s \in Sources |-> 1]
    /\ gone = {}
    /\ apps = [a \in Apps |-> IF a \in UserApps THEN "absent" ELSE "live"]
    /\ since = [id \in Ids |-> 0]
    /\ owed = [id \in Ids |-> {}]
    /\ queue = <<>> /\ locked = {}
    /\ pc = "idle" /\ budget = 0 /\ row = None /\ todo = {}
    /\ digest = 0 /\ cur = None /\ sha = None /\ ver = 0
    /\ builds = [n \in BuildNames |-> "none"]
    /\ made = <<>>
    /\ faults = 0

(***************************************************************************)
(* The world outside: branches, Apps and the Build controller.             *)
(***************************************************************************)

MoveHead(s, c) ==
    /\ Len(heads[s]) < MaxHeads
    /\ c # HeadOf(s)
    /\ heads' = [heads EXCEPT ![s] = Append(@, c)]

\* A push moves the branch and GitHub rings once for it, under a fresh id.
Push(id, c) ==
    /\ since[id] = 0
    /\ MoveHead(PushRepo[id], c)
    /\ since' = [since EXCEPT ![id] = Len(heads[PushRepo[id]]) + 1]
    /\ UNCHANGED <<shown, gone, apps, owed, table, worker, builds, made, faults>>

\* A Git source moves, or the user uploads a new archive: nobody rings.
ChangeSource(s, c) ==
    /\ s \notin GitHub
    /\ MoveHead(s, c)
    /\ UNCHANGED <<shown, gone, apps, bells, table, worker, builds, made, faults>>

SyncUpload(s) ==
    /\ s \in Uploads /\ shown[s] < Len(heads[s])
    /\ shown' = [shown EXCEPT ![s] = Len(heads[s])]
    /\ UNCHANGED <<heads, gone, apps, bells, table, worker, builds, made, faults>>

\* The repository or ref is deleted (404, 422): ErrUnresolvable from now on.
Vanish(s) ==
    /\ s \in Mortal \ gone
    /\ gone' = gone \cup {s}
    /\ UNCHANGED <<heads, shown, apps, bells, table, worker, builds, made, faults>>

CreateApp(a) == apps[a] = "absent" /\ apps' = [apps EXCEPT ![a] = "new"]
DeleteApp(a) == Exists(a) /\ apps' = [apps EXCEPT ![a] = IF @ = "new" THEN "deleted" ELSE "dying"]
SyncApp(a)   == \/ apps[a] = "new" /\ apps' = [apps EXCEPT ![a] = "live"]
                \/ apps[a] = "dying" /\ apps' = [apps EXCEPT ![a] = "deleted"]

AppChange(a) ==
    /\ a \in UserApps
    /\ CreateApp(a) \/ DeleteApp(a) \/ SyncApp(a)
    /\ UNCHANGED <<heads, shown, gone, bells, table, worker, builds, made, faults>>

Become(n, from, to) == builds[n] = from /\ builds' = [builds EXCEPT ![n] = to]

EndBuild(n) ==
    /\ Become(n, "unseen", "ended") \/ Become(n, "running", IF CatchUp THEN "done" ELSE "ended")
    /\ UNCHANGED <<world, bells, table, worker, made, faults>>

SyncBuild(n) ==
    /\ Become(n, "unseen", "running") \/ Become(n, "ended", "done")
    /\ UNCHANGED <<world, bells, table, worker, made, faults>>

DeleteBuild(n) ==
    /\ faults < MaxFaults
    /\ Become(n, "done", "none")
    /\ faults' = faults + 1
    /\ UNCHANGED <<world, bells, table, worker, made>>

(***************************************************************************)
(* The producers.                                                          *)
(***************************************************************************)

\* INSERT ... ON CONFLICT DO NOTHING on the unique delivery_id.
Insert(id) ==
    IF id \in Rows
    THEN UNCHANGED <<queue, owed>>
    ELSE /\ queue' = Append(queue, id)
         /\ owed' = [owed EXCEPT ![id] = @ \cup {a \in Targets(id) : apps[a] = "live"}]


\* A delivery, or a redelivery, of a push that the receiver answers 202.  Every
\* other answer (405, 413, 400, 401, ping, ignored event, 403, 503) leaves the
\* table alone.
Webhook(id) ==
    /\ since[id] > 0
    /\ PushRepo[id] \in Allowlist
    /\ Insert(id)
    /\ UNCHANGED <<world, since, locked, worker, builds, made, faults>>

\* The INSERT commits but its answer is lost: 500 to GitHub, the row stays.
WebhookUnanswered(id) ==
    /\ since[id] > 0 /\ id \notin Rows
    /\ PushRepo[id] \in Allowlist
    /\ faults < MaxFaults
    /\ Insert(id)
    /\ faults' = faults + 1
    /\ UNCHANGED <<world, since, locked, worker, builds, made>>

\* The deploy button, for an App the API server has and whose features are on.
HandleDeployApp(id) ==
    /\ since[id] = 0
    /\ Exists(ManualApp[id])
    /\ ManualApp[id] \notin Gated
    /\ since' = [since EXCEPT ![id] = Current(SourceOf[ManualApp[id]])]
    /\ Insert(id)
    /\ UNCHANGED <<world, locked, worker, builds, made, faults>>

(***************************************************************************)
(* The dispatcher.                                                         *)
(***************************************************************************)

InFlight == {n \in BuildNames : builds[n] \in {"unseen", "running"}}
\* Mutant of SeenInFlight: finished Builds count against the cap.
SeenInFlight_Finished == {n \in BuildNames : builds[n] \in {"running", "ended", "done"}}
SeenInFlight == {n \in BuildNames : builds[n] \in {"running", "ended"}}

\* Mutant of Budget: the Builds in flight are not counted.
Budget_Uncounted == MaxConcurrentBuilds

\* budget: the cap less the Builds that the cached list shows as unfinished.
Budget == MaxConcurrentBuilds - Cardinality(SeenInFlight)

\* tick: nothing is claimed when the budget is used up.
Tick ==
    /\ pc = "idle"
    /\ Budget > 0
    /\ pc' = "tick" /\ budget' = Budget
    /\ UNCHANGED <<world, bells, table, row, todo, digest, cur, sha, ver, builds, made, faults>>

\* ClaimDelivery: FOR UPDATE SKIP LOCKED, lowest id first.
Free(i) == queue[i] \notin locked
Oldest(i) == Free(i) /\ \A j \in 1..(i - 1) : ~Free(j)

ClaimNext ==
    /\ pc = "tick" /\ budget > 0
    /\ \E i \in DOMAIN queue : Oldest(i) /\ row' = queue[i]
    /\ pc' = "claimed" /\ budget' = budget - 1
    /\ UNCHANGED <<world, bells, table, todo, digest, cur, sha, ver, builds, made, faults>>

\* The budget is spent, or ClaimNext finds no row.
EndTick ==
    /\ pc = "tick"
    /\ budget = 0 \/ \A i \in DOMAIN queue : ~Free(i)
    /\ pc' = "idle" /\ budget' = 0
    /\ UNCHANGED <<world, bells, table, row, todo, digest, cur, sha, ver, builds, made, faults>>

\* appsForDelivery on the cached App list.
AppsForDelivery ==
    /\ pc = "claimed"
    /\ todo' = {a \in Targets(row) : Visible(a)}
    /\ digest' = shown[Subject(row)]
    /\ pc' = "apps"
    /\ UNCHANGED <<world, bells, table, budget, row, cur, sha, ver, builds, made, faults>>

Unbuildable(a) == a \in Gated \/ SourceOf[a] \in gone

\* Mutant of SkipApp: any failure to resolve passes the App over.
SkipApp_AnyFailure(a) ==
    /\ pc = "apps" /\ a \in todo
    /\ todo' = todo \ {a}
    /\ UNCHANGED <<world, bells, table, pc, budget, row, digest, cur, sha, ver, builds, made, faults>>

\* A disabled feature or ErrUnresolvable: the App is passed over.
SkipApp(a) ==
    /\ pc = "apps" /\ a \in todo
    /\ Unbuildable(a)
    /\ todo' = todo \ {a}
    /\ UNCHANGED <<world, bells, table, pc, budget, row, digest, cur, sha, ver, builds, made, faults>>

\* Mutant of ResolveCommit: the commit that rang the bell, not the current one.
ResolveCommit_Payload(a) ==
    /\ pc = "apps" /\ a \in todo
    /\ ~Unbuildable(a)
    /\ cur' = a
    /\ ver' = since[row]
    /\ sha' = heads[SourceOf[a]][ver']
    /\ pc' = "create"
    /\ UNCHANGED <<world, bells, table, budget, row, todo, digest, builds, made, faults>>

ResolveCommit(a) ==
    /\ pc = "apps" /\ a \in todo
    /\ ~Unbuildable(a)
    /\ cur' = a
    /\ ver' = IF SourceOf[a] \in Uploads THEN digest ELSE Len(heads[SourceOf[a]])
    /\ sha' = heads[SourceOf[a]][ver']
    /\ pc' = "create"
    /\ UNCHANGED <<world, bells, table, budget, row, todo, digest, builds, made, faults>>

\* createBuild: AlreadyExists is success.
Create ==
    LET n == BuildName(cur, sha, row) IN
    IF builds[n] = "none"
    THEN /\ builds' = [builds EXCEPT ![n] = IF CatchUp THEN "running" ELSE "unseen"]
         /\ made' = Append(made, [app |-> cur, commit |-> sha, ver |-> ver, tag |-> n[3]])
    ELSE UNCHANGED <<builds, made>>

CreateBuild ==
    /\ pc = "create"
    /\ Create
    /\ todo' = todo \ {cur}
    /\ pc' = "apps"
    /\ cur' = None /\ sha' = None /\ ver' = 0
    /\ UNCHANGED <<world, bells, table, budget, row, digest, faults>>

\* DeleteDelivery: the rows behind the deleted one move up.
Place(id) == CHOOSE i \in DOMAIN queue : queue[i] = id
Remove(id) == [i \in 1..(Len(queue) - 1) |-> IF i < Place(id) THEN queue[i] ELSE queue[i + 1]]

\* The transaction ends and the tick goes on (to "tick") or is over ("idle").
Leave(next) ==
    /\ pc' = next
    /\ budget' = IF next = "tick" THEN budget ELSE 0
    /\ row' = None /\ todo' = {} /\ digest' = 0
    /\ cur' = None /\ sha' = None /\ ver' = 0

\* Mutant of Ack: the row goes with the first App.
Ack_Early ==
    /\ pc = "apps"
    /\ queue' = Remove(row)
    /\ Leave("tick")
    /\ UNCHANGED <<world, bells, locked, builds, made, faults>>

\* handle has gone through every App: DELETE and COMMIT.
Ack ==
    /\ pc = "apps" /\ todo = {}
    /\ queue' = Remove(row)
    /\ Leave("tick")
    /\ UNCHANGED <<world, bells, locked, builds, made, faults>>

\* The COMMIT fails, or succeeds without the dispatcher hearing of it.
AckError ==
    /\ pc = "apps" /\ todo = {}
    /\ faults < MaxFaults
    /\ queue' \in {queue, Remove(row)}
    /\ Leave("idle")
    /\ faults' = faults + 1
    /\ UNCHANGED <<world, bells, locked, builds, made>>

\* Resolution of a stuck source fails, as often as it likes: Nack.
NackStuck(a) ==
    /\ pc = "apps" /\ a \in todo
    /\ ~Unbuildable(a) /\ SourceOf[a] \in Stuck
    /\ Leave("idle")
    /\ UNCHANGED <<world, bells, table, builds, made, faults>>

\* A transient failure of the claim, of the App list, of a resolution or of a
\* create (which may have taken effect): Nack, and the tick is over.
Nack ==
    /\ faults < MaxFaults
    /\ \/ /\ pc \in {"tick", "claimed"} \/ (pc = "apps" /\ todo # {})
          /\ UNCHANGED <<builds, made>>
       \/ pc = "create" /\ (Create \/ UNCHANGED <<builds, made>>)
    /\ Leave("idle")
    /\ faults' = faults + 1
    /\ UNCHANGED <<world, bells, table>>

\* The leader dies, or loses its database connection: its row stays locked
\* until Postgres ends the transaction.
Crash ==
    /\ row # None
    /\ faults < MaxFaults
    /\ locked' = locked \cup {row}
    /\ Leave("idle")
    /\ faults' = faults + 1
    /\ UNCHANGED <<world, bells, queue, builds, made>>

Rollback(id) ==
    /\ id \in locked
    /\ locked' = locked \ {id}
    /\ UNCHANGED <<world, bells, queue, worker, builds, made, faults>>

Environment ==
    \/ \E id \in PushIds, c \in Commits : Push(id, c)
    \/ \E s \in Sources, c \in Commits : ChangeSource(s, c)
    \/ \E s \in Sources : Vanish(s) \/ SyncUpload(s)
    \/ \E a \in Apps : AppChange(a)
    \/ \E n \in BuildNames : EndBuild(n) \/ SyncBuild(n) \/ DeleteBuild(n)

Produce ==
    \/ \E id \in PushIds : Webhook(id) \/ WebhookUnanswered(id)
    \/ \E id \in ManualIds : HandleDeployApp(id)

Consume ==
    \/ Tick \/ ClaimNext \/ EndTick \/ AppsForDelivery
    \/ \E a \in Apps : SkipApp(a) \/ ResolveCommit(a) \/ NackStuck(a)
    \/ CreateBuild \/ Ack \/ AckError \/ Nack \/ Crash
    \/ \E id \in Ids : Rollback(id)

Next == Environment \/ Produce \/ Consume

Spec == Init /\ [][Next]_vars

(***************************************************************************)
(* Properties.                                                             *)
(***************************************************************************)

MadeBuilds == [app : Apps, commit : Commits, ver : Nat \ {0}, tag : ManualIds \cup {None}]

\* Every variable keeps its type; the worker holds a row and a commit exactly
\* where processOne does.
TypeOK ==
    /\ heads \in [Sources -> Seq(Commits)] /\ \A s \in Sources : heads[s] # <<>>
    /\ shown \in [Sources -> Nat] /\ \A s \in Sources : shown[s] \in 1..Len(heads[s])
    /\ gone \subseteq Sources
    /\ apps \in [Apps -> AppStates]
    /\ since \in [Ids -> Nat]
    /\ owed \in [Ids -> SUBSET Apps]
    /\ queue \in Seq(Ids) /\ locked \subseteq Ids
    /\ pc \in {"idle", "tick", "claimed", "apps", "create"}
    /\ budget \in 0..MaxConcurrentBuilds
    /\ IF pc \in {"idle", "tick"} THEN row = None ELSE row \in Ids
    /\ todo \subseteq Apps /\ digest \in Nat
    /\ IF pc = "create" THEN cur \in Apps /\ sha \in Commits ELSE cur = None /\ sha = None
    /\ ver \in Nat
    /\ builds \in [BuildNames -> BuildStates]
    /\ made \in Seq(MadeBuilds)
    /\ faults \in 0..MaxFaults

Made == {made[i] : i \in DOMAIN made}

\* App a has been given a Build of a commit that was current at or after place v.
Covered(a, v) ==
    \E b \in Made : /\ b.app = a
                   /\ \E i \in v..Len(heads[SourceOf[a]]) : heads[SourceOf[a]][i] = b.commit

\* A row of the queue is removed only when every App it was owed to, that still
\* exists and can be built, has a Build of the commit that rang the bell or of
\* a later one (handle acks only "when every matched App got a Build, or the
\* doorbell is permanently unprocessable").
NoDoorbellLost ==
    \A id \in Ids : \A a \in owed[id] :
        \/ id \in Rows
        \/ apps[a] # "live"
        \/ Unbuildable(a)
        \/ Covered(a, since[id])

\* A new Build of an App is never of an older commit than a Build the App
\* already has: the App controller rolls out the newest Build, so the leader's
\* resolve-then-create must not be overtaken.
BuildsInHeadOrder ==
    [][\A i \in DOMAIN made' \ DOMAIN made : \A j \in DOMAIN made :
          made[j].app = made'[i].app => made[j].ver <= made'[i].ver]_vars

\* The most Apps that one delivery is about.
FanOut == LET sizes == {0} \cup {Cardinality(Targets(id)) : id \in Ids}
          IN  CHOOSE n \in sizes : \A m \in sizes : m <= n

\* With informers that catch up between polls, the Builds in flight never
\* exceed the cap times the fan-out of a delivery: budget bounds deliveries,
\* each of which creates at most FanOut Builds.
InFlightBounded == Cardinality(InFlight) <= MaxConcurrentBuilds * FanOut

(***************************************************************************)
(* Liveness: the ticker fires, Postgres ends dead transactions, informers  *)
(* catch up and every Build ends (its Job has a deadline).  Producers,     *)
(* users and faults get no fairness.                                       *)
(***************************************************************************)

WorkerStep ==
    \/ Tick \/ ClaimNext \/ EndTick \/ AppsForDelivery \/ CreateBuild \/ Ack
    \/ \E a \in Apps : SkipApp(a) \/ ResolveCommit(a) \/ NackStuck(a)

Fairness ==
    /\ WF_vars(WorkerStep)
    /\ \A id \in Ids : WF_vars(Rollback(id))
    /\ \A n \in BuildNames : WF_vars(EndBuild(n)) /\ WF_vars(SyncBuild(n))

FairSpec == Spec /\ Fairness

\* Every doorbell in the table is eventually taken out of it, if every source
\* it has to wait for resolves in the end.
EveryRowServed == \A id \in Ids : id \in Rows ~> id \notin Rows
=============================================================================
