---------------------------- MODULE AppController ----------------------------
(***************************************************************************)
(* The App controller: it derives the image of one App from the App's      *)
(* Builds and rolls it out as a Deployment, with a Service for Web Apps.   *)
(*                                                                         *)
(*   operator/internal/controller/app_controller.go                        *)
(*                                                                         *)
(* Builds are numbered in the order they are created; the image of Build n *)
(* is n, and 0 is no image.  All reads come from informer caches that lag  *)
(* behind the API server; an update is refused when the object changed     *)
(* after the copy it was made from.                                        *)
(***************************************************************************)
EXTENDS Integers, FiniteSets

CONSTANTS
    None,
    MaxBuilds,   \* bound on the Builds of the App
    NameRank,    \* [1..MaxBuilds -> 0..MaxBuilds]: order of the Builds' names
    Foreign,     \* TRUE: a Deployment and a Service of the App's name may exist already
    MaxFaults    \* bound on failed calls, restarts, edits and deletions of the App, pruned Builds

Ids == 1..MaxBuilds
Images == 0..MaxBuilds

ASSUME AppConstants ==
    /\ MaxBuilds \in Nat \ {0} /\ MaxFaults \in Nat
    /\ NameRank \in [Ids -> Images]
    /\ \A m, n \in Ids : NameRank[m] = NameRank[n] => m = n
    /\ Foreign \in BOOLEAN

VARIABLES
    app,       \* the App in the API server, or None once it is deleted
    phase,     \* [Ids -> BuildPhases]
    stamp,     \* [Ids -> Nat]: creationTimestamp, in seconds
    deploy,    \* the Deployment of that name, or None
    svc,       \* the Service of that name: "none", "ours" or "foreign"
    acache, pcache, dcache, scache,  \* what the informers show of the four
    dirty,     \* the App's key is in the work queue
    pc, a, base, avail, retry,  \* the reconcile: step, copy, statusBefore, replicas, error
    faults

objects == <<app, phase, stamp, deploy, svc>>
caches  == <<acache, pcache, dcache, scache>>
local   == <<pc, a, base, avail, retry>>
vars    == <<objects, caches, dirty, local, faults>>

BuildPhases == {"none", "running", "ok", "failed", "pruned"}
Statuses == [image : Images, latest : Images, ready : BOOLEAN]
Apps == [rv : Nat, web : BOOLEAN, status : Statuses]
Deployments == [ours : BOOLEAN, rv : Nat, web : BOOLEAN, image : Images, pods : Images]

ASSUME NoneIsNoObject == None \notin Apps \cup Deployments

Fault == faults < MaxFaults /\ faults' = faults + 1

Init ==
    /\ app = [rv |-> 0, web |-> TRUE, status |-> [image |-> 0, latest |-> 0, ready |-> FALSE]]
    /\ phase = [n \in Ids |-> "none"] /\ stamp = [n \in Ids |-> 0]
    /\ \/ deploy = None /\ svc = "none"
       \/ Foreign /\ deploy = [ours |-> FALSE, rv |-> 0, web |-> TRUE, image |-> 0, pods |-> 0] /\ svc = "foreign"
    /\ acache = app /\ pcache = phase /\ dcache = deploy /\ scache = svc
    /\ dirty = TRUE
    /\ pc = "idle" /\ a = None /\ base = None /\ avail = 0 /\ retry = FALSE
    /\ faults = 0

(***************************************************************************)
(* Builds, users, the Deployment controller and the informers.             *)
(***************************************************************************)

Created == {n \in Ids : phase[n] # "none"}

NewBuild(n) ==
    /\ Created = 1..(n - 1)
    /\ phase' = [phase EXCEPT ![n] = "running"]
    /\ \/ stamp' = [stamp EXCEPT ![n] = n]                       \* in a later second
       \/ n > 1 /\ stamp' = [stamp EXCEPT ![n] = stamp[n - 1]]   \* in that of the last one
    /\ UNCHANGED <<app, deploy, svc, caches, dirty, local, faults>>

EndBuild(n, p) ==
    /\ phase[n] = "running"
    /\ phase' = [phase EXCEPT ![n] = p]
    /\ UNCHANGED <<app, stamp, deploy, svc, caches, dirty, local, faults>>

PruneBuild(n) ==
    /\ Fault /\ phase[n] \in {"running", "ok", "failed"}
    /\ phase' = [phase EXCEPT ![n] = "pruned"]
    /\ UNCHANGED <<app, stamp, deploy, svc, caches, dirty, local>>

\* A user changes the workload type; any edit bumps the resourceVersion.
EditApp ==
    /\ app # None /\ Fault
    /\ app' = [app EXCEPT !.web = ~@, !.rv = @ + 1]
    /\ UNCHANGED <<phase, stamp, deploy, svc, caches, dirty, local>>

DeleteApp ==
    /\ app # None /\ Fault
    /\ app' = None
    /\ UNCHANGED <<phase, stamp, deploy, svc, caches, dirty, local>>

\* Mutant of CollectGarbage: the Service carries no ownerReference.
CollectGarbage_NoServiceOwner ==
    /\ app = None
    /\ deploy # None /\ deploy.ours /\ deploy' = None
    /\ UNCHANGED <<svc, app, phase, stamp, caches, dirty, local, faults>>

\* Children carry ownerReferences: the garbage collector follows the App.
CollectGarbage ==
    /\ app = None
    /\ \/ deploy # None /\ deploy.ours /\ deploy' = None /\ UNCHANGED svc
       \/ svc = "ours" /\ svc' = "none" /\ UNCHANGED deploy
    /\ UNCHANGED <<app, phase, stamp, caches, dirty, local, faults>>

\* Pods of the template's image become available, or those there were are lost.
RollPods ==
    /\ deploy # None /\ deploy.ours
    /\ \/ /\ deploy.pods # deploy.image
          /\ deploy' = [deploy EXCEPT !.pods = deploy.image, !.rv = @ + 1]
          /\ UNCHANGED faults
       \/ /\ deploy.pods # 0
          /\ deploy' = [deploy EXCEPT !.pods = 0, !.rv = @ + 1]
          /\ Fault
    /\ UNCHANGED <<app, phase, stamp, svc, caches, dirty, local>>

\* For the App, Watches on Builds, Owns on Deployment and Service.
SyncApp ==
    /\ acache # app /\ acache' = app /\ dirty' = TRUE
    /\ UNCHANGED <<objects, pcache, dcache, scache, local, faults>>

\* Mutant of SyncBuilds: Builds are not watched.
SyncBuilds_Unwatched ==
    /\ pcache # phase /\ pcache' = phase
    /\ UNCHANGED <<objects, acache, dcache, scache, dirty, local, faults>>

SyncBuilds ==
    /\ pcache # phase /\ pcache' = phase /\ dirty' = TRUE
    /\ UNCHANGED <<objects, acache, dcache, scache, local, faults>>
SyncChildren ==
    /\ dcache # deploy \/ scache # svc
    /\ dcache' = deploy /\ scache' = svc /\ dirty' = TRUE
    /\ UNCHANGED <<objects, acache, pcache, local, faults>>

Restart ==
    /\ Fault
    /\ pc' = "idle" /\ a' = None /\ base' = None /\ avail' = 0 /\ retry' = FALSE
    /\ acache' = app /\ pcache' = phase /\ dcache' = deploy /\ scache' = svc
    /\ dirty' = TRUE
    /\ UNCHANGED objects

(***************************************************************************)
(* Reconcile.                                                              *)
(***************************************************************************)

Goto(label) == pc' = label

\* Mutant of Finish: the copy survives the reconcile.
Finish_KeepsCopy(err) ==
    /\ pc' = "idle" /\ a' = a /\ base' = None /\ avail' = 0 /\ retry' = FALSE
    /\ dirty' = (dirty \/ err)

Finish(err) ==
    /\ pc' = "idle" /\ a' = None /\ base' = None /\ avail' = 0 /\ retry' = FALSE
    /\ dirty' = (dirty \/ err)

Get ==
    /\ pc = "idle" /\ dirty /\ dirty' = FALSE
    /\ IF acache = None
       THEN UNCHANGED local
       ELSE a' = acache /\ base' = acache.status /\ Goto("builds") /\ UNCHANGED <<avail, retry>>
    /\ UNCHANGED <<objects, caches, faults>>

\* Mutant of NewerBuild: names only.
NewerBuild_ByName(m, n) == NameRank[m] > NameRank[n]

\* newerBuild: creationTimestamp, then name.
NewerBuild(m, n) == IF stamp[m] # stamp[n] THEN stamp[m] > stamp[n] ELSE NameRank[m] > NameRank[n]
Newest(S) == IF S = {} THEN 0 ELSE CHOOSE m \in S : \A n \in S \ {m} : NewerBuild(m, n)

Listed == {n \in Ids : pcache[n] \notin {"none", "pruned"}}
Succeeded == {n \in Listed : pcache[n] = "ok"}

\* Mutant of ObserveBuilds: the status follows the list when it is empty, too.
ObserveBuilds_Forgetful ==
    /\ pc = "builds"
    /\ LET image == Newest(Succeeded) IN
           /\ a' = [a EXCEPT !.status.image = image, !.status.latest = Newest(Listed),
                             !.status.ready = IF image = 0 THEN FALSE ELSE @]
           /\ Goto(IF image = 0 THEN "status" ELSE "deploy")
    /\ UNCHANGED <<objects, caches, dirty, base, avail, retry, faults>>

\* observeBuilds, and the gate on an App that has no image yet.
ObserveBuilds ==
    /\ pc = "builds"
    /\ LET image  == IF Succeeded = {} THEN a.status.image ELSE Newest(Succeeded)
           latest == IF Listed = {} THEN a.status.latest ELSE Newest(Listed)
       IN  /\ a' = [a EXCEPT !.status.image = image, !.status.latest = latest,
                             !.status.ready = IF image = 0 THEN FALSE ELSE @]
           /\ Goto(IF image = 0 THEN "status" ELSE "deploy")
    /\ UNCHANGED <<objects, caches, dirty, base, avail, retry, faults>>

\* Mutant of FailReady: the Ready condition is left as it was.
FailReady_StaysReady ==
    /\ a' = a
    /\ retry' = TRUE
    /\ Goto("status")

\* failReady: the reason goes into the status, with whatever else was derived.
FailReady ==
    /\ a' = [a EXCEPT !.status.ready = FALSE]
    /\ retry' = TRUE
    /\ Goto("status")

\* The Deployment as the informer shows it: what CreateOrUpdate decides on.
UpToDate == dcache # None /\ dcache.ours /\ dcache.image = a.status.image /\ dcache.web = a.web
Refused == IF dcache = None THEN deploy # None ELSE ~dcache.ours     \* AlreadyExists, or not ours
Outdated == dcache # None /\ dcache.ours /\ ~UpToDate
SameDeployment == deploy # None /\ deploy.rv = dcache.rv

\* What its create or update does in the API server.
WriteDeployment ==
    \/ /\ dcache = None /\ deploy = None
       /\ deploy' = [ours |-> TRUE, rv |-> 0, web |-> a.web, image |-> a.status.image, pods |-> 0]
    \/ /\ Outdated /\ SameDeployment
       /\ deploy' = [deploy EXCEPT !.image = a.status.image, !.web = a.web, !.rv = @ + 1]

ReconcileDeployment ==
    /\ pc = "deploy"
    /\ \/ WriteDeployment /\ avail' = deploy'.pods /\ Goto("service") /\ UNCHANGED <<a, base, retry, dirty>>
       \/ UpToDate /\ avail' = dcache.pods /\ Goto("service") /\ UNCHANGED <<deploy, a, base, retry, dirty>>
       \/ Refused /\ FailReady /\ UNCHANGED <<deploy, base, avail, dirty>>
       \/ Outdated /\ ~SameDeployment /\ Finish(TRUE) /\ UNCHANGED deploy        \* Conflict
    /\ UNCHANGED <<app, phase, stamp, svc, caches, faults>>

\* A Service for a Web App, none for any other type.
WriteService ==
    \/ a.web /\ scache = "none" /\ svc = "none" /\ svc' = "ours"
    \/ ~a.web /\ scache = "ours" /\ svc' = "none"

ServiceRefused == a.web /\ (scache = "foreign" \/ (scache = "none" /\ svc # "none"))
ServiceInPlace == IF a.web THEN scache = "ours" ELSE scache # "ours"

ReconcileService ==
    /\ pc = "service"
    /\ \/ WriteService /\ Goto("ready") /\ UNCHANGED <<a, retry>>
       \/ ServiceInPlace /\ Goto("ready") /\ UNCHANGED <<svc, a, retry>>
       \/ ServiceRefused /\ FailReady /\ UNCHANGED svc
    /\ UNCHANGED <<app, phase, stamp, deploy, caches, dirty, base, avail, faults>>

SetReady ==
    /\ pc = "ready"
    /\ a' = [a EXCEPT !.status.ready = (avail # 0)]
    /\ Goto("status")
    /\ UNCHANGED <<objects, caches, dirty, base, avail, retry, faults>>

SameApp == app # None /\ app.rv = a.rv
WriteStatus == SameApp /\ app' = [app EXCEPT !.status = a.status, !.rv = @ + 1]

UpdateStatus ==
    /\ pc = "status"
    /\ IF a.status = base
       THEN Finish(retry) /\ UNCHANGED app
       ELSE \/ WriteStatus /\ Finish(retry)
            \/ ~SameApp /\ Finish(TRUE) /\ UNCHANGED app
    /\ UNCHANGED <<phase, stamp, deploy, svc, caches, faults>>

\* A call fails, without an effect or after it: failReady records it, a failed
\* list or status write is retried.
CallError ==
    /\ pc \in {"builds", "deploy", "service", "status"} /\ Fault
    /\ IF pc \in {"deploy", "service"} THEN FailReady /\ UNCHANGED <<base, avail, dirty>>
                                       ELSE Finish(TRUE)
    /\ \/ UNCHANGED <<app, deploy, svc>>
       \/ pc = "deploy" /\ WriteDeployment /\ UNCHANGED <<app, svc>>
       \/ pc = "service" /\ WriteService /\ UNCHANGED <<app, deploy>>
       \/ pc = "status" /\ a.status # base /\ WriteStatus /\ UNCHANGED <<deploy, svc>>
    /\ UNCHANGED <<phase, stamp, caches>>

Reconcile ==
    \/ Get \/ ObserveBuilds \/ ReconcileDeployment \/ ReconcileService
    \/ SetReady \/ UpdateStatus

Next ==
    \/ \E n \in Ids : NewBuild(n) \/ EndBuild(n, "ok") \/ EndBuild(n, "failed") \/ PruneBuild(n)
    \/ EditApp \/ DeleteApp \/ CollectGarbage \/ RollPods
    \/ SyncApp \/ SyncBuilds \/ SyncChildren \/ Restart
    \/ Reconcile \/ CallError

Spec == Init /\ [][Next]_vars

(***************************************************************************)
(* Properties.                                                             *)
(***************************************************************************)

\* Every variable keeps its type; a reconcile holds a copy of the App from
\* its Get to its return.
TypeOK ==
    /\ app \in Apps \cup {None} /\ acache \in Apps \cup {None}
    /\ phase \in [Ids -> BuildPhases] /\ pcache \in [Ids -> BuildPhases]
    /\ stamp \in [Ids -> Nat]
    /\ deploy \in Deployments \cup {None} /\ dcache \in Deployments \cup {None}
    /\ svc \in {"none", "ours", "foreign"} /\ scache \in {"none", "ours", "foreign"}
    /\ dirty \in BOOLEAN /\ retry \in BOOLEAN /\ avail \in Images
    /\ pc \in {"idle", "builds", "deploy", "service", "ready", "status"}
    /\ IF pc = "idle" THEN a = None /\ base = None ELSE a \in Apps /\ base \in Statuses
    /\ faults \in 0..MaxFaults

OursRuns == deploy # None /\ deploy.ours
Pruned == \E n \in Ids : phase[n] = "pruned"

\* When the Build of an image was created.
Second(n) == IF n = 0 THEN 0 ELSE stamp[n]

\* While no Build is pruned, the Deployment never goes back to the image of an
\* older Build: a slow older Build that finishes late, a failed newer one, stale
\* caches or a restart do not undo a rollout.
RolloutAdvances ==
    [][OursRuns /\ deploy' # None /\ ~Pruned => Second(deploy.image) <= Second(deploy'.image)]_vars

\* An App that reports Ready has had the image in its status, or a newer one,
\* put into its Deployment, although the status is written last and from a copy.
ReadyImageDeployed ==
    app # None /\ app.status.ready /\ ~Pruned =>
        OursRuns /\ Second(app.status.image) <= Second(deploy.image)

\* Pruning Builds, even all of them, takes neither the image out of the status
\* nor the workload down ("pruned Builds must not ... tear down a running workload").
PruningSparesWorkload ==
    [][app # None /\ app' # None =>
          /\ app.status.image # 0 => app'.status.image # 0
          /\ OursRuns => deploy' # None /\ deploy'.image # 0]_vars

(***************************************************************************)
(* Liveness: the work queue, the informers, the garbage collector and the  *)
(* Deployment controller are fair; the reconcile runs only when an event   *)
(* or an error has enqueued the App.                                       *)
(***************************************************************************)

PodsStart == deploy # None /\ deploy.pods # deploy.image /\ deploy.image # 0 /\ RollPods /\ deploy'.pods # 0

Fairness ==
    /\ WF_vars(Reconcile)
    /\ WF_vars(SyncApp) /\ WF_vars(SyncBuilds) /\ WF_vars(SyncChildren)
    /\ WF_vars(CollectGarbage) /\ WF_vars(PodsStart)

FairSpec == Spec /\ Fairness

Good == {n \in Ids : phase[n] = "ok"}

\* Unless the name is taken, in the end the pods, the Deployment and the status
\* agree on the newest Build that succeeded, and a Service is there for a Web App.
SettlesOnNewest ==
    <>[](app = None \/ Good = {} \/ (deploy # None /\ ~deploy.ours) \/
         /\ OursRuns /\ deploy.image = Newest(Good) /\ deploy.pods = deploy.image
         /\ app.status.image = deploy.image /\ app.status.ready
         /\ svc = IF app.web THEN "ours" ELSE "none")

\* Nothing of a deleted App remains, even if a stale reconcile re-creates it.
DeletedAppLeavesNothing == (app = None) ~> [](~OursRuns /\ svc # "ours")

\* What runs is never moved to an older Build, and pruning Builds takes nothing that
\* runs away (observeBuilds).
RolloutKept == RolloutAdvances /\ PruningSparesWorkload
=============================================================================
