--------------------------- MODULE BuildController ---------------------------
(***************************************************************************)
(* The Build controller: one Build, the Job that runs it, and the          *)
(* reconciler that mirrors the Job into the Build's phase.                 *)
(*                                                                         *)
(*   operator/internal/controller/build_controller.go                      *)
(*                                                                         *)
(* Reconciles of one Build never overlap and Builds share nothing but the  *)
(* registry (each has a tag and a Job name of its own), so one Build name  *)
(* is modelled.  The reconciler reads the Build and the Job from informer  *)
(* caches that lag behind the API server, except where it uses the live    *)
(* APIReader; every call to the API server is a step of its own, so users, *)
(* the Job controller and a crash can come between any two of them.  An    *)
(* update carries the resourceVersion it was read at, and is refused when  *)
(* the object has changed since.                                           *)
(***************************************************************************)
EXTENDS Integers

CONSTANTS
    None,
    MaxBuilds,     \* bound on how often the Build's name is used
    Worlds         \* the surroundings considered, one of which a behaviour has:
                   \* how often the Build's name is used, how many failed calls,
                   \* operator restarts and users' Job operations there are, what
                   \* users do to Jobs, and whether the Job informer may be behind

ASSUME BuildConstants ==
    /\ MaxBuilds \in Nat
    /\ Worlds \subseteq [builds : 0..MaxBuilds, faults : Nat,
                         ops : SUBSET {"delete", "foreign"},
                         informer : {"lagging", "current"}]

VARIABLES
    world,     \* the surroundings of this behaviour; never changes
    build,     \* the Build in the API server, or None
    job,       \* the Job of that name in the build namespace, or None
    bcache, jcache,  \* what the operator's informers show
    jevent,    \* an event of a Job with our annotations is still to be delivered
    dirty,     \* the Build's key is in the work queue
    gate,      \* TRUE: this process refuses the Build's source or strategy
    pc, b, j, base,  \* the reconcile: next call, its copy of the Build, the Job, statusBefore
    retry,     \* the reconcile returns an error
    born,      \* incarnations of the Build so far
    started,   \* Jobs created for the present incarnation (history)
    faults

store  == <<build, job>>
caches == <<bcache, jcache, jevent>>
local  == <<pc, b, j, base, retry>>
ghosts == <<born, started>>
vars   == <<store, caches, dirty, gate, local, ghosts, faults, world>>

Terminal == {"Succeeded", "Failed"}
Phases == {"New", "Pending", "Running"} \cup Terminal     \* "New": no phase written yet
Reasons == {"none", "FeatureDisabled", "InvalidBuild", "JobConflict", "JobMissing", "JobFailed"}
JobStates == {"waiting", "active", "complete", "failed"}

Statuses == [phase : Phases, reason : Reasons, jobRef : {"none", "job"}, image : {"none", "digest"}]
Builds == [inc : Nat, rv : Nat, spec : {"valid", "invalid"},
           meta : {"bare", "finalizer", "deleting"},     \* finalizer set; and deletionTimestamp
           status : Statuses]
Jobs == [owner : {"ours", "foreign"}, inc : Nat, state : JobStates]

ASSUME NoneIsNoBuild == None \notin Builds \cup Jobs

NewStatus == [phase |-> "New", reason |-> "none", jobRef |-> "none", image |-> "none"]

Init ==
    /\ world \in Worlds
    /\ build = None /\ job = None
    /\ bcache = None /\ jcache = None /\ jevent = FALSE
    /\ dirty = FALSE
    /\ gate \in BOOLEAN
    /\ pc = "idle" /\ b = None /\ j = None /\ base = None /\ retry = FALSE
    /\ born = 0 /\ started = 0
    /\ faults = 0

(***************************************************************************)
(* Users, the Job controller and the informers.                            *)
(***************************************************************************)

\* The API server stores an object under a new resourceVersion.
Stored(x) == [x EXCEPT !.rv = @ + 1]

CreateBuild(spec) ==
    /\ build = None /\ born < world.builds
    /\ born' = born + 1 /\ started' = 0
    /\ build' = [inc |-> born + 1, rv |-> 0, spec |-> spec,
                 meta |-> "bare", status |-> NewStatus]
    /\ UNCHANGED <<job, caches, dirty, gate, local, faults>>

\* kubectl delete: with a finalizer the object only gets a deletionTimestamp.
DeleteBuild ==
    /\ build # None /\ build.meta # "deleting"
    /\ build' = IF build.meta = "finalizer" THEN Stored([build EXCEPT !.meta = "deleting"]) ELSE None
    /\ UNCHANGED <<job, caches, dirty, gate, local, ghosts, faults>>

OwnsJob(x) == x # None /\ x.owner = "ours"

\* Mutant of JobEvent: deletions do not map to the Build.
JobEvent_NoDeletes == jevent' = (jevent \/ (job' # job /\ OwnsJob(job')))

\* mapJobToBuild: an event of a Job maps to the Build if it carries our annotations.
JobEvent == jevent' = (jevent \/ (job' # job /\ (OwnsJob(job) \/ OwnsJob(job'))))

JobStep ==
    /\ job # None
    /\ \/ job.state = "waiting" /\ job' = [job EXCEPT !.state = "active"]
       \/ job.state = "waiting" /\ job' = [job EXCEPT !.state = "failed"]
       \/ job.state = "active" /\ \E s \in {"complete", "failed"} : job' = [job EXCEPT !.state = s]
    /\ JobEvent
    /\ UNCHANGED <<build, bcache, jcache, dirty, gate, local, ghosts, faults>>

UserJob ==
    /\ \/ "delete" \in world.ops /\ job # None /\ job' = None
       \/ /\ "foreign" \in world.ops /\ job = None
          /\ job' = [owner |-> "foreign", inc |-> 0, state |-> "waiting"]
    /\ faults < world.faults /\ faults' = faults + 1
    /\ JobEvent
    /\ UNCHANGED <<build, bcache, jcache, dirty, gate, local, ghosts>>

\* An informer catches up and its watch handler enqueues the Build.
SyncBuild ==
    /\ bcache # build
    /\ bcache' = build /\ dirty' = TRUE
    /\ UNCHANGED <<store, jcache, jevent, gate, local, ghosts, faults>>

SyncJob ==
    /\ jcache # job \/ jevent
    /\ jcache' = job /\ jevent' = FALSE
    /\ dirty' = (dirty \/ jevent)
    /\ UNCHANGED <<store, bcache, gate, local, ghosts, faults>>

\* The operator restarts, perhaps with another set of features: caches are
\* filled by a list and every Build is enqueued.
Restart ==
    /\ faults < world.faults
    /\ pc' = "idle" /\ b' = None /\ j' = None /\ base' = None /\ retry' = FALSE
    /\ bcache' = build /\ jcache' = job /\ jevent' = FALSE
    /\ dirty' = (build # None)
    /\ gate' \in BOOLEAN
    /\ faults' = faults + 1
    /\ UNCHANGED <<store, ghosts>>

(***************************************************************************)
(* Reconcile.                                                              *)
(***************************************************************************)

Goto(label) == pc' = label

Finish(err) ==
    /\ pc' = "idle" /\ b' = None /\ j' = None /\ base' = None /\ retry' = FALSE
    /\ dirty' = (dirty \/ err)

CachedJob == IF world.informer = "lagging" THEN jcache ELSE job
IsTerminal(x) == x.status.phase \in Terminal
TrackJob(x) == [x EXCEPT !.status.jobRef = "job"]
FailBuild(x, why) ==
    [x EXCEPT !.status = [phase |-> "Failed", reason |-> why, jobRef |-> @.jobRef, image |-> @.image]]

\* Mutant of NothingToDo: a closed record is not finalized either.
NothingToDo_ClosedFirst(x) ==
    \/ x = None
    \/ IsTerminal(x)

\* Gone, or a closed record that nobody deletes.
NothingToDo(x) ==
    \/ x = None
    \/ x.meta # "deleting" /\ IsTerminal(x)

\* The cached Get and the gates in front of any work.
Get ==
    /\ pc = "idle" /\ dirty /\ dirty' = FALSE
    /\ IF NothingToDo(bcache)
       THEN UNCHANGED local
       ELSE /\ b' = bcache /\ base' = bcache.status
            /\ Goto(IF bcache.meta = "deleting" THEN "finalize"
                    ELSE IF bcache.status.jobRef = "none" /\ gate THEN "adopt" ELSE "finalizer")
            /\ UNCHANGED <<j, retry>>
    /\ UNCHANGED <<store, caches, gate, ghosts, faults>>

\* Mutant of AdoptStartedJob: nobody looks for a Job without a JobRef.
AdoptStartedJob_Skipped ==
    /\ pc = "adopt"
    /\ b' = FailBuild(b, "FeatureDisabled") /\ Goto("status")
    /\ UNCHANGED <<store, caches, dirty, gate, j, base, retry, ghosts, faults>>

\* adoptStartedJob: a live read.
AdoptStartedJob ==
    /\ pc = "adopt"
    /\ IF OwnsJob(job)
       THEN b' = TrackJob(b) /\ Goto("finalizer")
       ELSE b' = FailBuild(b, "FeatureDisabled") /\ Goto("status")
    /\ UNCHANGED <<store, caches, dirty, gate, j, base, retry, ghosts, faults>>

\* Mutant of Current: writes ignore the resourceVersion.
Current_AnyVersion(x) == build # None /\ build.inc = x.inc

\* The optimistic-concurrency test of an update from copy x.
Current(x) == build # None /\ build.inc = x.inc /\ build.rv = x.rv

\* What the API server does with the reconcile's updates of a current Build.
WriteFinalizer == Current(b) /\ build' = Stored([build EXCEPT !.meta = "finalizer"])
WriteStatus    == Current(b) /\ build' = Stored([build EXCEPT !.status = b.status])
Unfinalize     == Current(b) /\ build' = None

\* Mutant of AddFinalizer: the Build runs without one.
AddFinalizer_None ==
    /\ pc = "finalizer"
    /\ Goto("ensure")
    /\ UNCHANGED <<build, b, j, base, retry, dirty, job, caches, gate, ghosts, faults>>

\* AddFinalizer and Update, whose answer replaces the copy, status included.
AddFinalizer ==
    /\ pc = "finalizer"
    /\ IF b.meta # "bare"
       THEN Goto("ensure") /\ UNCHANGED <<build, b, j, base, retry, dirty>>
       ELSE \/ /\ WriteFinalizer /\ b' = build'
               /\ Goto("ensure")
               /\ UNCHANGED <<j, base, retry, dirty>>
            \/ ~Current(b) /\ Finish(TRUE) /\ UNCHANGED build
    /\ UNCHANGED <<job, caches, gate, ghosts, faults>>

\* ensureJob up to its cached Get.
EnsureJob ==
    /\ pc = "ensure"
    /\ \/ /\ b.spec = "invalid"
          /\ b' = FailBuild(b, "InvalidBuild") /\ retry' = TRUE
          /\ Goto("status") /\ UNCHANGED j
       \/ /\ b.spec = "valid" /\ CachedJob = None
          /\ Goto(IF b.status.jobRef = "job" THEN "confirm" ELSE "create")
          /\ UNCHANGED <<b, j, retry>>
       \/ /\ b.spec = "valid" /\ OwnsJob(CachedJob)
          /\ b' = TrackJob(b) /\ j' = CachedJob
          /\ Goto("observe") /\ UNCHANGED retry
       \/ /\ b.spec = "valid" /\ CachedJob # None /\ ~OwnsJob(CachedJob)
          /\ b' = FailBuild(b, "JobConflict") /\ retry' = TRUE
          /\ Goto("status") /\ UNCHANGED j
    /\ UNCHANGED <<store, caches, dirty, gate, base, ghosts, faults>>

\* The live read behind a tracked Job the cache does not show.
ConfirmGone ==
    /\ pc = "confirm"
    /\ IF job # None
       THEN j' = job /\ Goto("observe") /\ UNCHANGED <<b, retry>>
       ELSE b' = FailBuild(b, "JobMissing") /\ retry' = TRUE /\ Goto("status") /\ UNCHANGED j
    /\ UNCHANGED <<store, caches, dirty, gate, base, ghosts, faults>>

NewJob == [owner |-> "ours", inc |-> b.inc, state |-> "waiting"]

\* Mutant of CreateJob: every attempt creates a Job under a fresh name.
CreateJob_FreshName ==
    /\ pc = "create"
    /\ job' = NewJob
    /\ started' = started + 1
    /\ b' = TrackJob(b) /\ j' = NewJob
    /\ Goto("observe")
    /\ JobEvent
    /\ UNCHANGED <<build, bcache, jcache, dirty, gate, base, retry, born, faults>>

CreateJob ==
    /\ pc = "create"
    /\ IF job = None
       THEN /\ job' = NewJob
            /\ started' = started + 1
            /\ b' = TrackJob(b) /\ j' = NewJob
            /\ Goto("observe")
       ELSE Goto("reread") /\ UNCHANGED <<job, started, b, j>>
    /\ JobEvent
    /\ UNCHANGED <<build, bcache, jcache, dirty, gate, base, retry, born, faults>>

\* Mutant of Reread: whatever Job has the name is taken for ours.
Reread_Unchecked ==
    /\ pc = "reread"
    /\ \/ job = None /\ retry' = TRUE /\ Goto("status") /\ UNCHANGED <<b, j>>
       \/ /\ job # None
          /\ b' = TrackJob(b) /\ j' = job
          /\ Goto("observe") /\ UNCHANGED retry
    /\ UNCHANGED <<store, caches, dirty, gate, base, ghosts, faults>>

\* AlreadyExists: the live Job, and the same ownership test.
Reread ==
    /\ pc = "reread"
    /\ \/ job = None /\ retry' = TRUE /\ Goto("status") /\ UNCHANGED <<b, j>>
       \/ /\ OwnsJob(job)
          /\ b' = TrackJob(b) /\ j' = job
          /\ Goto("observe") /\ UNCHANGED retry
       \/ /\ job # None /\ ~OwnsJob(job)
          /\ b' = FailBuild(b, "JobConflict") /\ retry' = TRUE
          /\ Goto("status") /\ UNCHANGED j
    /\ UNCHANGED <<store, caches, dirty, gate, base, ghosts, faults>>

\* observeJob; Succeeded is written together with the pinned image.
Observed(state) ==
    LET st == b.status IN
    CASE state = "failed"   -> FailBuild(b, "JobFailed").status
      [] state = "complete" -> [phase |-> "Succeeded", reason |-> st.reason,
                                jobRef |-> st.jobRef, image |-> "digest"]
      [] state = "active"   -> [st EXCEPT !.phase = "Running"]
      [] state = "waiting"  -> [st EXCEPT !.phase = IF @ = "New" THEN "Pending" ELSE @]

ObserveJob ==
    /\ pc = "observe"
    /\ b' = [b EXCEPT !.status = Observed(j.state)]
    /\ Goto("status")
    /\ UNCHANGED <<store, caches, dirty, gate, j, base, retry, ghosts, faults>>

\* The pods of a failed Job cannot be listed, or the digest of a pushed image
\* cannot be resolved: stay Running and back off.
ObserveError ==
    /\ pc = "observe" /\ j.state \in {"complete", "failed"}
    /\ faults < world.faults /\ faults' = faults + 1
    /\ b' = IF j.state = "complete" THEN [b EXCEPT !.status.phase = "Running"] ELSE b
    /\ retry' = TRUE
    /\ Goto("status")
    /\ UNCHANGED <<store, caches, dirty, gate, j, base, ghosts>>

\* updateStatus: nothing to write, a write at the version read, or a conflict.
UpdateStatus ==
    /\ pc = "status"
    /\ IF b.status = base
       THEN Finish(retry) /\ UNCHANGED build
       ELSE \/ WriteStatus /\ Finish(retry)
            \/ ~Current(b) /\ Finish(TRUE) /\ UNCHANGED build
    /\ UNCHANGED <<job, caches, gate, ghosts, faults>>

\* finalize up to the Job's Delete, which names the Job and carries no
\* precondition: it removes whatever has that name now.
Finalize ==
    /\ pc = "finalize"
    /\ job' = IF OwnsJob(CachedJob) THEN None ELSE job
    /\ JobEvent
    /\ Goto("unfinalize")
    /\ UNCHANGED <<build, bcache, jcache, dirty, gate, b, j, base, retry, ghosts, faults>>

RemoveFinalizer ==
    /\ pc = "unfinalize"
    /\ \/ Unfinalize /\ Finish(FALSE)
       \/ ~Current(b) /\ Finish(TRUE) /\ UNCHANGED build
    /\ UNCHANGED <<job, caches, gate, ghosts, faults>>

\* Any call to the API server may fail, without an effect or after it.
CallError ==
    /\ pc \in {"adopt", "finalizer", "status", "finalize", "unfinalize"}
    /\ faults < world.faults /\ faults' = faults + 1
    /\ Finish(TRUE)
    /\ \/ UNCHANGED store
       \/ pc = "finalizer" /\ b.meta = "bare" /\ WriteFinalizer /\ UNCHANGED job
       \/ pc = "status" /\ b.status # base /\ WriteStatus /\ UNCHANGED job
       \/ pc = "finalize" /\ OwnsJob(CachedJob) /\ job' = None /\ UNCHANGED build
       \/ pc = "unfinalize" /\ Unfinalize /\ UNCHANGED job
    /\ JobEvent
    /\ UNCHANGED <<bcache, jcache, gate, ghosts>>

\* An error inside ensureJob still lets the status write happen.
EnsureError ==
    /\ pc \in {"ensure", "confirm", "create", "reread"}
    /\ faults < world.faults /\ faults' = faults + 1
    /\ retry' = TRUE /\ Goto("status")
    /\ \/ UNCHANGED <<job, started>>
       \/ pc = "create" /\ job = None /\ job' = NewJob /\ started' = started + 1
    /\ JobEvent
    /\ UNCHANGED <<build, bcache, jcache, dirty, gate, b, j, base, born>>

Reconcile ==
    \/ Get \/ AdoptStartedJob \/ AddFinalizer \/ EnsureJob \/ ConfirmGone
    \/ CreateJob \/ Reread \/ ObserveJob \/ UpdateStatus
    \/ Finalize \/ RemoveFinalizer

Next ==
    /\ UNCHANGED world
    /\ \/ \E spec \in {"valid", "invalid"} : CreateBuild(spec)
       \/ DeleteBuild \/ JobStep \/ UserJob
       \/ SyncBuild \/ SyncJob \/ Restart
       \/ Reconcile \/ ObserveError \/ EnsureError \/ CallError

Spec == Init /\ [][Next]_vars

(***************************************************************************)
(* Properties.                                                             *)
(***************************************************************************)

\* Every variable keeps its type; a reconcile holds a copy of the Build from
\* its Get to its return.
TypeOK ==
    /\ build \in Builds \cup {None} /\ bcache \in Builds \cup {None}
    /\ job \in Jobs \cup {None} /\ jcache \in Jobs \cup {None}
    /\ dirty \in BOOLEAN /\ jevent \in BOOLEAN /\ gate \in BOOLEAN /\ retry \in BOOLEAN
    /\ pc \in {"idle", "adopt", "finalizer", "ensure", "confirm", "create", "reread",
               "observe", "status", "finalize", "unfinalize"}
    /\ IF pc = "idle" THEN b = None ELSE b \in Builds /\ base \in Statuses
    /\ IF pc = "observe" THEN j \in Jobs ELSE j \in Jobs \cup {None}
    /\ born \in 0..world.builds /\ started \in Nat /\ faults \in 0..world.faults
    /\ world \in Worlds

Rank(p) == CASE p = "New" -> 0 [] p = "Pending" -> 1 [] p = "Running" -> 2 [] OTHER -> 3

\* The phase in the API server never goes back, and the status of a Succeeded
\* or Failed Build never changes again ("a terminal Build is a closed record"),
\* although reconciles work on stale copies of the Build and of its Job.
PhaseNeverRegresses ==
    [][\/ build = None \/ build' = None
       \/ IF IsTerminal(build) THEN build'.status = build.status
          ELSE Rank(build.status.phase) <= Rank(build'.status.phase)]_vars

\* While nobody deletes Jobs, a Build runs once: restarts, lost answers and lagging
\* caches between the Job's create and the write of status.jobRef start no second one.
StartedOnce == "delete" \notin world.ops => started <= 1

\* A Build is Failed for a disabled feature only if its Job was never started
\* ("disabling a feature must not rewrite the immutable build record as failed
\* while that already-authorized Job is still running").
GateSparesStarted ==
    build # None /\ build.status.reason = "FeatureDisabled" => ~OwnsJob(job)

\* The verdict on a Build is the one of its own Job, which stays as the build log
\* while nobody deletes Jobs.  (Where the name is used again and the Job informer
\* lags, finalize can miss the predecessor's Job, and the Build takes that one over.)
VerdictIsTheJobs ==
    build # None /\ build.meta # "deleting"
       /\ "delete" \notin world.ops /\ (world.informer = "current" \/ born <= 1) =>
        /\ build.status.phase = "Succeeded" =>
              build.status.image = "digest" /\ OwnsJob(job) /\ job.inc = build.inc /\ job.state = "complete"
        /\ build.status.reason = "JobFailed" => OwnsJob(job) /\ job.inc = build.inc /\ job.state = "failed"

\* A Job of ours exists only as long as its Build ("deleting a Build deletes
\* its Job"), whatever step of the reconcile the deletion meets, as long as the
\* Job informer shows a Job by the time the Build is finalized.
NoOrphanJob ==
    OwnsJob(job) /\ world.informer = "current" => build # None /\ build.inc = job.inc

(***************************************************************************)
(* Liveness: the work queue serves an enqueued key, informers catch up,    *)
(* Jobs end (activeDeadlineSeconds), and failures are finitely many.  The  *)
(* reconcile runs only when an event or an error has enqueued the key.     *)
(***************************************************************************)

Fairness ==
    /\ WF_vars(Reconcile /\ UNCHANGED world)
    /\ WF_vars(SyncBuild /\ UNCHANGED world) /\ WF_vars(SyncJob /\ UNCHANGED world)
    /\ WF_vars(JobStep /\ UNCHANGED world)

FairSpec == Spec /\ Fairness

\* Every Build that is not deleted reaches a verdict.
BuildSettles ==
    \A i \in 1..MaxBuilds :
        (build # None /\ build.inc = i) ~>
            (build = None \/ build.inc # i \/ build.meta = "deleting" \/ IsTerminal(build))

\* A deleted Build's finalizer is removed in the end.
DeletionCompletes ==
    \A i \in 1..MaxBuilds :
        (build # None /\ build.inc = i /\ build.meta = "deleting") ~> (build = None \/ build.inc # i)

(***************************************************************************)
(* The abstract specification.                                             *)
(***************************************************************************)

\* What a watcher of the Build sees of it.
ShownPhase == IF build = None THEN "absent" ELSE build.status.phase
ShownId == IF build = None THEN 0 ELSE build.inc

Record == INSTANCE BuildRecord WITH phase <- ShownPhase, id <- ShownId, last <- born

\* The Build in the API server is a BuildRecord: each one has an identity of its
\* own, only moves forward, and keeps its verdict until it is removed, whatever
\* copies of it and of its predecessors the reconciles work on.
RefinesBuildRecord == Record!Spec
=============================================================================
