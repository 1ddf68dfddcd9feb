------------------------ MODULE BuildControllerProofs ------------------------
(***************************************************************************)
(* Proofs about BuildController, for any number of Builds, faults and user *)
(* operations and whether or not the Job informer lags: type correctness,  *)
(* that the phase of a Build never goes back and a verdict is final, that  *)
(* the controller implements BuildRecord, and the life of a Build and its  *)
(* Job: one Job at most, none at a closed gate, none without its Build,    *)
(* and a verdict that is the Job's own.  Copies are ordered by version for *)
(* the first part (Copies), by incarnation and metadata for the second.    *)
(***************************************************************************)
EXTENDS BuildController, TLAPS

(***************************************************************************)
(* The records the reconcile builds.                                       *)
(***************************************************************************)

\* Storing a Build changes its resourceVersion and nothing else.
LEMMA StoredBuild ==
    ASSUME NEW x \in Builds
    PROVE  /\ Stored(x) \in Builds
           /\ Stored(x).inc = x.inc /\ Stored(x).rv = x.rv + 1 /\ Stored(x).status = x.status
           /\ Stored(x).meta = x.meta
  BY DEF Stored, Builds

\* failBuild closes the status and keeps the Build's identity.
LEMMA FailedBuild ==
    ASSUME NEW x \in Builds, NEW why \in Reasons
    PROVE  /\ FailBuild(x, why) \in Builds
           /\ FailBuild(x, why).inc = x.inc /\ FailBuild(x, why).rv = x.rv /\ FailBuild(x, why).meta = x.meta
           /\ FailBuild(x, why).status.phase = "Failed" /\ FailBuild(x, why).status.reason = why
           /\ FailBuild(x, why).status.jobRef = x.status.jobRef
  BY Zenon DEF FailBuild, Builds, Statuses, Phases, Terminal

\* Recording the Job keeps the phase.
LEMMA TrackedBuild ==
    ASSUME NEW x \in Builds
    PROVE  /\ TrackJob(x) \in Builds
           /\ TrackJob(x).inc = x.inc /\ TrackJob(x).rv = x.rv /\ TrackJob(x).meta = x.meta
           /\ TrackJob(x).status.phase = x.status.phase /\ TrackJob(x).status.reason = x.status.reason
           /\ TrackJob(x).status.jobRef = "job"
  BY Zenon DEF TrackJob, Builds, Statuses

\* The next version of the Build, with the metadata m and the status st.
NextVersion(m, st) ==
    /\ build' \in Builds /\ build' # None
    /\ build'.inc = build.inc /\ build'.rv = build.rv + 1
    /\ build'.meta = m /\ build'.status = st

\* A write of the metadata makes the next version of the Build.
LEMMA MetaWritten ==
    ASSUME build \in Builds, NEW m \in {"bare", "finalizer", "deleting"},
           build' = Stored([build EXCEPT !.meta = m])
    PROVE  NextVersion(m, build.status)
<1> DEFINE y == [build EXCEPT !.meta = m]
<1>1. y \in Builds /\ y.inc = build.inc /\ y.rv = build.rv /\ y.status = build.status /\ y.meta = m
  BY Zenon DEF Builds
<1>2. build' = Stored(y)
  BY Zenon
<1> HIDE DEF y
<1> QED
  BY <1>1, <1>2, StoredBuild, NoneIsNoBuild, Zenon DEF NextVersion

\* A write of the status makes the next version of the Build.
LEMMA StatusWritten ==
    ASSUME build \in Builds, NEW st \in Statuses, build' = Stored([build EXCEPT !.status = st])
    PROVE  NextVersion(build.meta, st)
<1> DEFINE y == [build EXCEPT !.status = st]
<1>1. y \in Builds /\ y.inc = build.inc /\ y.rv = build.rv /\ y.status = st /\ y.meta = build.meta
  BY Zenon DEF Builds
<1>2. build' = Stored(y)
  BY Zenon
<1> HIDE DEF y
<1> QED
  BY <1>1, <1>2, StoredBuild, NoneIsNoBuild, Zenon DEF NextVersion

\* What observeJob derives from a Job: a status whose phase is not behind the one it
\* starts from, which closes the Build for a Job that has ended and for no other.
LEMMA ObservedStatus ==
    ASSUME b \in Builds, b.status.phase \notin Terminal, NEW s \in JobStates
    PROVE  /\ Observed(s) \in Statuses
           /\ Rank(b.status.phase) <= Rank(Observed(s).phase)
           /\ Observed(s).jobRef = b.status.jobRef
           /\ \/ Observed(s).reason = b.status.reason /\ Observed(s).phase \notin Terminal
              \/ s = "failed" /\ Observed(s).reason = "JobFailed" /\ Observed(s).phase = "Failed"
              \/ /\ s = "complete" /\ Observed(s).reason = b.status.reason
                 /\ Observed(s).phase = "Succeeded" /\ Observed(s).image = "digest"
<1> USE DEF Builds, Statuses, Phases, Terminal, Rank, Reasons, Observed
<1>1. b.status \in Statuses /\ b.status.phase \in {"New", "Pending", "Running"}
  BY Zenon
<1>2. CASE s = "failed"
  BY <1>1, <1>2, FailedBuild
<1>3. CASE s = "complete"
  BY <1>1, <1>3
<1>4. CASE s = "active"
  BY <1>1, <1>4
<1>5. CASE s = "waiting"
  BY <1>1, <1>5
<1> QED
  BY <1>2, <1>3, <1>4, <1>5, Zenon DEF JobStates

(***************************************************************************)
(* The inductive invariant.  A copy of the Build is a past version of it:  *)
(* when the versions agree, so do the statuses, and a write that passes    *)
(* the version test replaces exactly the status the reconcile started from *)
(* (base), which was open and which the copy can only have advanced.       *)
(***************************************************************************)

\* The typed variables other than the flags.
Shape ==
    /\ build \in Builds \cup {None} /\ bcache \in Builds \cup {None}
    /\ job \in Jobs \cup {None} /\ jcache \in Jobs \cup {None}
    /\ pc \in {"idle", "adopt", "finalizer", "ensure", "confirm", "create", "reread",
               "observe", "status", "finalize", "unfinalize"}
    /\ IF pc = "idle" THEN b = None ELSE b \in Builds /\ base \in Statuses
    /\ IF pc = "observe" THEN j \in Jobs ELSE j \in Jobs \cup {None}
    /\ born \in 0..world.builds /\ started \in Nat /\ faults \in 0..world.faults
    /\ world \in Worlds

\* The flags.
Flags == dirty \in BOOLEAN /\ jevent \in BOOLEAN /\ gate \in BOOLEAN /\ retry \in BOOLEAN

\* x is a version of the Build, present or past, whose status was st.
Past(x, st) ==
    /\ x.inc <= born
    /\ build # None /\ x.inc = build.inc =>
          x.rv <= build.rv /\ (x.rv = build.rv => st = build.status)

\* The steps that have not touched the phase yet.
Open == {"adopt", "finalizer", "ensure", "confirm", "create", "reread", "observe"}

Copies ==
    /\ build # None => build.inc <= born
    /\ bcache # None => Past(bcache, bcache.status)
    /\ pc # "idle" => Past(b, base)
    /\ pc \in Open => base.phase \notin Terminal /\ b.status.phase = base.phase
    /\ pc = "status" => base.phase \notin Terminal /\ Rank(base.phase) <= Rank(b.status.phase)

IInv == Flags /\ Shape /\ Copies

\* The fields of a Build the invariant talks about.
LEMMA BuildFields ==
    ASSUME NEW x \in Builds
    PROVE  x.inc \in Nat /\ x.rv \in Nat /\ x.status \in Statuses /\ x.status.phase \in Phases
  BY Zenon DEF Builds, Statuses

\* The bounds of a world are numbers.
LEMMA WorldFields ==
    ASSUME NEW w \in Worlds
    PROVE  w.builds \in Nat /\ w.faults \in Nat
  BY BuildConstants DEF BuildConstants

\* The three parts of the invariant are TypeOK and Copies.
LEMMA TypeSplit == TypeOK <=> Flags /\ Shape
  BY Zenon DEF TypeOK, Flags, Shape

\* The invariant holds initially: there is no Build and no copy of one.
LEMMA InvInit == Init => IInv
<1> SUFFICES ASSUME Init PROVE IInv
  BY Zenon
<1>1. Flags
  BY Zenon DEF Init, Flags
<1>2. Shape
  BY WorldFields DEF Init, Shape
<1>3. Copies
  BY Zenon DEF Init, Copies, Open
<1> QED
  BY <1>1, <1>2, <1>3, Zenon DEF IInv

\* Every step keeps the flags Boolean.
LEMMA FlagsNext == Flags /\ [Next]_vars => Flags'
<1> SUFFICES ASSUME Flags, [Next]_vars PROVE Flags'
  BY Zenon
<1> USE DEF Flags, store, caches, local, ghosts, vars, Next, Reconcile, JobEvent, Finish,
        CreateBuild, DeleteBuild, JobStep, UserJob, SyncBuild, SyncJob, Restart, Get, AdoptStartedJob,
        AddFinalizer, EnsureJob, ConfirmGone, CreateJob, Reread, ObserveJob, ObserveError,
        UpdateStatus, Finalize, RemoveFinalizer, CallError, EnsureError
<1>1. dirty' \in BOOLEAN
  BY Zenon
<1>2. jevent' \in BOOLEAN
  BY Zenon
<1>3. gate' \in BOOLEAN
  BY Zenon
<1>4. retry' \in BOOLEAN
  BY Zenon
<1> QED
  BY <1>1, <1>2, <1>3, <1>4, Zenon DEF Flags

(***************************************************************************)
(* What a step does, by the effect it has on the Build, its Job and their  *)
(* copies.  The invariants below are shown once per effect.                *)
(***************************************************************************)

\* The steps of a reconcile that runs the Build.
Working == {"ensure", "confirm", "create", "reread", "observe"}

\* The reconcile keeps which Build its copy is of.
SameCopy == b'.inc = b.inc /\ b'.rv = b.rv /\ b'.meta = b.meta

Created ==
    /\ build = None /\ build' \in Builds /\ build' # None
    /\ born' = born + 1 /\ started' = 0 /\ build'.inc = born'
    /\ build'.meta = "bare" /\ build'.status = NewStatus
    /\ UNCHANGED <<job, bcache, jcache, gate, pc, b, j, base>>

Deleted ==
    /\ build # None
    /\ \/ build.meta = "bare" /\ build' = None
       \/ build.meta = "finalizer" /\ NextVersion("deleting", build.status)
    /\ UNCHANGED <<job, bcache, jcache, gate, pc, b, j, base, born, started>>

JobMoves ==
    /\ \/ /\ job # None /\ job' # None /\ job'.owner = job.owner /\ job'.inc = job.inc
          /\ job.state \notin {"complete", "failed"}
       \/ "delete" \in world.ops /\ job' = None
       \/ job = None /\ job' # None /\ ~OwnsJob(job')
    /\ UNCHANGED <<build, bcache, jcache, gate, pc, b, j, base, born, started>>

\* An informer catches up, the operator restarts, or nothing happens.
Shown ==
    /\ bcache' \in {bcache, build} /\ jcache' \in {jcache, job}
    /\ UNCHANGED <<gate, pc, b, j, base>> \/ (pc' = "idle" /\ bcache' = build)
    /\ UNCHANGED <<build, job, born, started>>

Fetched ==
    /\ pc = "idle" /\ bcache # None /\ b' = bcache /\ base' = bcache.status
    /\ \/ bcache.meta = "deleting" /\ pc' = "finalize"
       \/ /\ bcache.meta # "deleting" /\ ~IsTerminal(bcache)
          /\ \/ pc' = "adopt" /\ gate /\ bcache.status.jobRef = "none"
             \/ pc' = "finalizer" /\ ~(gate /\ bcache.status.jobRef = "none")
    /\ UNCHANGED <<build, job, bcache, jcache, gate, born, started>>

Adopted ==
    /\ pc = "adopt" /\ SameCopy
    /\ \/ /\ OwnsJob(job) /\ pc' = "finalizer"
          /\ b'.status.jobRef = "job" /\ b'.status.reason = b.status.reason
          /\ b'.status.phase = b.status.phase
       \/ /\ ~OwnsJob(job) /\ pc' = "status"
          /\ b'.status.jobRef = b.status.jobRef
          /\ b'.status.phase = "Failed" /\ b'.status.reason = "FeatureDisabled"
    /\ UNCHANGED <<build, job, bcache, jcache, gate, base, born, started>>

Finalizer ==
    /\ pc = "finalizer" /\ pc' = "ensure"
    /\ \/ b.meta # "bare" /\ UNCHANGED <<build, b>>
       \/ /\ b.meta = "bare" /\ Current(b)
          /\ NextVersion("finalizer", build.status) /\ b' = build'
    /\ UNCHANGED <<job, bcache, jcache, gate, base, born, started>>

\* Where the status of the copy comes from when the reconcile gets to write it.
Concluded ==
    \/ b'.status.reason \in {"InvalidBuild", "JobConflict", "JobMissing"} /\ b'.status.phase = "Failed"
    \/ b'.status.reason = b.status.reason /\ b'.status.phase \notin Terminal
    \/ /\ pc = "observe" /\ j.state = "failed"
       /\ b'.status.reason = "JobFailed" /\ b'.status.phase = "Failed"
    \/ /\ pc = "observe" /\ j.state = "complete"
       /\ b'.status.reason = b.status.reason /\ b'.status.phase = "Succeeded"
       /\ b'.status.image = "digest"

Onward ==
    /\ pc \in Working /\ SameCopy
    /\ \/ pc' = "confirm" /\ b' = b /\ b.status.jobRef = "job"
       \/ pc' \in {"create", "reread"} /\ b' = b
       \/ /\ pc' = "observe" /\ b'.status.reason = b.status.reason /\ b'.status.phase = b.status.phase
          /\ \/ OwnsJob(j') /\ j' \in {job, CachedJob} /\ b'.status.jobRef = "job"
             \/ pc = "confirm" /\ job # None /\ j' = job /\ b' = b
       \/ /\ pc' = "status" /\ Concluded /\ b'.status.jobRef = b.status.jobRef
          /\ Rank(b.status.phase) <= Rank(b'.status.phase)
    /\ UNCHANGED <<build, job, bcache, jcache, gate, base, born, started>>

Launched ==
    /\ pc = "create" /\ SameCopy
    /\ b'.status.reason = b.status.reason /\ b'.status.phase = b.status.phase
    /\ job = None /\ job' = NewJob /\ started' = started + 1
    /\ \/ pc' = "observe" /\ j' = job' /\ b'.status.jobRef = "job"
       \/ pc' = "status" /\ b' = b
    /\ UNCHANGED <<build, bcache, jcache, gate, base, born>>

Ended ==
    /\ pc # "idle" /\ pc' = "idle"
    /\ \/ build' = build
       \/ pc = "finalizer" /\ b.meta = "bare" /\ Current(b) /\ NextVersion("finalizer", build.status)
       \/ pc = "status" /\ Current(b) /\ NextVersion(build.meta, b.status)
       \/ pc = "unfinalize" /\ Current(b) /\ build' = None
    /\ UNCHANGED <<job, bcache, jcache, gate, born, started>>

JobRemoved ==
    /\ pc = "finalize"
    /\ \/ pc' = "unfinalize" /\ b' = b /\ base' = base /\ job' = IF OwnsJob(CachedJob) THEN None ELSE job
       \/ pc' = "idle" /\ job' = None
    /\ UNCHANGED <<build, bcache, jcache, gate, born, started>>

Effect ==
    \/ Created \/ Deleted \/ JobMoves \/ Shown \/ Fetched \/ Adopted
    \/ Finalizer \/ Onward \/ Launched \/ Ended \/ JobRemoved

\* The updates of the reconcile are next versions of the Build.
LEMMA NextVersions ==
    ASSUME Shape
    PROVE  /\ WriteFinalizer => Current(b) /\ NextVersion("finalizer", build.status)
           /\ WriteStatus /\ pc = "status" => Current(b) /\ NextVersion(build.meta, b.status)
           /\ DeleteBuild /\ build.meta = "finalizer" => NextVersion("deleting", build.status)
<1> USE DEF Shape
<1>1. WriteFinalizer => Current(b) /\ NextVersion("finalizer", build.status)
  BY MetaWritten, Zenon DEF WriteFinalizer, Current
<1>2. WriteStatus /\ pc = "status" => Current(b) /\ NextVersion(build.meta, b.status)
  BY StatusWritten, BuildFields, Zenon DEF WriteStatus, Current
<1>3. DeleteBuild /\ build.meta = "finalizer" => NextVersion("deleting", build.status)
  BY MetaWritten, Zenon DEF DeleteBuild
<1> QED
  BY <1>1, <1>2, <1>3, Zenon

\* Every step has one of these effects, and keeps the types.
LEMMA Effects ==
    ASSUME Shape, Copies, [Next]_vars
    PROVE  UNCHANGED world /\ Shape' /\ Effect
<1>0. UNCHANGED world /\ world.builds \in Nat /\ world.faults \in Nat
  BY WorldFields, Zenon DEF Shape, Next, vars
<1> SUFFICES Shape' /\ Effect
  BY <1>0, Zenon
<1> USE <1>0 DEF Shape, Goto, store, caches, local, ghosts, Effect
<1>1. ASSUME NEW spec \in {"valid", "invalid"}, CreateBuild(spec) PROVE Shape' /\ Created
  <2>1. build' \in Builds /\ born' \in 0..world.builds
    BY <1>1 DEF CreateBuild, Builds, Statuses, NewStatus, Phases, Reasons
  <2> QED
    BY <1>1, <2>1, NoneIsNoBuild, Zenon DEF CreateBuild, Created
<1>2. CASE DeleteBuild
  <2>1. build \in Builds /\ build.meta \in {"bare", "finalizer"}
    BY <1>2, Zenon DEF DeleteBuild, Builds
  <2>2. Deleted
    BY <1>2, <2>1, NextVersions, Zenon DEF DeleteBuild, Deleted
  <2> QED
    BY <1>2, <2>2, Zenon DEF DeleteBuild, Deleted, NextVersion
<1>3. CASE JobStep
  <2>1. job \in Jobs /\ job # None /\ job.state \notin {"complete", "failed"}
    BY <1>3, Zenon DEF JobStep, Jobs
  <2>2. job' \in Jobs /\ job'.owner = job.owner /\ job'.inc = job.inc
    BY <1>3, <2>1, Zenon DEF JobStep, Jobs, JobStates
  <2> QED
    BY <1>3, <2>1, <2>2, NoneIsNoBuild, Zenon DEF JobStep, JobMoves
<1>4. CASE UserJob
  <2>1. [owner |-> "foreign", inc |-> 0, state |-> "waiting"] \in Jobs
    BY Zenon DEF Jobs, JobStates
  <2> QED
    BY <1>4, <2>1, NoneIsNoBuild DEF UserJob, JobMoves, OwnsJob
<1>5. CASE SyncBuild
  BY <1>5, Zenon DEF SyncBuild, Shown
<1>6. CASE SyncJob
  BY <1>6, Zenon DEF SyncJob, Shown
<1>7. CASE Restart
  BY <1>7 DEF Restart, Shown
<1>8. CASE Get
  BY <1>8, BuildFields, Zenon DEF Get, Fetched, NothingToDo, Shown
<1>9. CASE AdoptStartedJob
  BY <1>9, FailedBuild, TrackedBuild DEF AdoptStartedJob, Adopted, SameCopy, Reasons
<1>10. CASE AddFinalizer
  <2>1. CASE b.meta # "bare" \/ ~WriteFinalizer
    BY <1>10, <2>1, Zenon DEF AddFinalizer, Finalizer, Finish, Ended
  <2>2. CASE b.meta = "bare" /\ WriteFinalizer
    BY <1>10, <2>2, NextVersions, Zenon DEF AddFinalizer, WriteFinalizer, Finalizer, NextVersion
  <2> QED
    BY <2>1, <2>2, Zenon
<1>11. CASE EnsureJob
  BY <1>11, FailedBuild, TrackedBuild
     DEF EnsureJob, CachedJob, OwnsJob, Onward, Working, SameCopy, Concluded, Reasons, Statuses, Builds, Rank
<1>12. CASE ConfirmGone
  BY <1>12, FailedBuild DEF ConfirmGone, Onward, Working, SameCopy, Concluded, Reasons, Rank
<1>13. CASE CreateJob
  BY <1>13, TrackedBuild DEF CreateJob, NewJob, Jobs, JobStates, Builds, Onward, Launched, Working, SameCopy
<1>14. CASE Reread
  <2>1. b \in Builds /\ b.status.phase \notin Terminal
    BY <1>14, Zenon DEF Reread, Copies, Open
  <2> QED
    BY <1>14, <2>1, FailedBuild, TrackedBuild
       DEF Reread, OwnsJob, Onward, Working, SameCopy, Concluded, Reasons, Rank
<1>15. CASE ObserveJob
  <2>1. b \in Builds /\ b.status.phase \notin Terminal /\ j.state \in JobStates
    BY <1>15, Zenon DEF ObserveJob, Copies, Open, Jobs
  <2>2. b' \in Builds /\ SameCopy /\ b'.status = Observed(j.state)
    BY <1>15, <2>1, ObservedStatus, Zenon DEF ObserveJob, SameCopy, Builds
  <2>3. Rank(b.status.phase) <= Rank(b'.status.phase) /\ b'.status.jobRef = b.status.jobRef
    BY <2>1, <2>2, ObservedStatus
  <2>4. Concluded
    BY <1>15, <2>1, <2>2, ObservedStatus DEF ObserveJob, Concluded
  <2> QED
    BY <1>15, <2>2, <2>3, <2>4, Zenon DEF ObserveJob, Onward, Working
<1>16. CASE ObserveError
  <2>1. b \in Builds /\ b.status.phase \in {"New", "Pending", "Running"}
    BY <1>16, BuildFields, Zenon DEF ObserveError, Copies, Open, Phases, Terminal
  <2>2. /\ b' \in Builds /\ SameCopy
        /\ b'.status.reason = b.status.reason /\ b'.status.jobRef = b.status.jobRef
        /\ b'.status.phase \in {b.status.phase, "Running"}
    BY <1>16, <2>1, Zenon DEF ObserveError, SameCopy, Builds, Statuses, Phases
  <2>3. Concluded /\ Rank(b.status.phase) <= Rank(b'.status.phase)
    BY <2>1, <2>2 DEF Concluded, Terminal, Rank
  <2> QED
    BY <1>16, <2>2, <2>3 DEF ObserveError, Onward, Working
<1>17. CASE UpdateStatus
  BY <1>17, NextVersions, Zenon DEF UpdateStatus, Finish, Ended, NextVersion
<1>18. CASE Finalize
  BY <1>18, Zenon DEF Finalize, JobRemoved
<1>19. CASE RemoveFinalizer
  BY <1>19, Zenon DEF RemoveFinalizer, Unfinalize, Finish, Ended
<1>20. CASE CallError
  BY <1>20, NextVersions DEF CallError, Unfinalize, Finish, Ended, JobRemoved, NextVersion
<1>21. CASE EnsureError
  <2>1. b \in Builds /\ b.status.phase \notin Terminal /\ Rank(b.status.phase) <= Rank(b.status.phase)
    BY <1>21 DEF EnsureError, Copies, Open, Rank
  <2>2. NewJob \in Jobs
    BY <2>1, Zenon DEF NewJob, Builds, Jobs, JobStates
  <2> QED
    BY <1>21, <2>1, <2>2 DEF EnsureError, Onward, Launched, Working, SameCopy, Concluded
<1>22. CASE UNCHANGED vars
  BY <1>22, Zenon DEF vars, Shown
<1> QED
  BY <1>1, <1>2, <1>3, <1>4, <1>5, <1>6, <1>7, <1>8, <1>9, <1>10, <1>11, <1>12, <1>13,
     <1>14, <1>15, <1>16, <1>17, <1>18, <1>19, <1>20, <1>21, <1>22, Zenon DEF Next, Reconcile

\* Every step keeps the copies of the Build in its past.
LEMMA CopiesNext ==
    ASSUME Shape, Copies, Effect
    PROVE  Copies'
<1>1. born \in Nat
  BY WorldFields DEF Shape
<1>2. build # None => build.inc \in Nat /\ build.rv \in Nat
  BY Zenon DEF Shape, Builds
<1>3. bcache # None => bcache.inc \in Nat /\ bcache.rv \in Nat
  BY Zenon DEF Shape, Builds
<1>4. pc # "idle" => b.inc \in Nat /\ b.rv \in Nat
  BY Zenon DEF Shape, Builds
<1> USE <1>1, <1>2, <1>3, <1>4 DEF Copies, Past, Open
<1>5. CASE Created
  BY <1>5 DEF Created
<1>6. CASE Deleted
  BY <1>6 DEF Deleted, NextVersion
<1>7. CASE JobMoves
  BY <1>7, Zenon DEF JobMoves
<1>8. CASE Shown
  BY <1>8 DEF Shown
<1>11. CASE Fetched
  BY <1>11, Zenon DEF Fetched, IsTerminal
<1>12. CASE Adopted
  BY <1>12, BuildFields DEF Adopted, SameCopy, Rank, Shape
<1>13. CASE Finalizer
  BY <1>13 DEF Finalizer, NextVersion, Current
<1>14. CASE Onward
  BY <1>14, Zenon DEF Onward, SameCopy, Working
<1>15. CASE Launched
  BY <1>15 DEF Launched, SameCopy, Rank
<1>16. CASE Ended
  BY <1>16 DEF Ended, NextVersion, Current
<1>17. CASE JobRemoved
  BY <1>17, Zenon DEF JobRemoved
<1> QED
  BY <1>5, <1>6, <1>7, <1>8, <1>11, <1>12, <1>13, <1>14, <1>15, <1>16, <1>17, Zenon DEF Effect

\* The inductive invariant holds in every reachable state.
LEMMA Invariance == Spec => []IInv
<1>1. IInv /\ [Next]_vars => IInv'
  BY FlagsNext, Effects, CopiesNext, Zenon DEF IInv
<1> QED
  BY InvInit, <1>1, PTL DEF Spec

\* Type correctness: every variable keeps its type, and a reconcile holds a
\* copy of the Build from its Get to its return.
THEOREM TypeCorrect == Spec => []TypeOK
<1>1. IInv => TypeOK
  BY TypeSplit, Zenon DEF IInv
<1> QED
  BY Invariance, <1>1, PTL

\* A step of a state that satisfies the invariant moves the phase forward or
\* leaves it, and leaves the status of a closed Build.
LEMMA PhaseStep ==
    ASSUME Shape, Copies, [Next]_vars, build # None, build' # None
    PROVE  IF IsTerminal(build) THEN build'.status = build.status
           ELSE Rank(build.status.phase) <= Rank(build'.status.phase)
<1>1. build \in Builds /\ Rank(build.status.phase) \in 0..3
  BY BuildFields DEF Shape, Rank
<1>2. CASE pc = "status" /\ Current(b) /\ build'.status = b.status
  <2>1. build.status = base
    BY <1>2, Zenon DEF Copies, Past, Current
  <2> QED
    BY <1>2, <2>1, Zenon DEF Copies, IsTerminal
<1>3. CASE build'.status = build.status
  BY <1>1, <1>3
<1>4. build'.status = build.status \/ (pc = "status" /\ Current(b) /\ build'.status = b.status)
  BY Effects, Zenon DEF Effect, Created, Deleted, JobMoves, Shown, Fetched, Adopted, Finalizer, Onward,
     Launched, Ended, JobRemoved, NextVersion
<1> QED
  BY <1>2, <1>3, <1>4, Zenon

\* The phase of a Build never goes back and a verdict is final, although
\* reconciles work on stale copies of the Build and of its Job.
THEOREM PhaseForward == Spec => PhaseNeverRegresses
<1>1. IInv /\ [Next]_vars =>
        [\/ build = None \/ build' = None
         \/ IF IsTerminal(build) THEN build'.status = build.status
            ELSE Rank(build.status.phase) <= Rank(build'.status.phase)]_vars
  BY PhaseStep, Zenon DEF IInv
<1> QED
  BY Invariance, <1>1, PTL DEF Spec, PhaseNeverRegresses

(***************************************************************************)
(* The controller implements BuildRecord.                                  *)
(***************************************************************************)

\* The abstract order of the phases is the concrete one.
LEMMA StageIsRank ==
    ASSUME NEW p \in Phases
    PROVE  p \in DOMAIN Record!Stage /\ Record!Stage[p] = Rank(p)
  BY DEF Phases, Terminal, Rank, Record!Stage

\* What a step does to the Build, seen from outside: a new one under the next
\* identity, a new version of the one there is, its removal, or nothing.
LEMMA BuildStep ==
    ASSUME Shape, Copies, [Next]_vars
    PROVE  \/ UNCHANGED <<build, born>>
           \/ Created
           \/ build \in Builds /\ build # None /\ born' = born
                 /\ (build' # None => build' \in Builds /\ build'.inc = build.inc)
<1>1. build # None => build \in Builds
  BY Zenon DEF Shape
<1> QED
  BY <1>1, Effects, Zenon DEF Effect, Deleted, JobMoves, Shown, Fetched, Adopted, Finalizer, Onward,
     Launched, Ended, JobRemoved, NextVersion, Current

\* Every step of the controller is a step of the record, or leaves it alone.
LEMMA RecordStep ==
    ASSUME Shape, Copies, [Next]_vars
    PROVE  [Record!Next]_<<ShownPhase, ShownId, born>>
<1> USE DEF ShownPhase, ShownId
<1>1. CASE UNCHANGED <<build, born>>
  BY <1>1, Zenon
<1>2. ASSUME Created PROVE Record!Open
  BY <1>2 DEF Created, NewStatus, Record!Open
<1>3. CASE build \in Builds /\ build # None /\ born' = born /\ build' = None
  <2>1. build.status.phase # "absent"
    BY <1>3, BuildFields, Zenon DEF Phases, Terminal
  <2> QED
    BY <1>3, <2>1, Zenon DEF Record!Next, Record!Remove
<1>4. CASE build \in Builds /\ build # None /\ born' = born
           /\ build' # None /\ build' \in Builds /\ build'.inc = build.inc
  <2>1. build.status.phase \in Phases /\ build'.status.phase \in Phases
    BY <1>4, BuildFields, Zenon
  <2>2. IF IsTerminal(build) THEN build'.status = build.status
        ELSE Rank(build.status.phase) <= Rank(build'.status.phase)
    BY <1>4, PhaseStep, Zenon
  <2>3. CASE IsTerminal(build)
    BY <1>4, <2>2, <2>3, Zenon
  <2>4. CASE ~IsTerminal(build)
    <3>1. build.status.phase \in DOMAIN Record!Stage \ Record!Closed
      BY <2>1, <2>4, StageIsRank, Zenon DEF Record!Closed, IsTerminal, Terminal
    <3>2. Record!Stage[build.status.phase] <= Record!Stage[build'.status.phase]
      BY <2>1, <2>2, <2>4, StageIsRank, Zenon
    <3>3. Record!Move(build'.status.phase)
      BY <1>4, <3>1, <3>2, Zenon DEF Record!Move
    <3> QED
      BY <2>1, <3>3, StageIsRank, Zenon DEF Record!Next
  <2> QED
    BY <2>3, <2>4, Zenon
<1> QED
  BY <1>1, <1>2, <1>3, <1>4, BuildStep, Zenon DEF Record!Next

\* The Build controller implements BuildRecord, for any number of Builds, faults
\* and user operations and any lag of the informers.
THEOREM ImplementsBuildRecord == Spec => RefinesBuildRecord
<1>1. Init => Record!Init
  BY Zenon DEF Init, Record!Init, ShownPhase, ShownId
<1>2. IInv /\ [Next]_vars => [Record!Next]_<<ShownPhase, ShownId, born>>
  BY RecordStep, Zenon DEF IInv
<1> QED
  BY Invariance, <1>1, <1>2, PTL DEF Spec, RefinesBuildRecord, Record!Spec

(***************************************************************************)
(* The life of a Build: which copies of it are of the present one, and how *)
(* far it is on its way out.                                               *)
(***************************************************************************)

\* x is a copy of the Build there is.
Now(x) == build # None /\ build.inc = x.inc

\* What the informer shows of the Build's metadata was true at that version; a
\* deletion is not taken back, and a Build with the finalizer is not gone.
Cached ==
    bcache # None =>
        /\ Now(bcache) /\ bcache.rv = build.rv => bcache.meta = build.meta
        /\ Now(bcache) /\ bcache.meta = "deleting" => build.meta = "deleting"
        /\ bcache.meta = "finalizer" => Now(bcache) /\ build.meta # "bare"

\* The same of the reconcile's copy, which only a Build with the finalizer gets
\* to the Job and only a deleted one to its removal.
Copied ==
    pc # "idle" =>
        /\ Now(b) /\ b.rv = build.rv => b.meta = build.meta
        /\ Now(b) /\ b.meta = "deleting" => build.meta = "deleting"
        /\ bcache # None => b.inc <= bcache.inc
        /\ pc \in Working => b.meta = "finalizer"
        /\ pc \in Open => b.meta # "deleting"
        /\ pc \in Open /\ b.meta = "finalizer" => Now(b) /\ build.meta # "bare"
        /\ pc \in {"finalize", "unfinalize"} =>
              b.meta = "deleting" /\ (bcache # None /\ bcache.inc = b.inc => bcache.meta = "deleting")

Metas ==
    /\ build # None => build.inc = born /\ born > 0
    /\ Cached
    /\ Copied

\* Every step keeps the metadata of the copies in step with the Build's.
LEMMA MetasNext ==
    ASSUME Shape, Copies, Metas, Effect
    PROVE  Metas'
<1>1. born \in Nat
  BY WorldFields DEF Shape
<1>2. build # None => build \in Builds /\ build.inc \in Nat /\ build.rv \in Nat
                        /\ build.meta \in {"bare", "finalizer", "deleting"}
  BY Zenon DEF Shape, Builds
<1>3. bcache # None => bcache \in Builds /\ bcache.inc \in Nat /\ bcache.rv \in Nat /\ bcache.inc <= born
                         /\ bcache.meta \in {"bare", "finalizer", "deleting"}
                         /\ (Now(bcache) => bcache.rv <= build.rv)
  BY Zenon DEF Shape, Builds, Copies, Past, Now
<1>4. pc # "idle" => b \in Builds /\ b.inc \in Nat /\ b.rv \in Nat /\ b.inc <= born
                       /\ b.meta \in {"bare", "finalizer", "deleting"}
                       /\ (Now(b) => b.rv <= build.rv)
  BY Zenon DEF Shape, Builds, Copies, Past, Now
<1> USE <1>1, <1>2, <1>3, <1>4 DEF Metas, Cached, Copied, Now, Open, Working
<1>5. CASE Created
  BY <1>5 DEF Created
<1>6. CASE Deleted
  BY <1>6 DEF Deleted, NextVersion
<1>7. CASE JobMoves
  BY <1>7, Zenon DEF JobMoves
<1>8. CASE Shown
  BY <1>8 DEF Shown
<1>11. CASE Fetched
  BY <1>11 DEF Fetched
<1>12. CASE Adopted
  BY <1>12, Zenon DEF Adopted, SameCopy
<1>13. CASE Finalizer
  BY <1>13 DEF Finalizer, NextVersion, Current
<1>14. CASE Onward
  BY <1>14 DEF Onward, SameCopy
<1>15. CASE Launched
  BY <1>15, Zenon DEF Launched, SameCopy
<1>16. CASE Ended
  BY <1>16 DEF Ended, NextVersion, Current
<1>17. CASE JobRemoved
  BY <1>17, Zenon DEF JobRemoved
<1> QED
  BY <1>5, <1>6, <1>7, <1>8, <1>11, <1>12, <1>13, <1>14, <1>15, <1>16, <1>17, Zenon DEF Effect

(***************************************************************************)
(* The Job of a Build.                                                     *)
(***************************************************************************)

\* A Job of ours is the one of the Build there is, which has the finalizer, and
\* is gone by the time the finalizer is removed.
Owned ==
    world.informer = "current" =>
        /\ OwnsJob(job) => build # None /\ build.inc = job.inc /\ build.meta # "bare"
        /\ pc = "unfinalize" => ~OwnsJob(job)

\* Every step keeps a Job with its Build, if the informer shows Jobs at once.
LEMMA OwnedNext ==
    ASSUME Shape, Copies, Metas, Owned, UNCHANGED world, Effect
    PROVE  Owned'
<1> SUFFICES ASSUME world.informer = "current"
             PROVE  /\ OwnsJob(job)' => build' # None /\ build'.inc = job'.inc /\ build'.meta # "bare"
                    /\ pc' = "unfinalize" => ~OwnsJob(job)'
  BY Zenon DEF Owned
<1>1. /\ OwnsJob(job) => build # None /\ build.inc = job.inc /\ build.meta # "bare"
      /\ pc = "unfinalize" => ~OwnsJob(job)
      /\ CachedJob = job
  BY Zenon DEF Owned, CachedJob
<1>2. pc \in Working => Now(b) /\ build.meta # "bare"
  BY Zenon DEF Metas, Copied, Working, Open
<1> USE <1>1 DEF OwnsJob
<1>5. CASE Created
  BY <1>5, Zenon DEF Created
<1>6. CASE Deleted
  BY <1>6, Zenon DEF Deleted, NextVersion
<1>7. CASE JobMoves
  BY <1>7, Zenon DEF JobMoves
<1>8. CASE Shown
  BY <1>8, Zenon DEF Shown
<1>11. CASE Fetched
  BY <1>11, Zenon DEF Fetched
<1>12. CASE Adopted
  BY <1>12, Zenon DEF Adopted
<1>13. CASE Finalizer
  BY <1>13, Zenon DEF Finalizer, NextVersion, Current
<1>14. CASE Onward
  BY <1>14, Zenon DEF Onward
<1>15. CASE Launched
  BY <1>2, <1>15, Zenon DEF Launched, NewJob, Working, Now
<1>16. CASE Ended
  BY <1>16, Zenon DEF Ended, NextVersion, Current
<1>17. CASE JobRemoved
  BY <1>17, Zenon DEF JobRemoved
<1> QED
  BY <1>5, <1>6, <1>7, <1>8, <1>11, <1>12, <1>13, <1>14, <1>15, <1>16, <1>17, Zenon DEF Effect

\* The Build is on its way out and every copy says so.
Finalized ==
    build # None =>
        /\ build.meta = "deleting"
        /\ bcache # None => bcache.meta = "deleting"
        /\ pc # "idle" => b.meta = "deleting"

\* Once a Job was created for the present Build all copies are of that Build;
\* and while nobody deletes Jobs there is one at most, gone only with the Build.
Once ==
    /\ born = 0 => started = 0
    /\ started > 0 => (pc # "idle" => b.inc = born) /\ (bcache # None => bcache.inc = born)
    /\ "delete" \notin world.ops => started <= 1 /\ (started = 1 => job # None \/ Finalized)

\* Every step keeps the number of Jobs started for a Build at one.
LEMMA OnceNext ==
    ASSUME Shape, Copies, Metas, Once, UNCHANGED world, Effect
    PROVE  Once'
<1>1. born \in Nat /\ started \in Nat /\ (pc = "idle" => b = None)
  BY WorldFields DEF Shape
<1>2. build # None => build.inc = born /\ born > 0
  BY Zenon DEF Metas
<1>3. bcache # None => bcache.inc \in Nat /\ bcache.inc <= born
  BY Zenon DEF Shape, Builds, Copies, Past
<1>4. pc # "idle" => /\ b.inc \in Nat /\ b.inc <= born
                     /\ bcache # None => b.inc <= bcache.inc
  BY Zenon DEF Shape, Builds, Copies, Past, Metas, Copied
<1> USE <1>1, <1>2, <1>3, <1>4 DEF Once, Finalized
<1>5. CASE Created
  BY <1>5 DEF Created
<1>6. CASE Deleted
  BY <1>6, Zenon DEF Deleted, NextVersion
<1>7. CASE JobMoves
  BY <1>7, Zenon DEF JobMoves
<1>8. CASE Shown
  BY <1>8, Zenon DEF Shown
<1>11. CASE Fetched
  BY <1>11, Zenon DEF Fetched
<1>12. CASE Adopted
  BY <1>12, Zenon DEF Adopted, SameCopy
<1>13. CASE Finalizer
  BY <1>13, Zenon DEF Finalizer, NextVersion, Current
<1>14. CASE Onward
  BY <1>14, Zenon DEF Onward, SameCopy, Working
<1>15. CASE Launched
  <2>1. build # None /\ b.inc = born /\ b.meta = "finalizer"
    BY <1>15, Zenon DEF Launched, Metas, Copied, Working, Open, Now
  <2>2. bcache # None => bcache.inc = born
    BY <1>15, <2>1 DEF Launched
  <2>3. "delete" \notin world.ops => started = 0
    BY <1>15, <2>1 DEF Launched
  <2>4. job' # None
    BY <1>15, NoneIsNoBuild DEF Launched, NewJob, Jobs, JobStates
  <2> QED
    BY <1>15, <2>1, <2>2, <2>3, <2>4 DEF Launched, SameCopy
<1>16. CASE Ended
  BY <1>16, Zenon DEF Ended, NextVersion, Current
<1>17. CASE JobRemoved
  <2>1. b.meta = "deleting" /\ (bcache # None /\ bcache.inc = b.inc => bcache.meta = "deleting")
        /\ (Now(b) => build.meta = "deleting")
    BY <1>17, Zenon DEF JobRemoved, Metas, Copied
  <2>2. started > 0 => Finalized
    BY <1>17, <2>1, Zenon DEF JobRemoved, Now
  <2> QED
    BY <1>17, <2>2 DEF JobRemoved
<1> QED
  BY <1>5, <1>6, <1>7, <1>8, <1>11, <1>12, <1>13, <1>14, <1>15, <1>16, <1>17, Zenon DEF Effect

(***************************************************************************)
(* The gate in front of disabled features.                                 *)
(***************************************************************************)

\* The status says that a feature is disabled.
Off(st) == st.reason = "FeatureDisabled"

\* Only a Failed status has a reason.
Reasoned ==
    /\ build # None /\ build.status.reason # "none" => build.status.phase = "Failed"
    /\ bcache # None /\ bcache.status.reason # "none" => bcache.status.phase = "Failed"
    /\ pc # "idle" /\ b.status.reason # "none" => b.status.phase = "Failed"

\* A recorded Job stays recorded, in the Build and in the reconcile's copy.
Tracked ==
    /\ bcache # None /\ Now(bcache) /\ bcache.status.jobRef = "job" => build.status.jobRef = "job"
    /\ pc # "idle" /\ base.jobRef = "job" => b.status.jobRef = "job"
    /\ pc = "confirm" => b.status.jobRef = "job"

\* A reconcile is about to fail the Build for a disabled feature, or has done so:
\* there is no Job of ours, none is recorded, and as long as some copy of the Build
\* is still open this process refuses the Build, so that none gets to start one.
Gated ==
    /\ pc = "adopt" => gate /\ b.status.jobRef = "none"
    /\ pc = "status" /\ Off(b.status) => ~OwnsJob(job) /\ gate /\ b.status.jobRef = "none"
    /\ build # None /\ Off(build.status) =>
          /\ ~OwnsJob(job) /\ build.status.jobRef = "none"
          /\ bcache # None /\ Now(bcache) /\ ~IsTerminal(bcache) => gate
          /\ pc # "idle" /\ Now(b) => pc \in {"adopt", "status", "finalize", "unfinalize"}

\* Every step keeps the reasons with the Failed statuses.
LEMMA ReasonedNext ==
    ASSUME Shape, Copies, Reasoned, Effect
    PROVE  Reasoned'
<1>1. pc \in Open => b.status.reason = "none"
  <2>1. pc \in Open => b.status.phase \notin Terminal /\ pc # "idle"
    BY Zenon DEF Copies, Open
  <2> QED
    BY <2>1, Zenon DEF Reasoned, Terminal
<1> USE <1>1 DEF Reasoned, Open
<1>5. CASE Created
  BY <1>5 DEF Created, NewStatus
<1>6. CASE Deleted
  BY <1>6, Zenon DEF Deleted, NextVersion
<1>7. CASE JobMoves
  BY <1>7, Zenon DEF JobMoves
<1>8. CASE Shown
  BY <1>8, Zenon DEF Shown
<1>11. CASE Fetched
  BY <1>11, Zenon DEF Fetched
<1>12. CASE Adopted
  BY <1>12, Zenon DEF Adopted
<1>13. CASE Finalizer
  BY <1>13, Zenon DEF Finalizer, NextVersion, Current
<1>14. CASE Onward
  BY <1>14, Zenon DEF Onward, Concluded, Working
<1>15. CASE Launched
  BY <1>15, Zenon DEF Launched
<1>16. CASE Ended
  BY <1>16, Zenon DEF Ended, NextVersion, Current
<1>17. CASE JobRemoved
  BY <1>17, Zenon DEF JobRemoved
<1> QED
  BY <1>5, <1>6, <1>7, <1>8, <1>11, <1>12, <1>13, <1>14, <1>15, <1>16, <1>17, Zenon DEF Effect

\* Every step keeps a recorded Job recorded.
LEMMA TrackedNext ==
    ASSUME Shape, Copies, Metas, Tracked, Effect
    PROVE  Tracked'
<1>1. born \in Nat
  BY WorldFields DEF Shape
<1>2. bcache # None => bcache.inc \in Nat /\ bcache.inc <= born
  BY Zenon DEF Shape, Builds, Copies, Past
<1>3. pc # "idle" /\ Current(b) => base = build.status
  BY Zenon DEF Copies, Past, Current
<1> USE <1>1, <1>2, <1>3 DEF Tracked, Now
<1>5. CASE Created
  BY <1>5 DEF Created
<1>6. CASE Deleted
  BY <1>6, Zenon DEF Deleted, NextVersion
<1>7. CASE JobMoves
  BY <1>7, Zenon DEF JobMoves
<1>8. CASE Shown
  BY <1>8, Zenon DEF Shown
<1>11. CASE Fetched
  BY <1>11, Zenon DEF Fetched
<1>12. CASE Adopted
  BY <1>12, Zenon DEF Adopted
<1>13. CASE Finalizer
  BY <1>13, Zenon DEF Finalizer, NextVersion, Current
<1>14. CASE Onward
  BY <1>14, Zenon DEF Onward, Working
<1>15. CASE Launched
  BY <1>15, Zenon DEF Launched
<1>16. CASE Ended
  BY <1>16, Zenon DEF Ended, NextVersion, Current
<1>17. CASE JobRemoved
  BY <1>17, Zenon DEF JobRemoved
<1> QED
  BY <1>5, <1>6, <1>7, <1>8, <1>11, <1>12, <1>13, <1>14, <1>15, <1>16, <1>17, Zenon DEF Effect

\* Every step keeps a Build that failed for a disabled feature without a Job.
LEMMA GatedNext ==
    ASSUME Flags, Shape, Copies, Metas, Reasoned, Tracked, Gated, Effect
    PROVE  Gated'
<1>1. born \in Nat
  BY WorldFields DEF Shape
<1>2. bcache # None => bcache.inc \in Nat /\ bcache.inc <= born
                         /\ bcache.status.jobRef \in {"none", "job"}
  BY Zenon DEF Shape, Builds, Statuses, Copies, Past
<1>3. pc # "idle" => b.inc \in Nat /\ b.inc <= born
  BY Zenon DEF Shape, Builds, Copies, Past
<1>4. pc \in Open => b.status.reason = "none"
  <2>1. pc \in Open => b.status.phase \notin Terminal /\ pc # "idle"
    BY Zenon DEF Copies, Open
  <2> QED
    BY <2>1, Zenon DEF Reasoned, Terminal
<1>0. build # None /\ Off(build.status) => IsTerminal(build)
  BY Zenon DEF Reasoned, Off, IsTerminal, Terminal
<1> USE <1>1, <1>2, <1>3 DEF Gated, Now, OwnsJob, Off
<1>5. CASE Created
  BY <1>5 DEF Created, NewStatus
<1>6. CASE Deleted
  BY <1>6, Zenon DEF Deleted, NextVersion
<1>7. CASE JobMoves
  BY <1>7, Zenon DEF JobMoves
<1>8. CASE Shown
  BY <1>0, <1>8 DEF Shown
<1>11. CASE Fetched
  BY <1>11, Zenon DEF Fetched, Tracked
<1>12. CASE Adopted
  BY <1>12, Zenon DEF Adopted, SameCopy
<1>13. CASE Finalizer
  BY <1>13, Zenon DEF Finalizer, NextVersion, Current
<1>14. CASE Onward
  <2>1. ~(build # None /\ Off(build.status))
    BY <1>14, Zenon DEF Onward, Working, Metas, Copied, Open
  <2> QED
    BY <1>4, <1>14, <2>1, Zenon DEF Onward, Concluded, Working, Open
<1>15. CASE Launched
  <2>1. ~(build # None /\ Off(build.status))
    BY <1>15, Zenon DEF Launched, Working, Metas, Copied, Open
  <2> QED
    BY <1>4, <1>15, <2>1, Zenon DEF Launched, Open
<1>16. CASE Ended
  BY <1>16, Zenon DEF Ended, NextVersion, Current
<1>17. CASE JobRemoved
  BY <1>17, Zenon DEF JobRemoved
<1> QED
  BY <1>5, <1>6, <1>7, <1>8, <1>11, <1>12, <1>13, <1>14, <1>15, <1>16, <1>17, Zenon DEF Effect

(***************************************************************************)
(* The verdict.                                                            *)
(***************************************************************************)

\* Nobody deletes Jobs, and no Build meets the Job of a predecessor.
Sole == "delete" \notin world.ops /\ (world.informer = "current" \/ born <= 1)

\* A final state of the Job that was seen is the state of the Job still there.
Before(s) == OwnsJob(job) /\ s \in {"complete", "failed"} => job.state = s

\* The verdict in a status is that of the Build's only Job.
Says(st) ==
    /\ st.phase = "Succeeded" => st.image = "digest" /\ started = 1 /\ Before("complete")
    /\ st.reason = "JobFailed" => started = 1 /\ Before("failed")

\* The Job and every copy of it are of the present Build, and so is what the
\* reconcile and the Build have recorded of it.
JobIsTheBuilds ==
    /\ OwnsJob(job) => job.inc = born /\ started = 1
    /\ world.informer = "lagging" /\ OwnsJob(jcache) =>
          jcache.inc = born /\ started = 1 /\ Before(jcache.state)
    /\ started = 1 => OwnsJob(job) \/ Finalized
    /\ build # None /\ build.status.jobRef = "job" => started = 1
    /\ bcache # None /\ bcache.inc = born /\ bcache.status.jobRef = "job" => started = 1
    /\ pc # "idle" /\ b.inc = born /\ b.status.jobRef = "job" => started = 1
    /\ pc = "observe" => OwnsJob(j) /\ j.inc = b.inc /\ started = 1 /\ Before(j.state)

VerdictSaid ==
    /\ build # None => Says(build.status)
    /\ pc = "status" /\ b.inc = born => Says(b.status)

Verdicts == Sole => JobIsTheBuilds /\ VerdictSaid

\* Facts about the variables that the proofs about the verdict use.
Known ==
    /\ born \in Nat /\ started \in Nat
    /\ build # None => build.inc = born /\ born > 0
    /\ bcache # None => bcache.inc \in Nat /\ bcache.inc <= born
    /\ pc # "idle" => b.inc \in Nat /\ b.inc <= born
    /\ pc \in Working => build # None /\ b.inc = born /\ b.meta = "finalizer"
    /\ pc \in Open => b.status.reason = "none" /\ b.status.phase \notin Terminal

\* These facts follow from the invariants above.
LEMMA KnownFacts ==
    ASSUME Shape, Copies, Metas, Reasoned
    PROVE  Known
<1>1. born \in Nat /\ started \in Nat
  BY WorldFields DEF Shape
<1>2. build # None => build.inc = born /\ born > 0
  BY Zenon DEF Metas
<1>3. bcache # None => bcache.inc \in Nat /\ bcache.inc <= born
  BY Zenon DEF Shape, Builds, Copies, Past
<1>4. pc # "idle" => b.inc \in Nat /\ b.inc <= born
  BY Zenon DEF Shape, Builds, Copies, Past
<1>5. pc \in Working => build # None /\ b.inc = born /\ b.meta = "finalizer"
  BY Zenon DEF Metas, Copied, Working, Open, Now
<1>6. pc \in Open => b.status.reason = "none" /\ b.status.phase \notin Terminal
  <2>1. pc \in Open => b.status.phase \notin Terminal /\ pc # "idle"
    BY Zenon DEF Copies, Open
  <2> QED
    BY <2>1, Zenon DEF Reasoned, Terminal
<1> QED
  BY <1>1, <1>2, <1>3, <1>4, <1>5, <1>6, Zenon DEF Known

\* A step that creates no Job leaves a Job of ours the one it was, and a final
\* state of it.
LEMMA JobStays ==
    ASSUME UNCHANGED world, Effect, ~Launched
    PROVE  OwnsJob(job)' => /\ OwnsJob(job) /\ job'.inc = job.inc
                            /\ job.state \in {"complete", "failed"} => job'.state = job.state
<1> USE DEF OwnsJob
<1>1. CASE JobMoves
  BY <1>1, Zenon DEF JobMoves
<1>2. CASE job' = job \/ job' = None
  BY <1>2, Zenon
<1>3. JobMoves \/ job' = job \/ job' = None
  BY Zenon DEF Effect, Created, Deleted, Shown, Fetched, Adopted, Finalizer, Onward, Ended, JobRemoved
<1> QED
  BY <1>1, <1>2, <1>3, Zenon

\* A new Build meets no Job of ours.
LEMMA NewBuildHasNoJob ==
    ASSUME Known, Owned, Once, JobIsTheBuilds, Sole', UNCHANGED world, Created
    PROVE  ~OwnsJob(job) /\ (world.informer = "lagging" => ~OwnsJob(jcache))
<1>1. build = None /\ born' = born + 1 /\ born \in Nat
  BY Zenon DEF Created, Known
<1>2. CASE world.informer = "current"
  BY <1>1, <1>2, Zenon DEF Owned
<1>3. CASE world.informer # "current"
  <2>1. born = 0 /\ started = 0
    BY <1>1, <1>3 DEF Sole, Once
  <2> QED
    BY <1>3, <2>1 DEF JobIsTheBuilds
<1> QED
  BY <1>2, <1>3, Zenon

\* The reconcile creates the Build's first Job.
LEMMA FirstJob ==
    ASSUME Known, Once, "delete" \notin world.ops, Launched
    PROVE  /\ started = 0 /\ started' = 1 /\ build # None /\ b.inc = born
           /\ OwnsJob(job)' /\ job'.inc = born /\ job'.state = "waiting"
<1>1. build # None /\ b.inc = born /\ b.meta = "finalizer"
  BY Zenon DEF Launched, Known, Working
<1>2. started \in Nat /\ job = None /\ pc # "idle" /\ started' = started + 1
  BY Zenon DEF Launched, Known
<1>3. started = 0
  BY <1>1, <1>2 DEF Once, Finalized
<1>4. job' # None /\ job'.owner = "ours" /\ job'.inc = b.inc /\ job'.state = "waiting"
  <2>1. b.inc \in Nat
    BY <1>2, Zenon DEF Known
  <2> QED
    BY <2>1, NoneIsNoBuild DEF Launched, NewJob, Jobs, JobStates
<1> QED
  BY <1>1, <1>2, <1>3, <1>4 DEF OwnsJob

\* Every step keeps the Job and its copies those of the present Build.
LEMMA JobIsTheBuildsNext ==
    ASSUME Shape, Known, Metas, Owned, Once, Tracked, Sole, Sole', JobIsTheBuilds,
           UNCHANGED world, Effect
    PROVE  JobIsTheBuilds'
<1>1. ~Launched => (OwnsJob(job)' => /\ OwnsJob(job) /\ job'.inc = job.inc
                                     /\ job.state \in {"complete", "failed"} => job'.state = job.state)
  BY JobStays, Zenon
<1>2. "delete" \notin world.ops /\ world.informer \in {"lagging", "current"}
  BY BuildConstants, Zenon DEF Sole, Shape, BuildConstants
<1>3. CASE Created
  <2>1. ~OwnsJob(job) /\ (world.informer = "lagging" => ~OwnsJob(jcache))
    BY <1>3, NewBuildHasNoJob, Zenon
  <2> QED
    BY <1>3, <2>1 DEF Created, Known, JobIsTheBuilds, NewStatus, Working, OwnsJob
<1>4. CASE Launched
  <2>1. /\ started = 0 /\ started' = 1 /\ build # None /\ b.inc = born
        /\ OwnsJob(job)' /\ job'.inc = born /\ job'.state = "waiting"
    BY <1>2, <1>4, FirstJob, Zenon
  <2>2. world.informer = "lagging" => ~OwnsJob(jcache)
    BY <2>1 DEF JobIsTheBuilds
  <2> QED
    BY <1>4, <2>1, <2>2, Zenon DEF Launched, JobIsTheBuilds, SameCopy, Before, OwnsJob
<1>5. CASE JobRemoved
  <2>1. started = 1 => Finalized'
    <3>1. b.meta = "deleting" /\ (bcache # None /\ bcache.inc = b.inc => bcache.meta = "deleting")
          /\ (Now(b) => build.meta = "deleting")
      BY <1>5, Zenon DEF JobRemoved, Metas, Copied
    <3>2. started = 1 => b.inc = born /\ (bcache # None => bcache.inc = born)
      BY <1>5 DEF JobRemoved, Once
    <3> QED
      BY <1>5, <3>1, <3>2, Zenon DEF JobRemoved, Known, Now, Finalized
  <2> QED
    BY <1>1, <1>5, <2>1, Zenon DEF JobRemoved, Launched, JobIsTheBuilds, Before
<1> SUFFICES ASSUME ~Created, ~Launched, ~JobRemoved PROVE JobIsTheBuilds'
  BY <1>3, <1>4, <1>5, Zenon

<1> USE <1>1, <1>2 DEF JobIsTheBuilds, Known, Before, OwnsJob, Finalized
<1>6. CASE Deleted
  BY <1>6, Zenon DEF Deleted, NextVersion
<1>7. CASE JobMoves
  BY <1>7, Zenon DEF JobMoves
<1>8. CASE Shown
  BY <1>8 DEF Shown
<1>11. CASE Fetched
  BY <1>11, Zenon DEF Fetched
<1>12. CASE Adopted
  BY <1>12, Zenon DEF Adopted, SameCopy
<1>13. CASE Finalizer
  BY <1>13, Zenon DEF Finalizer, NextVersion, Current
<1>14. CASE Onward
  <2>1. pc' = "observe" => OwnsJob(j') /\ j'.inc = b'.inc /\ started = 1 /\ Before(j'.state)
    BY <1>14, Zenon DEF Onward, SameCopy, CachedJob, Tracked, Working
  <2> QED
    BY <1>14, <2>1, Zenon DEF Onward, SameCopy, Working
<1>16. CASE Ended
  BY <1>16, Zenon DEF Ended, NextVersion, Current
<1> QED
  BY <1>6, <1>7, <1>8, <1>11, <1>12, <1>13, <1>14, <1>16, Zenon DEF Effect

\* Every step keeps the verdicts those of the Build's Job.
LEMMA VerdictSaidNext ==
    ASSUME Known, Once, Sole, JobIsTheBuilds, VerdictSaid, UNCHANGED world, Effect
    PROVE  VerdictSaid'
<1>1. ~Launched => (OwnsJob(job)' => /\ OwnsJob(job) /\ job'.inc = job.inc
                                     /\ job.state \in {"complete", "failed"} => job'.state = job.state)
  BY JobStays, Zenon
<1>2. CASE Created
  <2>1. build'.status.phase = "New" /\ build'.status.reason = "none" /\ ~(pc' # "idle" /\ b'.inc = born')
    BY <1>2 DEF Created, NewStatus, Known
  <2> QED
    BY <2>1, Zenon DEF VerdictSaid, Says
<1>3. CASE Launched
  <2>1. started = 0
    BY <1>3, FirstJob, Zenon DEF Sole
  <2>2. build' # None => ~(build'.status.phase = "Succeeded" \/ build'.status.reason = "JobFailed")
    BY <1>3, <2>1 DEF Launched, VerdictSaid, Says
  <2>3. b'.status.phase # "Succeeded" /\ b'.status.reason # "JobFailed"
    BY <1>3, Zenon DEF Launched, Known, Open, Terminal
  <2> QED
    BY <2>2, <2>3, Zenon DEF VerdictSaid, Says
<1> SUFFICES ASSUME ~Created, ~Launched PROVE VerdictSaid'
  BY <1>2, <1>3, Zenon
<1> USE <1>1 DEF Known, VerdictSaid, Says, Before
<1>6. CASE Deleted
  BY <1>6, Zenon DEF Deleted, NextVersion
<1>7. CASE JobMoves
  BY <1>7, Zenon DEF JobMoves
<1>8. CASE Shown
  BY <1>8, Zenon DEF Shown
<1>11. CASE Fetched
  BY <1>11, Zenon DEF Fetched
<1>12. CASE Adopted
  BY <1>12, Zenon DEF Adopted
<1>13. CASE Finalizer
  BY <1>13, Zenon DEF Finalizer, NextVersion, Current
<1>14. CASE Onward
  <2>1. pc' = "status" => Says(b'.status)
    BY <1>14, Zenon DEF Onward, Concluded, Working, Open, Terminal, JobIsTheBuilds
  <2> QED
    BY <1>14, <2>1, Zenon DEF Onward
<1>16. CASE Ended
  BY <1>16, Zenon DEF Ended, NextVersion, Current
<1>17. CASE JobRemoved
  BY <1>17, Zenon DEF JobRemoved
<1> QED
  BY <1>6, <1>7, <1>8, <1>11, <1>12, <1>13, <1>14, <1>16, <1>17, Zenon DEF Effect

\* Every step keeps Verdicts.
LEMMA VerdictsNext ==
    ASSUME Shape, Copies, Metas, Owned, Once, Reasoned, Tracked, Verdicts, UNCHANGED world, Effect
    PROVE  Verdicts'
<1> SUFFICES ASSUME Sole' PROVE JobIsTheBuilds' /\ VerdictSaid'
  BY Zenon DEF Verdicts
<1>1. Known
  BY KnownFacts, Zenon
<1>2. born' = born \/ born' = born + 1
  BY DEF Effect, Created, Deleted, JobMoves, Shown, Fetched, Adopted,
     Finalizer, Onward, Launched, Ended, JobRemoved
<1>3. Sole
  BY <1>1, <1>2 DEF Sole, Known
<1> QED
  BY <1>1, <1>3, JobIsTheBuildsNext, VerdictSaidNext, Zenon DEF Verdicts

(***************************************************************************)
(* The theorems about the life of a Build.                                 *)
(***************************************************************************)

LifeInv == IInv /\ Metas /\ Owned /\ Once /\ Reasoned /\ Tracked /\ Gated /\ Verdicts

\* The invariant about the life of a Build holds in every reachable state.
LEMMA LifeInvariance == Spec => []LifeInv
<1>1. Init => LifeInv
  <2> SUFFICES ASSUME Init PROVE LifeInv
    BY Zenon
  <2>1. IInv
    BY InvInit, Zenon
  <2>2. Metas /\ Owned /\ Once /\ Reasoned /\ Tracked /\ Gated /\ Verdicts
    BY DEF Init, Metas, Cached, Copied, Owned, Once, Reasoned, Tracked, Gated, Verdicts,
       JobIsTheBuilds, VerdictSaid, OwnsJob
  <2> QED
    BY <2>1, <2>2, Zenon DEF LifeInv
<1>2. LifeInv /\ [Next]_vars => LifeInv'
  <2> SUFFICES ASSUME LifeInv, [Next]_vars PROVE LifeInv'
    BY Zenon
  <2>1. Flags /\ Shape /\ Copies /\ UNCHANGED world /\ Effect
    BY Effects, Zenon DEF LifeInv, IInv
  <2>2. IInv'
    BY FlagsNext, Effects, CopiesNext, Zenon DEF LifeInv, IInv
  <2> USE <2>1 DEF LifeInv
  <2>4. Metas'
    BY MetasNext, Zenon
  <2>5. Owned'
    BY OwnedNext, Zenon
  <2>6. Once'
    BY OnceNext, Zenon
  <2>7. Reasoned'
    BY ReasonedNext, Zenon
  <2>8. Tracked'
    BY TrackedNext, Zenon
  <2>9. Gated'
    BY GatedNext, Zenon
  <2>10. Verdicts'
    BY VerdictsNext, Zenon
  <2> QED
    BY <2>2, <2>4, <2>5, <2>6, <2>7, <2>8, <2>9, <2>10, Zenon
<1> QED
  BY <1>1, <1>2, PTL DEF Spec

\* While nobody deletes Jobs a Build runs once: whatever restarts, lost answers and
\* lagging caches come between the Job's create and the write of status.jobRef.
THEOREM BuildsRunOnce == Spec => []StartedOnce
<1>1. LifeInv => StartedOnce
  BY Zenon DEF LifeInv, Once, StartedOnce
<1> QED
  BY LifeInvariance, <1>1, PTL

\* A Build is Failed for a disabled feature only if no Job of it is running: the
\* gate looks for a started Job before it fails a Build, and no copy of that
\* Build starts one afterwards.
THEOREM GateSpares == Spec => []GateSparesStarted
<1>1. LifeInv => GateSparesStarted
  BY Zenon DEF LifeInv, Gated, Off, GateSparesStarted
<1> QED
  BY LifeInvariance, <1>1, PTL

\* A Job of ours exists only as long as its Build, whatever step of the reconcile
\* the deletion meets, if the Job informer shows a Job by then.
THEOREM NoOrphans == Spec => []NoOrphanJob
<1>1. LifeInv => NoOrphanJob
  BY Zenon DEF LifeInv, Owned, NoOrphanJob
<1> QED
  BY LifeInvariance, <1>1, PTL

\* The verdict on a Build is the one of its own Job.
THEOREM VerdictsStand == Spec => []VerdictIsTheJobs
<1>1. LifeInv => VerdictIsTheJobs
  <2> SUFFICES ASSUME LifeInv, build # None, Sole, build.meta # "deleting"
               PROVE  /\ build.status.phase = "Succeeded" =>
                            /\ build.status.image = "digest" /\ OwnsJob(job) /\ job.inc = build.inc
                            /\ job.state = "complete"
                      /\ build.status.reason = "JobFailed" =>
                            OwnsJob(job) /\ job.inc = build.inc /\ job.state = "failed"
    BY Zenon DEF VerdictIsTheJobs, Sole
  <2>1. JobIsTheBuilds /\ Says(build.status) /\ build.inc = born
    BY Zenon DEF LifeInv, Verdicts, VerdictSaid, Metas
  <2>2. started = 1 => OwnsJob(job) /\ job.inc = build.inc
    BY <2>1, Zenon DEF JobIsTheBuilds, Finalized
  <2> QED
    BY <2>1, <2>2, Zenon DEF Says, Before
<1> QED
  BY LifeInvariance, <1>1, PTL
=============================================================================
