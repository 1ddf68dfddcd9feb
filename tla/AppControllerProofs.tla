-------------------------- MODULE AppControllerProofs --------------------------
(***************************************************************************)
(* Proofs about AppController, for any number of Builds and faults and any *)
(* order of the Builds' names.                                             *)
(***************************************************************************)
EXTENDS AppController, TLAPS, WellFoundedInduction

(***************************************************************************)
(* The inductive invariant.                                                *)
(***************************************************************************)

\* A Build has its image once it succeeded, and the informer has shown that.
Shown(i) == i # 0 => pcache[i] = "ok"

\* Builds are stamped in the order they are created, and the informer shows
\* what was so; until one is pruned, every image in use is of a Build it shows.
BuildsOK ==
    /\ \A n \in Ids : stamp[n] \in Images
    /\ \A n \in Ids : pcache[n] # "none" => phase[n] # "none"
    /\ ~Pruned =>
          /\ \A n \in Ids : pcache[n] = "ok" => phase[n] = "ok"
          /\ \A n \in Ids : pcache[n] # "pruned"
          /\ app # None => Shown(app.status.image)
          /\ acache # None => Shown(acache.status.image)
          /\ pc # "idle" => Shown(a.status.image)
          /\ OursRuns => Shown(deploy.image)
          /\ dcache # None /\ dcache.ours => Shown(dcache.image)

\* A copy of the App with the resourceVersion it has now is the App as it is now.
CopiesOK ==
    /\ app # None /\ acache # None => /\ acache.rv <= app.rv
                                      /\ acache.rv = app.rv => acache = app
    /\ app # None /\ pc # "idle" => /\ a.rv <= app.rv
                                    /\ a.rv = app.rv => base = app.status
    /\ pc = "builds" => a.status = base
    /\ pc # "idle" /\ base.image # 0 => a.status.image # 0

\* A Deployment has an image, and the informer shows an earlier one.
DeployOK ==
    /\ pc \in {"deploy", "service", "ready"} => a.status.image # 0
    /\ OursRuns => deploy.image # 0
    /\ app # None /\ dcache # None /\ dcache.ours =>
          OursRuns /\ (~Pruned => Second(dcache.image) <= Second(deploy.image))

\* The image of the reconcile is none older than the Deployment's until it is
\* written, and none newer from then on.
RollsForward ==
    ~Pruned =>
       /\ pc = "deploy" /\ OursRuns => Second(deploy.image) <= Second(a.status.image)
       /\ app # None /\ (pc \in {"service", "ready"} \/ (pc = "status" /\ a.status.ready)) =>
             OursRuns /\ Second(a.status.image) <= Second(deploy.image)

IInv == TypeOK /\ BuildsOK /\ CopiesOK /\ DeployOK /\ RollsForward /\ ReadyImageDeployed

(***************************************************************************)
(* The newest of some Builds.                                              *)
(***************************************************************************)

LEMMA Largest ==
    ASSUME NEW B \in Nat, NEW S \in SUBSET (0..B), S # {}
    PROVE  \E x \in S : \A y \in S : y <= x
<1> DEFINE R == OpToRel(<, Nat)
           T == {B - x : x \in S}
<1>1. T \in SUBSET Nat /\ T # {}
  <2>1. \A x \in S : B - x \in Nat
    OBVIOUS
  <2>2. PICK x : x \in S
    BY Zenon
  <2> QED
    BY <2>1, <2>2, Zenon
<1>2. PICK t \in T : \A u \in T : ~(<<u, t>> \in R)
  <2>1. IsWellFoundedOn(R, Nat)
    BY NatLessThanWellFounded, Zenon
  <2> HIDE DEF R, T
  <2> QED
    BY <1>1, <2>1, WFMin, Zenon
<1>3. \A u \in T : ~(u < t)
  BY <1>1, <1>2, Zenon DEF OpToRel
<1>4. PICK x \in S : t = B - x
  BY Zenon
<1>5. ASSUME NEW y \in S
      PROVE  y <= x
  <2>1. ~(B - y < B - x)
    BY <1>3, <1>4, Zenon
  <2> QED
    BY <2>1
<1> QED
  BY <1>5, Zenon

\* newerBuild picks one Build of a list, and none of the list was created later.
LEMMA NewestIsLatest ==
    ASSUME \A n \in Ids : stamp[n] \in Images, NEW S \in SUBSET Ids, S # {}
    PROVE  Newest(S) \in S /\ \A n \in S : stamp[n] <= stamp[Newest(S)]
<1> DEFINE stamps == {stamp[n] : n \in S}
<1>0. MaxBuilds \in Nat /\ Images = 0..MaxBuilds
  BY AppConstants, Zenon DEF Images
<1>1. PICK s \in stamps : \A t \in stamps : t <= s
  <2>1. stamps \in SUBSET (0..MaxBuilds) /\ stamps # {}
    BY <1>0, Zenon
  <2> HIDE DEF stamps
  <2> QED
    BY <1>0, <2>1, Largest, Zenon
<1> DEFINE last == {n \in S : stamp[n] = s}
           ranks == {NameRank[n] : n \in last}
<1>2. PICK r \in ranks : \A t \in ranks : t <= r
  <2>1. ranks \in SUBSET (0..MaxBuilds) /\ ranks # {}
    BY <1>0, AppConstants
  <2> HIDE DEF ranks
  <2> QED
    BY <1>0, <2>1, Largest, Zenon
<1>3. PICK m \in S : stamp[m] = s /\ NameRank[m] = r
  BY Zenon
<1>4. ASSUME NEW n \in S \ {m}
      PROVE  NewerBuild(m, n)
  <2>1. stamp[n] \in Nat /\ s \in Nat /\ stamp[n] <= s
    BY <1>0, <1>1
  <2>2. CASE stamp[n] # s
    BY <1>3, <2>1, <2>2 DEF NewerBuild
  <2>3. CASE stamp[n] = s
    <3>1. NameRank[n] <= r /\ NameRank[n] # r /\ NameRank[n] \in Nat /\ r \in Nat
      BY <1>0, <1>2, <1>3, <2>3, AppConstants
    <3> QED
      BY <1>3, <2>3, <3>1 DEF NewerBuild
  <2> QED
    BY <2>2, <2>3, Zenon
<1>5. Newest(S) \in S /\ \A n \in S \ {Newest(S)} : NewerBuild(Newest(S), n)
  BY <1>3, <1>4, Zenon DEF Newest
<1>6. ASSUME NEW n \in S
      PROVE  stamp[n] <= stamp[Newest(S)]
  <2>1. stamp[n] \in Nat /\ stamp[Newest(S)] \in Nat
    BY <1>0, <1>5
  <2> QED
    BY <1>5, <2>1 DEF NewerBuild
<1> QED
  BY <1>5, <1>6, Zenon

(***************************************************************************)
(* What the reconcile writes.                                              *)
(***************************************************************************)

LEMMA RecordTypes ==
    /\ \A x \in Apps : x.rv \in Nat /\ x.status \in Statuses /\ x # None
    /\ \A x \in Statuses : x.image \in Images /\ x.latest \in Images /\ x.ready \in BOOLEAN
    /\ \A x \in Deployments : x.rv \in Nat /\ x.image \in Images /\ x.pods \in Images /\ x.ours \in BOOLEAN /\ x # None
    /\ 0 \in Images /\ Ids \subseteq Images /\ Ids = Images \ {0} /\ Images \subseteq Nat
  BY AppConstants, NoneIsNoObject DEF Apps, Statuses, Deployments, Images, Ids

\* The image the reconcile derives: one the informer shows, and none older than
\* what runs.
LEMMA Observed ==
    ASSUME TypeOK, BuildsOK, ObserveBuilds
    PROVE  /\ a' \in Apps /\ a'.rv = a.rv
           /\ IF a'.status.image = 0 THEN pc' = "status" /\ ~a'.status.ready ELSE pc' = "deploy"
           /\ a.status.image # 0 => a'.status.image # 0
           /\ ~Pruned => /\ Shown(a'.status.image)
                         /\ OursRuns /\ deploy.image # 0 => Second(deploy.image) <= Second(a'.status.image)
<1> DEFINE image  == IF Succeeded = {} THEN a.status.image ELSE Newest(Succeeded)
           latest == IF Listed = {} THEN a.status.latest ELSE Newest(Listed)
<1>1. /\ a \in Apps /\ a.status \in Statuses /\ a.status.image \in Images /\ a.status.latest \in Images
      /\ a.status.ready \in BOOLEAN
  BY RecordTypes, Zenon DEF TypeOK, ObserveBuilds
<1>2. Succeeded \in SUBSET Ids /\ Listed \in SUBSET Ids /\ \A n \in Ids : stamp[n] \in Images
  BY Zenon DEF Succeeded, Listed, BuildsOK
<1>3. /\ Succeeded # {} => /\ Newest(Succeeded) \in Succeeded
                           /\ \A n \in Succeeded : stamp[n] <= stamp[Newest(Succeeded)]
      /\ Listed # {} => Newest(Listed) \in Listed
  BY <1>2, NewestIsLatest, Zenon
<1>4. image \in Images /\ latest \in Images /\ (Succeeded # {} => image # 0) /\ (a.status.image # 0 => image # 0)
  BY <1>1, <1>2, <1>3, RecordTypes, Zenon
<1> HIDE DEF image, latest
<1>5. /\ a' = [a EXCEPT !.status.image = image, !.status.latest = latest,
                        !.status.ready = IF image = 0 THEN FALSE ELSE @]
      /\ pc' = IF image = 0 THEN "status" ELSE "deploy"
  BY Zenon DEF ObserveBuilds, Goto, image, latest
<1>6. /\ a' \in Apps /\ a'.rv = a.rv /\ a'.status.image = image
      /\ image = 0 => ~a'.status.ready
  BY <1>1, <1>4, <1>5, Zenon DEF Apps, Statuses
<1>7. ASSUME ~Pruned
      PROVE  /\ Shown(image)
             /\ OursRuns /\ deploy.image # 0 => Second(deploy.image) <= Second(image)
  <2>1. CASE Succeeded = {}
    <3>1. image = a.status.image
      BY <2>1, Zenon DEF image
    <3>2. Shown(image)
      BY <1>7, <3>1, Zenon DEF BuildsOK, ObserveBuilds
    <3>3. ASSUME OursRuns, deploy.image # 0
          PROVE  FALSE
      <4>1. deploy.image \in Ids /\ pcache[deploy.image] = "ok"
        BY <1>7, <3>3, RecordTypes, Zenon DEF BuildsOK, Shown, OursRuns, TypeOK
      <4> QED
        BY <2>1, <4>1, Zenon DEF Succeeded, Listed
    <3> QED
      BY <3>2, <3>3, Zenon
  <2>2. CASE Succeeded # {}
    <3>1. image = Newest(Succeeded) /\ image \in Succeeded /\ image # 0
      BY <1>2, <1>3, <1>4, <2>2, Zenon DEF image
    <3>2. Shown(image)
      BY <3>1, Zenon DEF Shown, Succeeded
    <3>3. ASSUME OursRuns, deploy.image # 0
          PROVE  Second(deploy.image) <= Second(image)
      <4>1. deploy.image \in Ids /\ pcache[deploy.image] = "ok"
        BY <1>7, <3>3, RecordTypes, Zenon DEF BuildsOK, Shown, OursRuns, TypeOK
      <4>2. deploy.image \in Succeeded
        BY <4>1, Zenon DEF Succeeded, Listed
      <4> QED
        BY <1>3, <2>2, <3>1, <3>3, <4>2, Zenon DEF Second
    <3> QED
      BY <3>2, <3>3, Zenon
  <2> QED
    BY <2>1, <2>2, Zenon
<1> QED
  BY <1>4, <1>5, <1>6, <1>7, Zenon

LEMMA FailedReady ==
    ASSUME a \in Apps, FailReady
    PROVE  /\ a' \in Apps /\ a'.rv = a.rv /\ a'.status.image = a.status.image /\ ~a'.status.ready
           /\ pc' = "status" /\ retry'
  BY Zenon DEF FailReady, Goto, Apps, Statuses

\* The Deployment that is written has the image of the reconcile.
LEMMA Written ==
    ASSUME TypeOK, DeployOK, RollsForward, pc = "deploy", WriteDeployment
    PROVE  /\ deploy' \in Deployments /\ deploy' # None /\ deploy'.image = a.status.image
           /\ deploy'.image # 0 /\ (app # None => deploy'.ours)
           /\ OursRuns => deploy'.ours
           /\ OursRuns /\ ~Pruned => Second(deploy.image) <= Second(deploy'.image)
<1>1. a \in Apps /\ a.status.image \in Images /\ a.web \in BOOLEAN /\ a.status.image # 0
  BY RecordTypes, Zenon DEF TypeOK, DeployOK, Apps
<1>2. CASE /\ dcache = None /\ deploy = None
           /\ deploy' = [ours |-> TRUE, rv |-> 0, web |-> a.web, image |-> a.status.image, pods |-> 0]
  <2>1. deploy' \in Deployments /\ deploy'.image = a.status.image /\ deploy'.ours
    BY <1>1, <1>2, RecordTypes, Zenon DEF Deployments
  <2> QED
    BY <1>1, <1>2, <2>1, RecordTypes, Zenon DEF OursRuns
<1>3. CASE /\ Outdated /\ SameDeployment
           /\ deploy' = [deploy EXCEPT !.image = a.status.image, !.web = a.web, !.rv = @ + 1]
  <2>1. deploy \in Deployments
    BY <1>3, Zenon DEF TypeOK, SameDeployment
  <2>2. deploy' \in Deployments /\ deploy'.image = a.status.image /\ deploy'.ours = deploy.ours
    <3>1. deploy' = [ours |-> deploy.ours, rv |-> deploy.rv + 1, web |-> a.web, image |-> a.status.image,
                     pods |-> deploy.pods]
      BY <1>3, <2>1, Zenon DEF Deployments
    <3>2. deploy.ours \in BOOLEAN /\ deploy.rv + 1 \in Nat /\ deploy.pods \in Images
      BY <2>1, RecordTypes
    <3> QED
      BY <1>1, <3>1, <3>2, Zenon DEF Deployments
  <2>3. app # None => deploy.ours
    BY <1>3, Zenon DEF Outdated, DeployOK, OursRuns
  <2>4. OursRuns /\ ~Pruned => Second(deploy.image) <= Second(a.status.image)
    BY Zenon DEF RollsForward
  <2> QED
    BY <1>1, <2>1, <2>2, <2>3, <2>4, RecordTypes, Zenon DEF OursRuns
<1> QED
  BY <1>2, <1>3, Zenon DEF WriteDeployment

LEMMA StatusWritten ==
    ASSUME TypeOK, pc = "status", WriteStatus
    PROVE  /\ app \in Apps /\ app' \in Apps /\ app.rv = a.rv /\ app'.rv = app.rv + 1
           /\ app'.status = a.status /\ app'.web = app.web
<1>1. a \in Apps /\ app \in Apps
  BY Zenon DEF TypeOK, WriteStatus, SameApp
<1>2. app.rv + 1 \in Nat /\ a.status \in Statuses /\ app.web \in BOOLEAN
  BY <1>1, RecordTypes DEF Apps
<1>3. app' = [rv |-> app.rv + 1, web |-> app.web, status |-> a.status] /\ app.rv = a.rv
  BY <1>1, Zenon DEF WriteStatus, SameApp, Apps
<1> QED
  BY <1>1, <1>2, <1>3, Zenon DEF Apps

(***************************************************************************)
(* Steps of the others: Builds, users, the cluster and the informers.      *)
(***************************************************************************)

\* What happens to Builds touches nothing that is derived from those shown.
LEMMA BuildStep ==
    ASSUME IInv, UNCHANGED <<app, deploy, svc, caches, dirty, local>>,
           phase' \in [Ids -> BuildPhases], stamp' \in [Ids -> Images], faults' \in 0..MaxFaults,
           \A m \in Ids : phase[m] # "none" => phase'[m] # "none" /\ stamp'[m] = stamp[m],
           Pruned => Pruned',
           ~Pruned' => \A m \in Ids : phase[m] = "ok" => phase'[m] = "ok"
    PROVE  IInv'
<1>1. UNCHANGED <<app, deploy, svc, acache, pcache, dcache, scache, dirty, pc, a, base, avail, retry>>
  BY Zenon DEF caches, local
<1>2. TypeOK'
  BY <1>1, RecordTypes DEF IInv, TypeOK
<1>3. BuildsOK'
  BY <1>1, Zenon DEF IInv, BuildsOK, Shown, OursRuns
<1>4. CopiesOK'
  BY <1>1, Zenon DEF IInv, CopiesOK
<1>5. ASSUME ~Pruned', NEW i \in Images, Shown(i)
      PROVE  (IF i = 0 THEN 0 ELSE stamp'[i]) = Second(i)
  <2>1. i # 0 => i \in Ids /\ pcache[i] = "ok"
    BY <1>5, RecordTypes, Zenon DEF Shown
  <2>2. i # 0 => phase[i] = "ok"
    BY <1>5, <2>1, Zenon DEF IInv, BuildsOK
  <2> QED
    BY <2>1, <2>2, Zenon DEF Second
<1>6. ASSUME ~Pruned'
      PROVE  /\ ~Pruned
             /\ OursRuns => Second(deploy.image)' = Second(deploy.image)
             /\ dcache # None /\ dcache.ours => Second(dcache.image)' = Second(dcache.image)
             /\ app # None => Second(app.status.image)' = Second(app.status.image)
             /\ pc # "idle" => Second(a.status.image)' = Second(a.status.image)
  <2>1. /\ OursRuns => deploy.image \in Images /\ Shown(deploy.image)
        /\ dcache # None /\ dcache.ours => dcache.image \in Images /\ Shown(dcache.image)
        /\ app # None => app.status.image \in Images /\ Shown(app.status.image)
        /\ pc # "idle" => a.status.image \in Images /\ Shown(a.status.image)
    BY <1>6, RecordTypes, Zenon DEF IInv, TypeOK, BuildsOK, OursRuns
  <2> QED
    BY <1>1, <1>5, <1>6, <2>1, Zenon DEF Second
<1>7. DeployOK'
  BY <1>1, <1>6, Zenon DEF IInv, DeployOK, OursRuns
<1>8. RollsForward'
  BY <1>1, <1>6, Zenon DEF IInv, RollsForward, OursRuns
<1>9. ReadyImageDeployed'
  BY <1>1, <1>6, Zenon DEF IInv, ReadyImageDeployed, OursRuns
<1> QED
  BY <1>2, <1>3, <1>4, <1>7, <1>8, <1>9, Zenon DEF IInv

LEMMA BuildsNext ==
    ASSUME IInv, NEW n \in Ids, NewBuild(n) \/ EndBuild(n, "ok") \/ EndBuild(n, "failed") \/ PruneBuild(n)
    PROVE  IInv'
<1>1. /\ phase \in [Ids -> BuildPhases] /\ stamp \in [Ids -> Images] /\ faults \in 0..MaxFaults
      /\ MaxFaults \in Nat /\ n \in Images
  BY AppConstants, RecordTypes, Zenon DEF IInv, TypeOK, BuildsOK
<1>2. CASE NewBuild(n)
  <2>1. phase[n] = "none"
    BY <1>1, <1>2, AppConstants DEF NewBuild, Created, Ids
  <2>2. phase' \in [Ids -> BuildPhases] /\ \A m \in Ids \ {n} : phase'[m] = phase[m]
    BY <1>1, <1>2, Zenon DEF NewBuild, BuildPhases
  <2>3. stamp' \in [Ids -> Images] /\ \A m \in Ids \ {n} : stamp'[m] = stamp[m]
    <3>1. n > 1 => n - 1 \in Ids
      BY AppConstants DEF Ids
    <3> QED
      BY <1>1, <1>2, <3>1, Zenon DEF NewBuild
  <2>4. \A m \in Ids : phase[m] # "none" => phase'[m] = phase[m] /\ stamp'[m] = stamp[m]
    BY <2>1, <2>2, <2>3, Zenon
  <2>5. Pruned => Pruned'
    BY <2>4, Zenon DEF Pruned
  <2> QED
    BY <1>1, <1>2, <2>2, <2>3, <2>4, <2>5, BuildStep, Zenon DEF NewBuild
<1>3. CASE EndBuild(n, "ok") \/ EndBuild(n, "failed")
  <2>1. /\ phase' \in [Ids -> BuildPhases] /\ phase[n] = "running" /\ phase'[n] \in {"ok", "failed"}
        /\ \A m \in Ids \ {n} : phase'[m] = phase[m]
    BY <1>1, <1>3, Zenon DEF EndBuild, BuildPhases
  <2>2. Pruned => Pruned'
    BY <2>1, Zenon DEF Pruned
  <2> QED
    BY <1>1, <1>3, <2>1, <2>2, BuildStep, Zenon DEF EndBuild
<1>4. CASE PruneBuild(n)
  <2>1. /\ phase' \in [Ids -> BuildPhases] /\ phase'[n] = "pruned"
        /\ \A m \in Ids \ {n} : phase'[m] = phase[m]
    BY <1>1, <1>4, Zenon DEF PruneBuild, BuildPhases
  <2>2. Pruned'
    BY <2>1, Zenon DEF Pruned
  <2>3. faults' \in 0..MaxFaults
    BY <1>1, <1>4 DEF PruneBuild, Fault
  <2> QED
    BY <1>1, <1>4, <2>1, <2>2, <2>3, BuildStep, Zenon DEF PruneBuild
<1> QED
  BY <1>2, <1>3, <1>4, Zenon

LEMMA FaultCounted ==
    ASSUME TypeOK, Fault
    PROVE  faults' \in 0..MaxFaults
  BY AppConstants DEF TypeOK, Fault

\* An edit takes every copy out of date; a deletion leaves nothing to write to.
LEMMA EditNext ==
    ASSUME IInv, EditApp
    PROVE  IInv'
<1>1. /\ UNCHANGED <<phase, stamp, deploy, svc, acache, pcache, dcache, scache, dirty, pc, a, base, avail, retry>>
      /\ TypeOK /\ app \in Apps /\ app.rv \in Nat
  BY RecordTypes, Zenon DEF EditApp, caches, local, IInv, TypeOK
<1>2. app' \in Apps /\ app'.rv = app.rv + 1 /\ app'.status = app.status
  <2>1. app' = [rv |-> app.rv + 1, web |-> ~app.web, status |-> app.status]
    BY <1>1, Zenon DEF EditApp, Apps
  <2>2. app.status \in Statuses
    BY <1>1, RecordTypes, Zenon
  <2> QED
    BY <1>1, <2>1, <2>2 DEF Apps
<1>3. TypeOK'
  BY <1>1, <1>2, FaultCounted DEF TypeOK, EditApp
<1>4. /\ acache # None => acache.rv \in Nat /\ acache.rv <= app.rv
      /\ pc # "idle" => a.rv \in Nat /\ a.rv <= app.rv
  BY <1>1, RecordTypes, Zenon DEF IInv, CopiesOK, TypeOK
<1>5. CopiesOK'
  <2>1. acache # None => acache.rv < app'.rv
    BY <1>1, <1>2, <1>4
  <2>2. pc # "idle" => a.rv < app'.rv
    BY <1>1, <1>2, <1>4
  <2> QED
    BY <1>1, <1>2, <1>4, <2>1, <2>2 DEF IInv, CopiesOK
<1>6. BuildsOK' /\ DeployOK' /\ RollsForward' /\ ReadyImageDeployed'
  <2>1. app # None /\ (Pruned' <=> Pruned) /\ (OursRuns' <=> OursRuns) /\ \A i : Second(i)' = Second(i)
    BY <1>1, RecordTypes, Zenon DEF Pruned, OursRuns, Second
  <2>2. BuildsOK'
    BY <1>1, <1>2, <2>1, Zenon DEF IInv, BuildsOK, Shown
  <2>3. DeployOK' /\ RollsForward'
    BY <1>1, <2>1, Zenon DEF IInv, DeployOK, RollsForward, Second
  <2>4. ReadyImageDeployed'
    BY <1>1, <1>2, <2>1, Zenon DEF IInv, ReadyImageDeployed, Second
  <2> QED
    BY <2>2, <2>3, <2>4, Zenon
<1> QED
  BY <1>3, <1>5, <1>6, Zenon DEF IInv

LEMMA DeleteNext ==
    ASSUME IInv, DeleteApp
    PROVE  IInv'
<1>1. /\ UNCHANGED <<phase, stamp, deploy, svc, acache, pcache, dcache, scache, dirty, pc, a, base, avail, retry>>
      /\ TypeOK /\ app' = None
  BY Zenon DEF DeleteApp, caches, local, IInv
<1>2. TypeOK'
  BY <1>1, FaultCounted DEF TypeOK, DeleteApp
<1>3. (Pruned' <=> Pruned) /\ (OursRuns' <=> OursRuns) /\ \A i : Second(i)' = Second(i)
  BY <1>1, Zenon DEF Pruned, OursRuns, Second
<1>4. BuildsOK'
  BY <1>1, <1>3, Zenon DEF IInv, BuildsOK, Shown
<1>5. CopiesOK' /\ ReadyImageDeployed'
  BY <1>1, Zenon DEF IInv, CopiesOK, ReadyImageDeployed
<1>6. DeployOK' /\ RollsForward'
  BY <1>1, <1>3, Zenon DEF IInv, DeployOK, RollsForward, Second
<1> QED
  BY <1>2, <1>4, <1>5, <1>6, Zenon DEF IInv

\* Without the App its Deployment may go; with it, only pods come and go.
LEMMA ClusterNext ==
    ASSUME IInv, CollectGarbage \/ RollPods
    PROVE  IInv'
<1>1. /\ UNCHANGED <<app, phase, stamp, acache, pcache, dcache, scache, dirty, pc, a, base, avail, retry>>
      /\ TypeOK
  BY Zenon DEF CollectGarbage, RollPods, caches, local, IInv
<1>2. /\ svc' \in {"none", "ours", "foreign"} /\ faults' \in 0..MaxFaults
      /\ \/ deploy' = deploy
         \/ app = None /\ deploy' = None
         \/ /\ OursRuns /\ deploy' \in Deployments /\ deploy'.ours /\ deploy'.image = deploy.image
  <2>1. CASE CollectGarbage
    BY <1>1, <2>1, Zenon DEF CollectGarbage, TypeOK
  <2>2. ASSUME RollPods, NEW p \in Images, deploy' = [deploy EXCEPT !.pods = p, !.rv = @ + 1]
        PROVE  OursRuns /\ deploy' \in Deployments /\ deploy'.ours /\ deploy'.image = deploy.image
    <3>1. deploy \in Deployments /\ OursRuns
      BY <1>1, <2>2, Zenon DEF TypeOK, RollPods, OursRuns
    <3>2. deploy.rv + 1 \in Nat /\ deploy.image \in Images /\ deploy.ours /\ deploy.web \in BOOLEAN
      BY <3>1, RecordTypes DEF OursRuns, Deployments
    <3>3. deploy' = [ours |-> deploy.ours, rv |-> deploy.rv + 1, web |-> deploy.web, image |-> deploy.image, pods |-> p]
      BY <2>2, <3>1, Zenon DEF Deployments
    <3> QED
      BY <3>1, <3>2, <3>3, Zenon DEF Deployments
  <2>3. CASE RollPods
    <3>1. faults' \in 0..MaxFaults /\ svc' = svc
      BY <1>1, <2>3, FaultCounted, Zenon DEF RollPods, TypeOK
    <3>2. deploy.image \in Images /\ 0 \in Images
      BY <1>1, <2>3, RecordTypes, Zenon DEF RollPods, TypeOK
    <3> QED
      BY <1>1, <2>2, <2>3, <3>1, <3>2, Zenon DEF RollPods, TypeOK
  <2> QED
    BY <2>1, <2>3, Zenon
<1>3. TypeOK'
  BY <1>1, <1>2 DEF TypeOK
<1>4. /\ OursRuns' => OursRuns /\ deploy'.image = deploy.image
      /\ app # None /\ OursRuns => OursRuns'
  BY <1>2, RecordTypes, Zenon DEF OursRuns
<1>5. (Pruned' <=> Pruned) /\ \A i : Second(i)' = Second(i)
  BY <1>1, Zenon DEF Pruned, Second
<1>6. BuildsOK'
  BY <1>1, <1>4, <1>5, Zenon DEF IInv, BuildsOK, Shown
<1>7. CopiesOK'
  BY <1>1, Zenon DEF IInv, CopiesOK
<1>8. DeployOK'
  BY <1>1, <1>4, <1>5, Zenon DEF IInv, DeployOK, Second
<1>9. RollsForward' /\ ReadyImageDeployed'
  BY <1>1, <1>4, <1>5, Zenon DEF IInv, RollsForward, ReadyImageDeployed, Second
<1> QED
  BY <1>3, <1>6, <1>7, <1>8, <1>9, Zenon DEF IInv

\* An informer catches up, or the process starts again with all of them caught up.
LEMMA SyncNext ==
    ASSUME IInv, UNCHANGED objects, faults' \in 0..MaxFaults, dirty' \in BOOLEAN,
           acache' \in {acache, app}, pcache' \in {pcache, phase}, dcache' \in {dcache, deploy},
           scache' \in {scache, svc},
           UNCHANGED local \/ (pc' = "idle" /\ a' = None /\ base' = None /\ avail' = 0 /\ retry' = FALSE)
    PROVE  IInv'
<1>1. /\ UNCHANGED <<app, phase, stamp, deploy, svc>> /\ TypeOK
      /\ \/ UNCHANGED <<pc, a, base, avail, retry>>
         \/ pc' = "idle" /\ a' = None /\ base' = None /\ avail' = 0 /\ retry' = FALSE
  BY Zenon DEF objects, local, IInv
<1>2. TypeOK'
  <2>1. /\ acache' \in Apps \cup {None} /\ pcache' \in [Ids -> BuildPhases]
        /\ dcache' \in Deployments \cup {None} /\ scache' \in {"none", "ours", "foreign"}
    BY <1>1, Zenon DEF TypeOK
  <2>2. 0 \in Images
    BY AppConstants DEF Images
  <2>3. CASE UNCHANGED <<pc, a, base, avail, retry>>
    BY <1>1, <2>1, <2>3, Zenon DEF TypeOK
  <2>4. CASE pc' = "idle" /\ a' = None /\ base' = None /\ avail' = 0 /\ retry' = FALSE
    BY <1>1, <2>1, <2>2, <2>4, Zenon DEF TypeOK
  <2> QED
    BY <1>1, <2>3, <2>4, Zenon
<1>3. (Pruned' <=> Pruned) /\ (OursRuns' <=> OursRuns) /\ \A i : Second(i)' = Second(i)
  BY <1>1, Zenon DEF Pruned, OursRuns, Second
<1>4. ~Pruned => \A i \in Images : Shown(i) => (i # 0 => pcache'[i] = "ok")
  BY RecordTypes, Zenon DEF IInv, BuildsOK, Shown
<1>5. BuildsOK'
  <2>1. /\ \A n \in Ids : stamp'[n] \in Images
        /\ \A n \in Ids : pcache'[n] # "none" => phase'[n] # "none"
    BY <1>1, Zenon DEF IInv, BuildsOK
  <2>2. ASSUME ~Pruned
        PROVE  \A n \in Ids : pcache'[n] # "pruned" /\ (pcache'[n] = "ok" => phase'[n] = "ok")
    BY <1>1, <2>2, Zenon DEF IInv, BuildsOK, Pruned
  <2>3. ASSUME ~Pruned
        PROVE  /\ app # None => Shown(app.status.image)'
               /\ acache' # None => Shown(acache.status.image)'
               /\ pc' # "idle" => Shown(a.status.image)'
               /\ OursRuns => Shown(deploy.image)'
               /\ dcache' # None /\ dcache'.ours => Shown(dcache.image)'
    <3>1. /\ app # None => app.status.image \in Images /\ Shown(app.status.image)
          /\ acache # None => acache.status.image \in Images /\ Shown(acache.status.image)
          /\ pc # "idle" => a.status.image \in Images /\ Shown(a.status.image)
          /\ OursRuns => deploy.image \in Images /\ Shown(deploy.image)
          /\ dcache # None /\ dcache.ours => dcache.image \in Images /\ Shown(dcache.image)
      BY <1>1, <2>3, RecordTypes, Zenon DEF IInv, BuildsOK, TypeOK, OursRuns
    <3> QED
      BY <1>1, <1>4, <2>3, <3>1, Zenon DEF Shown, OursRuns
  <2> QED
    BY <1>1, <1>3, <2>1, <2>2, <2>3, Zenon DEF BuildsOK
<1>6. CopiesOK'
  BY <1>1, RecordTypes DEF IInv, CopiesOK, TypeOK
<1>7. DeployOK'
  <2>1. OursRuns => Second(deploy.image) <= Second(deploy.image)
    BY <1>1, RecordTypes DEF IInv, BuildsOK, TypeOK, OursRuns, Second
  <2> QED
    BY <1>1, <1>3, <2>1, Zenon DEF IInv, DeployOK, Second, OursRuns
<1>8. RollsForward' /\ ReadyImageDeployed'
  BY <1>1, <1>3, Zenon DEF IInv, RollsForward, ReadyImageDeployed, Second
<1> QED
  BY <1>2, <1>5, <1>6, <1>7, <1>8, Zenon DEF IInv

(***************************************************************************)
(* Steps of the reconcile.                                                 *)
(***************************************************************************)

LEMMA Bounds ==
    TypeOK => /\ \A n \in Ids : stamp[n] \in Nat
              /\ \A i \in Images : Second(i) \in Nat
              /\ deploy # None => deploy.image \in Images
              /\ dcache # None => dcache.image \in Images
              /\ app # None => app.status.image \in Images
              /\ pc # "idle" => a.status.image \in Images
  BY RecordTypes, Zenon DEF TypeOK, Second

\* A step that writes neither the App nor the Deployment.
LEMMA LocalStep ==
    ASSUME IInv, UNCHANGED <<app, phase, stamp, deploy, caches>>,
           svc' \in {"none", "ours", "foreign"}, faults' \in 0..MaxFaults,
           dirty' \in BOOLEAN, retry' \in BOOLEAN, avail' \in Images,
           pc' \in {"idle", "builds", "deploy", "service", "ready", "status"},
           IF pc' = "idle" THEN a' = None /\ base' = None ELSE a' \in Apps /\ base' \in Statuses,
           CopiesOK', RollsForward',
           pc' \in {"deploy", "service", "ready"} => a'.status.image # 0,
           ~Pruned /\ pc' # "idle" => Shown(a'.status.image)
    PROVE  IInv'
<1>1. UNCHANGED <<app, phase, stamp, deploy, acache, pcache, dcache, scache>> /\ TypeOK
  BY Zenon DEF caches, IInv
<1>2. TypeOK'
  BY <1>1, Zenon DEF TypeOK
<1>3. (Pruned' <=> Pruned) /\ (OursRuns' <=> OursRuns) /\ \A i : Second(i)' = Second(i)
  BY <1>1, Zenon DEF Pruned, OursRuns, Second
<1>4. BuildsOK'
  BY <1>1, <1>3, Zenon DEF IInv, BuildsOK, Shown
<1>5. DeployOK'
  BY <1>1, <1>3, Zenon DEF IInv, DeployOK, Second
<1>6. ReadyImageDeployed'
  BY <1>1, <1>3, Zenon DEF IInv, ReadyImageDeployed, Second
<1> QED
  BY <1>2, <1>4, <1>5, <1>6, Zenon DEF IInv

\* A reconcile that returns with nothing written to the App or the Deployment.
LEMMA FinishNext ==
    ASSUME IInv, NEW err \in BOOLEAN, Finish(err), UNCHANGED <<app, phase, stamp, deploy, caches>>,
           svc' \in {"none", "ours", "foreign"}, faults' \in 0..MaxFaults
    PROVE  IInv'
<1>1. /\ pc' = "idle" /\ a' = None /\ base' = None /\ avail' = 0 /\ retry' = FALSE
      /\ dirty' \in BOOLEAN
  BY Zenon DEF Finish, IInv, TypeOK
<1>2. 0 \in Images
  BY RecordTypes, Zenon
<1>3. CopiesOK'
  BY <1>1, Zenon DEF IInv, CopiesOK, caches
<1>4. RollsForward'
  BY <1>1, Zenon DEF RollsForward
<1> QED
  BY <1>1, <1>2, <1>3, <1>4, LocalStep, Zenon

\* A reconcile that records why it failed.
LEMMA FailReadyNext ==
    ASSUME IInv, FailReady, pc \in {"deploy", "service"}, UNCHANGED <<app, phase, stamp, deploy, caches, base, avail, dirty>>,
           svc' \in {"none", "ours", "foreign"}, faults' \in 0..MaxFaults
    PROVE  IInv'
<1>1. a \in Apps /\ base \in Statuses /\ avail \in Images /\ dirty \in BOOLEAN
  BY Zenon DEF IInv, TypeOK
<1>2. /\ a' \in Apps /\ a'.rv = a.rv /\ a'.status.image = a.status.image /\ ~a'.status.ready
      /\ pc' = "status" /\ retry' = TRUE
  BY <1>1, FailedReady, Zenon DEF FailReady
<1>3. CopiesOK'
  BY <1>2, Zenon DEF IInv, CopiesOK, caches
<1>4. RollsForward'
  BY <1>2, Zenon DEF RollsForward
<1>5. ~Pruned => Shown(a'.status.image)
  BY <1>2, Zenon DEF IInv, BuildsOK
<1> QED
  BY <1>1, <1>2, <1>3, <1>4, <1>5, LocalStep, Zenon

\* The Deployment is written: from here on it has the image of the reconcile.
LEMMA DeploymentWritten ==
    ASSUME IInv, pc = "deploy", WriteDeployment, UNCHANGED <<app, phase, stamp, svc, caches, base>>,
           faults' \in 0..MaxFaults, dirty' \in BOOLEAN, retry' \in BOOLEAN, avail' \in Images,
           a' \in Apps, a'.rv = a.rv, a'.status.image = a.status.image,
           pc' = "service" \/ (pc' = "status" /\ ~a'.status.ready)
    PROVE  IInv'
<1>1. UNCHANGED <<app, phase, stamp, svc, acache, pcache, dcache, scache, base>> /\ TypeOK
  BY Zenon DEF caches, IInv
<1>2. /\ deploy' \in Deployments /\ deploy' # None /\ deploy'.image = a.status.image
      /\ deploy'.image # 0 /\ (app # None => deploy'.ours)
      /\ OursRuns => deploy'.ours
      /\ OursRuns /\ ~Pruned => Second(deploy.image) <= Second(deploy'.image)
  BY Written, Zenon DEF IInv
<1>3. (Pruned' <=> Pruned) /\ \A i : Second(i)' = Second(i)
  BY <1>1, Zenon DEF Pruned, Second
<1>4. TypeOK'
  BY <1>1, <1>2, Zenon DEF TypeOK
<1>5. /\ \A i \in Images : Second(i) \in Nat
      /\ deploy'.image \in Images
      /\ deploy # None => deploy.image \in Images
      /\ dcache # None => dcache.image \in Images
      /\ app # None => app.status.image \in Images
  BY <1>1, <1>2, Bounds, RecordTypes, Zenon
<1>6. BuildsOK'
  BY <1>1, <1>2, <1>3, Zenon DEF IInv, BuildsOK, Shown, OursRuns
<1>7. CopiesOK'
  BY <1>1, Zenon DEF IInv, CopiesOK
<1>8. DeployOK'
  <2>1. app # None /\ dcache # None /\ dcache.ours /\ ~Pruned => Second(dcache.image) <= Second(deploy'.image)
    <3>1. app # None /\ dcache # None /\ dcache.ours /\ ~Pruned =>
              OursRuns /\ Second(dcache.image) <= Second(deploy.image)
      BY Zenon DEF IInv, DeployOK
    <3> QED
      BY <1>2, <1>5, <3>1 DEF OursRuns
  <2>2. a.status.image # 0
    BY Zenon DEF IInv, DeployOK
  <2> QED
    BY <1>1, <1>2, <1>3, <2>1, <2>2, Zenon DEF DeployOK, OursRuns, Second
<1>9. RollsForward'
  <2>1. Second(a'.status.image) <= Second(deploy'.image)
    BY <1>2, <1>5
  <2> QED
    BY <1>1, <1>2, <1>3, <2>1, Zenon DEF RollsForward, OursRuns, Second
<1>10. ReadyImageDeployed'
  <2>1. app # None /\ app.status.ready /\ ~Pruned => Second(app.status.image) <= Second(deploy'.image)
    <3>1. app # None /\ app.status.ready /\ ~Pruned => OursRuns /\ Second(app.status.image) <= Second(deploy.image)
      BY Zenon DEF IInv, ReadyImageDeployed
    <3> QED
      BY <1>2, <1>5, <3>1 DEF OursRuns
  <2> QED
    BY <1>1, <1>2, <1>3, <2>1, Zenon DEF ReadyImageDeployed, OursRuns, Second
<1> QED
  BY <1>4, <1>6, <1>7, <1>8, <1>9, <1>10, Zenon DEF IInv

\* The status is written, if the App is still the one that was read.
LEMMA AppWritten ==
    ASSUME IInv, pc = "status", WriteStatus, NEW err \in BOOLEAN, Finish(err),
           UNCHANGED <<phase, stamp, deploy, svc, caches>>, faults' \in 0..MaxFaults
    PROVE  IInv'
<1>1. UNCHANGED <<phase, stamp, deploy, svc, acache, pcache, dcache, scache>> /\ TypeOK
  BY Zenon DEF caches, IInv
<1>2. /\ app \in Apps /\ app # None /\ app' \in Apps /\ app'.rv = app.rv + 1 /\ app.rv \in Nat
      /\ app'.status = a.status
  BY <1>1, StatusWritten, RecordTypes, Zenon
<1>3. /\ pc' = "idle" /\ a' = None /\ base' = None /\ avail' = 0 /\ retry' = FALSE
      /\ dirty' \in BOOLEAN
  BY <1>1, Zenon DEF Finish, TypeOK
<1>4. TypeOK'
  BY <1>1, <1>2, <1>3, RecordTypes, Zenon DEF TypeOK
<1>5. (Pruned' <=> Pruned) /\ (OursRuns' <=> OursRuns) /\ \A i : Second(i)' = Second(i)
  BY <1>1, Zenon DEF Pruned, OursRuns, Second
<1>6. BuildsOK'
  BY <1>1, <1>2, <1>3, <1>5, Zenon DEF IInv, BuildsOK, Shown
<1>7. CopiesOK'
  <2>1. acache # None => acache.rv \in Nat /\ acache.rv <= app.rv
    BY <1>1, <1>2, RecordTypes, Zenon DEF IInv, CopiesOK, TypeOK
  <2>2. acache # None => acache.rv < app'.rv
    BY <1>2, <2>1
  <2> QED
    BY <1>1, <1>2, <1>3, <2>1, <2>2 DEF CopiesOK
<1>8. DeployOK'
  BY <1>1, <1>2, <1>3, <1>5, Zenon DEF IInv, DeployOK, Second
<1>9. RollsForward'
  BY <1>3, Zenon DEF RollsForward
<1>10. ReadyImageDeployed'
  BY <1>1, <1>2, <1>5, Zenon DEF IInv, RollsForward, ReadyImageDeployed, Second
<1> QED
  BY <1>4, <1>6, <1>7, <1>8, <1>9, <1>10, Zenon DEF IInv

LEMMA GetNext ==
    ASSUME IInv, Get
    PROVE  IInv'
<1>1. /\ UNCHANGED <<app, phase, stamp, deploy, svc, caches, acache, faults, avail, retry>>
      /\ TypeOK /\ dirty' = FALSE /\ pc = "idle"
  BY Zenon DEF Get, objects, caches, local, IInv
<1>2. CASE acache = None
  <2>1. UNCHANGED <<pc, a, base>>
    BY <1>2, Zenon DEF Get, local
  <2>2. CopiesOK' /\ RollsForward'
    BY <1>1, <1>2, <2>1, Zenon DEF IInv, CopiesOK, RollsForward
  <2> QED
    BY <1>1, <2>1, <2>2, LocalStep, Zenon DEF TypeOK
<1>3. CASE acache # None
  <2>1. /\ acache \in Apps /\ acache.status \in Statuses
        /\ a' = acache /\ base' = acache.status /\ pc' = "builds"
    BY <1>1, <1>3, RecordTypes, Zenon DEF Get, Goto, TypeOK
  <2>2. CopiesOK'
    <3>1. app # None => acache.rv <= app.rv /\ (acache.rv = app.rv => acache.status = app.status)
      BY <1>3, Zenon DEF IInv, CopiesOK
    <3>2. app # None /\ acache # None => /\ acache.rv <= app.rv
                                         /\ acache.rv = app.rv => acache = app
      BY Zenon DEF IInv, CopiesOK
    <3> QED
      BY <1>1, <2>1, <3>1, <3>2, Zenon DEF CopiesOK
  <2>3. RollsForward'
    BY <2>1, Zenon DEF RollsForward
  <2>4. ~Pruned => Shown(a'.status.image)
    BY <1>3, <2>1, Zenon DEF IInv, BuildsOK
  <2> QED
    BY <1>1, <2>1, <2>2, <2>3, <2>4, LocalStep, Zenon DEF TypeOK
<1> QED
  BY <1>2, <1>3, Zenon

LEMMA ObserveNext ==
    ASSUME IInv, ObserveBuilds
    PROVE  IInv'
<1>1. /\ UNCHANGED <<app, phase, stamp, deploy, svc, caches, acache, dirty, base, avail, retry, faults>>
      /\ TypeOK /\ pc = "builds" /\ base \in Statuses
  BY Zenon DEF ObserveBuilds, objects, caches, IInv, TypeOK
<1>2. /\ a' \in Apps /\ a'.rv = a.rv
      /\ IF a'.status.image = 0 THEN pc' = "status" /\ ~a'.status.ready ELSE pc' = "deploy"
      /\ a.status.image # 0 => a'.status.image # 0
      /\ ~Pruned => /\ Shown(a'.status.image)
                    /\ OursRuns /\ deploy.image # 0 => Second(deploy.image) <= Second(a'.status.image)
  BY Observed, Zenon DEF IInv
<1>3. (Pruned' <=> Pruned) /\ (OursRuns' <=> OursRuns) /\ \A i : Second(i)' = Second(i)
  BY <1>1, Zenon DEF Pruned, OursRuns, Second
<1>4. CopiesOK'
  BY <1>1, <1>2, Zenon DEF IInv, CopiesOK
<1>5. RollsForward'
  <2>1. OursRuns => deploy.image # 0
    BY Zenon DEF IInv, DeployOK
  <2> QED
    BY <1>1, <1>2, <1>3, <2>1, Zenon DEF RollsForward, Second
<1> QED
  BY <1>1, <1>2, <1>4, <1>5, LocalStep, Zenon DEF TypeOK

LEMMA DeploymentNext ==
    ASSUME IInv, ReconcileDeployment
    PROVE  IInv'
<1>1. UNCHANGED <<app, phase, stamp, svc, caches, faults>> /\ TypeOK /\ pc = "deploy" /\ a \in Apps
  BY Zenon DEF ReconcileDeployment, IInv, TypeOK
<1>2. CASE WriteDeployment /\ avail' = deploy'.pods /\ Goto("service") /\ UNCHANGED <<a, base, retry, dirty>>
  <2>1. avail' \in Images /\ dirty' \in BOOLEAN /\ retry' \in BOOLEAN
    BY <1>1, <1>2, Written, RecordTypes, Zenon DEF IInv, TypeOK
  <2>2. pc' = "service" /\ faults' \in 0..MaxFaults
    BY <1>1, <1>2, Zenon DEF Goto, TypeOK
  <2> QED
    BY <1>1, <1>2, <2>1, <2>2, DeploymentWritten, Zenon
<1>3. CASE UpToDate /\ avail' = dcache.pods /\ Goto("service") /\ UNCHANGED <<deploy, a, base, retry, dirty>>
  <2>1. dcache \in Deployments /\ dcache.ours /\ dcache.image = a.status.image /\ pc' = "service"
    BY <1>1, <1>3, Zenon DEF UpToDate, TypeOK, Goto
  <2>2. avail' \in Images
    BY <1>3, <2>1, RecordTypes, Zenon
  <2>3. CopiesOK'
    BY <1>1, <1>3, <2>1, Zenon DEF IInv, CopiesOK, caches
  <2>4. RollsForward'
    <3>1. app # None => OursRuns /\ (~Pruned => Second(a.status.image) <= Second(deploy.image))
      BY <2>1, RecordTypes, Zenon DEF IInv, DeployOK
    <3>2. (Pruned' <=> Pruned) /\ (OursRuns' <=> OursRuns) /\ \A i : Second(i)' = Second(i)
      BY <1>1, <1>3, Zenon DEF Pruned, OursRuns, Second
    <3> QED
      BY <1>1, <1>3, <2>1, <3>1, <3>2, Zenon DEF RollsForward, Second
  <2>5. a'.status.image # 0 /\ (~Pruned => Shown(a'.status.image))
    BY <1>1, <1>3, Zenon DEF IInv, DeployOK, BuildsOK
  <2> QED
    BY <1>1, <1>3, <2>1, <2>2, <2>3, <2>4, <2>5, LocalStep, Zenon DEF TypeOK
<1>4. CASE Refused /\ FailReady /\ UNCHANGED <<deploy, base, avail, dirty>>
  BY <1>1, <1>4, FailReadyNext, Zenon DEF TypeOK
<1>5. CASE Outdated /\ ~SameDeployment /\ Finish(TRUE) /\ UNCHANGED deploy
  BY <1>1, <1>5, FinishNext, Zenon DEF TypeOK
<1> QED
  BY <1>2, <1>3, <1>4, <1>5, Zenon DEF ReconcileDeployment

LEMMA ServiceNext ==
    ASSUME IInv, ReconcileService
    PROVE  IInv'
<1>1. /\ UNCHANGED <<app, phase, stamp, deploy, caches, dirty, base, avail, faults>>
      /\ TypeOK /\ pc = "service" /\ a \in Apps /\ base \in Statuses /\ svc' \in {"none", "ours", "foreign"}
  BY Zenon DEF ReconcileService, WriteService, IInv, TypeOK
<1>2. CASE ServiceRefused /\ FailReady
  BY <1>1, <1>2, FailReadyNext, Zenon DEF TypeOK
<1>3. CASE pc' = "ready" /\ UNCHANGED <<a, retry>>
  <2>1. CopiesOK'
    BY <1>1, <1>3, Zenon DEF IInv, CopiesOK, caches
  <2>2. RollsForward'
    <3>1. (Pruned' <=> Pruned) /\ (OursRuns' <=> OursRuns) /\ \A i : Second(i)' = Second(i)
      BY <1>1, Zenon DEF Pruned, OursRuns, Second
    <3> QED
      BY <1>1, <1>3, <3>1, Zenon DEF IInv, RollsForward, Second
  <2>3. a'.status.image # 0 /\ (~Pruned => Shown(a'.status.image))
    BY <1>1, <1>3, Zenon DEF IInv, DeployOK, BuildsOK
  <2> QED
    BY <1>1, <1>3, <2>1, <2>2, <2>3, LocalStep, Zenon DEF TypeOK
<1> QED
  BY <1>2, <1>3, Zenon DEF ReconcileService, Goto

LEMMA ReadyNext ==
    ASSUME IInv, SetReady
    PROVE  IInv'
<1>1. /\ UNCHANGED <<app, phase, stamp, deploy, svc, caches, dirty, base, avail, retry, faults>>
      /\ TypeOK /\ pc = "ready" /\ pc' = "status" /\ a \in Apps /\ base \in Statuses
  BY Zenon DEF SetReady, objects, Goto, IInv, TypeOK
<1>2. a' \in Apps /\ a'.rv = a.rv /\ a'.status.image = a.status.image
  BY <1>1, Zenon DEF SetReady, Apps, Statuses
<1>3. CopiesOK'
  BY <1>1, <1>2, Zenon DEF IInv, CopiesOK, caches
<1>4. RollsForward'
  <2>1. (Pruned' <=> Pruned) /\ (OursRuns' <=> OursRuns) /\ \A i : Second(i)' = Second(i)
    BY <1>1, Zenon DEF Pruned, OursRuns, Second
  <2> QED
    BY <1>1, <1>2, <2>1, Zenon DEF IInv, RollsForward, Second
<1>5. ~Pruned => Shown(a'.status.image)
  BY <1>1, <1>2, Zenon DEF IInv, BuildsOK
<1> QED
  BY <1>1, <1>2, <1>3, <1>4, <1>5, LocalStep, Zenon DEF TypeOK

LEMMA StatusNext ==
    ASSUME IInv, UpdateStatus
    PROVE  IInv'
<1>1. /\ UNCHANGED <<phase, stamp, deploy, svc, caches, faults>>
      /\ svc \in {"none", "ours", "foreign"} /\ faults \in 0..MaxFaults /\ retry \in BOOLEAN /\ pc = "status"
  BY Zenon DEF UpdateStatus, IInv, TypeOK
<1>2. CASE (Finish(retry) \/ Finish(TRUE)) /\ UNCHANGED app
  BY <1>1, <1>2, FinishNext, Zenon
<1>3. CASE WriteStatus /\ Finish(retry)
  BY <1>1, <1>3, AppWritten, Zenon
<1> QED
  BY <1>2, <1>3, Zenon DEF UpdateStatus

LEMMA ErrorNext ==
    ASSUME IInv, CallError
    PROVE  IInv'
<1>1. /\ UNCHANGED <<phase, stamp, caches>> /\ faults' \in 0..MaxFaults /\ TypeOK
      /\ svc \in {"none", "ours", "foreign"} /\ pc # "idle" /\ a \in Apps
  BY FaultCounted, Zenon DEF CallError, IInv, TypeOK
<1>2. CASE pc \in {"deploy", "service"} /\ UNCHANGED <<app, deploy>> /\ svc' \in {"none", "ours", "foreign"}
  BY <1>1, <1>2, FailReadyNext, Zenon DEF CallError
<1>3. CASE pc \in {"builds", "status"} /\ UNCHANGED <<app, deploy>> /\ svc' \in {"none", "ours", "foreign"}
  BY <1>1, <1>3, FinishNext, Zenon DEF CallError
<1>4. CASE pc = "deploy" /\ WriteDeployment /\ UNCHANGED <<app, svc>>
  <2>1. FailReady /\ UNCHANGED <<base, avail, dirty>>
    BY <1>4, Zenon DEF CallError
  <2>2. /\ a' \in Apps /\ a'.rv = a.rv /\ a'.status.image = a.status.image /\ ~a'.status.ready
        /\ pc' = "status" /\ retry' = TRUE
    BY <1>1, <2>1, FailedReady, Zenon DEF FailReady
  <2>3. avail' \in Images /\ dirty' \in BOOLEAN
    BY <1>1, <2>1, Zenon DEF TypeOK
  <2> QED
    BY <1>1, <1>4, <2>1, <2>2, <2>3, DeploymentWritten, Zenon
<1>5. CASE pc = "status" /\ WriteStatus /\ UNCHANGED <<deploy, svc>>
  <2>1. Finish(TRUE)
    BY <1>5, Zenon DEF CallError
  <2> QED
    BY <1>1, <1>5, <2>1, AppWritten, Zenon
<1>6. pc = "service" /\ WriteService => svc' \in {"none", "ours", "foreign"}
  BY Zenon DEF WriteService
<1> QED
  BY <1>1, <1>2, <1>3, <1>4, <1>5, <1>6, Zenon DEF CallError

(***************************************************************************)
(* The invariant holds initially and is kept by every step.                *)
(***************************************************************************)

LEMMA InvInit == Init => IInv
<1> SUFFICES ASSUME Init
             PROVE  IInv
  BY Zenon
<1>1. /\ 0 \in Images /\ \A n \in Ids : phase[n] = "none" /\ pcache[n] = "none" /\ stamp[n] = 0
      /\ phase \in [Ids -> BuildPhases] /\ stamp \in [Ids -> Nat]
  BY RecordTypes, Zenon DEF Init, BuildPhases
<1>2. app \in Apps /\ app.status.image = 0 /\ ~app.status.ready /\ acache = app
  BY <1>1, Zenon DEF Init, Apps, Statuses
<1>3. deploy \in Deployments \cup {None} /\ ~OursRuns /\ dcache = deploy
  <2>1. ASSUME NEW d, d = [ours |-> FALSE, rv |-> 0, web |-> TRUE, image |-> 0, pods |-> 0]
        PROVE  d \in Deployments /\ ~d.ours
    BY <1>1, <2>1, Zenon DEF Deployments
  <2>2. \/ deploy = None
        \/ deploy = [ours |-> FALSE, rv |-> 0, web |-> TRUE, image |-> 0, pods |-> 0]
    BY Zenon DEF Init
  <2> QED
    BY <2>1, <2>2, Zenon DEF Init, OursRuns
<1>4. TypeOK
  <2>1. 0 \in 0..MaxFaults
    BY AppConstants
  <2>2. svc \in {"none", "ours", "foreign"} /\ scache = svc
    BY Zenon DEF Init
  <2> QED
    BY <1>1, <1>2, <1>3, <2>1, <2>2, Zenon DEF Init, TypeOK
<1>5. BuildsOK
  BY <1>1, <1>2, <1>3, Zenon DEF Init, BuildsOK, Shown, OursRuns
<1>6. CopiesOK
  BY <1>2, RecordTypes DEF Init, CopiesOK
<1>7. DeployOK /\ RollsForward /\ ReadyImageDeployed
  BY <1>2, <1>3, Zenon DEF Init, DeployOK, RollsForward, ReadyImageDeployed, OursRuns
<1> QED
  BY <1>4, <1>5, <1>6, <1>7, Zenon DEF IInv

LEMMA InvNext == IInv /\ [Next]_vars => IInv'
<1> SUFFICES ASSUME IInv, [Next]_vars
             PROVE  IInv'
  BY Zenon
<1>1. CASE \E n \in Ids : NewBuild(n) \/ EndBuild(n, "ok") \/ EndBuild(n, "failed") \/ PruneBuild(n)
  BY <1>1, BuildsNext, Zenon
<1>2. CASE EditApp \/ DeleteApp \/ CollectGarbage \/ RollPods
  BY <1>2, EditNext, DeleteNext, ClusterNext, Zenon
<1>3. CASE SyncApp \/ SyncBuilds \/ SyncChildren \/ Restart
  <2>1. faults \in 0..MaxFaults
    BY Zenon DEF IInv, TypeOK
  <2>2. ASSUME Restart PROVE faults' \in 0..MaxFaults
    BY <2>2, FaultCounted, Zenon DEF Restart, IInv
  <2>3. CASE SyncApp
    BY <2>1, <2>3, SyncNext, Zenon DEF SyncApp
  <2>4. CASE SyncBuilds
    BY <2>1, <2>4, SyncNext, Zenon DEF SyncBuilds
  <2>5. CASE SyncChildren
    BY <2>1, <2>5, SyncNext, Zenon DEF SyncChildren
  <2>6. CASE Restart
    BY <2>2, <2>6, SyncNext, Zenon DEF Restart
  <2> QED
    BY <1>3, <2>3, <2>4, <2>5, <2>6, Zenon
<1>4. CASE Reconcile
  BY <1>4, GetNext, ObserveNext, DeploymentNext, ServiceNext, ReadyNext, StatusNext, Zenon DEF Reconcile
<1>5. CASE CallError
  BY <1>5, ErrorNext, Zenon
<1>6. CASE UNCHANGED vars
  <2>1. UNCHANGED objects /\ UNCHANGED caches /\ UNCHANGED local /\ UNCHANGED <<dirty, faults>>
    BY <1>6, Zenon DEF vars
  <2>2. faults' \in 0..MaxFaults /\ dirty' \in BOOLEAN
    BY <2>1, Zenon DEF IInv, TypeOK
  <2>3. acache' = acache /\ pcache' = pcache /\ dcache' = dcache /\ scache' = scache
    BY <2>1, Zenon DEF caches
  <2> QED
    BY <2>1, <2>2, <2>3, SyncNext, Zenon
<1> QED
  BY <1>1, <1>2, <1>3, <1>4, <1>5, <1>6, Zenon DEF Next

LEMMA Invariance == Spec => []IInv
<1>1. IInv /\ [Next]_vars => IInv'
  BY InvNext, Zenon
<1> QED
  BY InvInit, <1>1, PTL DEF Spec

\* Every variable keeps its type, whatever fails and however the Builds are
\* named: the reconcile never holds a status without its App.
THEOREM TypeCorrect == Spec => []TypeOK
<1>1. IInv => TypeOK
  BY Zenon DEF IInv
<1> QED
  BY Invariance, <1>1, PTL

\* An App that reports Ready has had its image or a newer one rolled out, for
\* any number of Builds, stale caches, failed calls and restarts.
THEOREM ReadyIsDeployed == Spec => []ReadyImageDeployed
<1>1. IInv => ReadyImageDeployed
  BY Zenon DEF IInv
<1> QED
  BY Invariance, <1>1, PTL

(***************************************************************************)
(* What a step does to the status and the Deployment.                      *)
(***************************************************************************)

\* Only a reconcile that has an image writes one, and it is none older.
LEMMA DeployKept ==
    ASSUME IInv, [Next]_vars, OursRuns
    PROVE  /\ app # None => deploy' # None
           /\ deploy' # None => /\ deploy'.image # 0
                                /\ ~Pruned => Second(deploy.image) <= Second(deploy'.image)
<1>1. /\ deploy \in Deployments /\ deploy # None /\ deploy.image # 0
      /\ Second(deploy.image) <= Second(deploy.image)
  <2>1. Second(deploy.image) \in Nat /\ deploy.image # 0 /\ deploy \in Deployments
    BY Bounds, Zenon DEF IInv, OursRuns, TypeOK, DeployOK
  <2> QED
    BY <2>1 DEF OursRuns
<1>2. CASE UNCHANGED deploy
  BY <1>1, <1>2, Zenon
<1>3. CASE RollPods
  <2>1. deploy'.image = deploy.image /\ deploy' # None
    <3>1. deploy.rv + 1 \in Nat /\ deploy.image \in Images /\ deploy.ours \in BOOLEAN
          /\ deploy.web \in BOOLEAN /\ 0 \in Images
      BY <1>1, RecordTypes DEF Deployments
    <3>2. ASSUME NEW p \in Images, deploy' = [deploy EXCEPT !.pods = p, !.rv = @ + 1]
          PROVE  deploy'.image = deploy.image /\ deploy' \in Deployments
      <4>1. deploy' = [ours |-> deploy.ours, rv |-> deploy.rv + 1, web |-> deploy.web,
                       image |-> deploy.image, pods |-> p]
        BY <1>1, <3>2, Zenon DEF Deployments
      <4> QED
        BY <3>1, <3>2, <4>1, Zenon DEF Deployments
    <3> QED
      BY <1>3, <3>1, <3>2, RecordTypes, Zenon DEF RollPods
  <2> QED
    BY <1>1, <2>1, Zenon
<1>4. CASE CollectGarbage
  BY <1>1, <1>4, Zenon DEF CollectGarbage
<1>5. CASE pc = "deploy" /\ WriteDeployment
  BY <1>5, Written, Zenon DEF IInv
<1>6. CASE ReconcileDeployment
  BY <1>2, <1>5, <1>6, Zenon DEF ReconcileDeployment
<1>7. CASE CallError
  BY <1>2, <1>5, <1>7, Zenon DEF CallError
<1>8. CASE ReconcileService
  BY <1>2, <1>8, Zenon DEF ReconcileService
<1>9. CASE Get \/ ObserveBuilds \/ SetReady \/ UpdateStatus
  BY <1>2, <1>9, Zenon DEF Get, ObserveBuilds, SetReady, UpdateStatus, objects
<1>10. CASE \E n \in Ids : NewBuild(n) \/ EndBuild(n, "ok") \/ EndBuild(n, "failed") \/ PruneBuild(n)
  BY <1>2, <1>10, Zenon DEF NewBuild, EndBuild, PruneBuild
<1>11. CASE EditApp \/ DeleteApp \/ SyncApp \/ SyncBuilds \/ SyncChildren \/ Restart \/ UNCHANGED vars
  BY <1>2, <1>11, Zenon DEF EditApp, DeleteApp, SyncApp, SyncBuilds, SyncChildren, Restart, vars, objects
<1> QED
  BY <1>3, <1>4, <1>6, <1>7, <1>8, <1>9, <1>10, <1>11, Zenon DEF Next, Reconcile

\* A status that is written is made from the one it replaces.
LEMMA ImageKept ==
    ASSUME IInv, [Next]_vars, app # None, app' # None, app.status.image # 0
    PROVE  app'.status.image # 0
<1>1. CASE UNCHANGED app
  BY <1>1, Zenon
<1>2. CASE pc = "status" /\ WriteStatus
  <2>1. app.rv = a.rv /\ app'.status = a.status
    BY <1>2, StatusWritten, Zenon DEF IInv
  <2>2. base = app.status
    BY <1>2, <2>1, Zenon DEF IInv, CopiesOK
  <2> QED
    BY <1>2, <2>1, <2>2, Zenon DEF IInv, CopiesOK
<1>3. CASE EditApp
  <2>1. app \in Apps
    BY Zenon DEF IInv, TypeOK
  <2> QED
    BY <1>3, <2>1, Zenon DEF EditApp, Apps
<1>4. CASE DeleteApp
  BY <1>4, Zenon DEF DeleteApp
<1>5. CASE UpdateStatus
  BY <1>1, <1>2, <1>5, Zenon DEF UpdateStatus
<1>6. CASE CallError
  BY <1>1, <1>2, <1>6, Zenon DEF CallError
<1>7. CASE ReconcileService \/ ReconcileDeployment \/ Get \/ ObserveBuilds \/ SetReady
  BY <1>1, <1>7, Zenon DEF ReconcileService, ReconcileDeployment, Get, ObserveBuilds, SetReady, objects
<1>8. CASE \E n \in Ids : NewBuild(n) \/ EndBuild(n, "ok") \/ EndBuild(n, "failed") \/ PruneBuild(n)
  BY <1>1, <1>8, Zenon DEF NewBuild, EndBuild, PruneBuild
<1>9. CASE \/ CollectGarbage \/ RollPods \/ SyncApp \/ SyncBuilds \/ SyncChildren \/ Restart \/ UNCHANGED vars
  BY <1>1, <1>9, Zenon DEF CollectGarbage, RollPods, SyncApp, SyncBuilds, SyncChildren, Restart, vars, objects
<1> QED
  BY <1>3, <1>4, <1>5, <1>6, <1>7, <1>8, <1>9, Zenon DEF Next, Reconcile

\* A rollout is never undone by an older Build, and pruning Builds takes neither
\* the image nor the workload away, for any number of Builds and faults.
THEOREM RolloutsKept == Spec => RolloutKept
<1>1. IInv /\ [Next]_vars =>
          [OursRuns /\ deploy' # None /\ ~Pruned => Second(deploy.image) <= Second(deploy'.image)]_vars
  BY DeployKept, Zenon
<1>2. IInv /\ [Next]_vars =>
          [app # None /\ app' # None =>
              /\ app.status.image # 0 => app'.status.image # 0
              /\ OursRuns => deploy' # None /\ deploy'.image # 0]_vars
  BY DeployKept, ImageKept, Zenon
<1> QED
  BY Invariance, <1>1, <1>2, PTL DEF Spec, RolloutKept, RolloutAdvances, PruningSparesWorkload
=============================================================================
