----------------------------- MODULE Installer -----------------------------
(***************************************************************************)
(* `orkano init` from the first command to the summary: every server is    *)
(* brought up in turn (K3sNode), the platform's manifests are put in the   *)
(* first server's auto-deploy directory, the generate-once Secrets and the *)
(* repository allowlist are created, and the registry is wired on every    *)
(* server.  A run may fail or be killed at any command and is then simply  *)
(* repeated.  Around it run k3s's AddOn controller, the cluster, an        *)
(* administrator who edits Settings or mints a bootstrap token, and, for a *)
(* cluster installed from the Helm chart instead, the seeding Jobs.        *)
(***************************************************************************)
EXTENDS K3sNode, Functions

CONSTANTS
    Seeds,            \* what a run is given with --allow-repo: "none", "seed"
    MaxFaults,        \* runs that fail or are killed
    MaxMisreads,      \* 1 if `kubectl get secret` may fail on a Secret that is there
    MaxMints,         \* uses of `orkano bootstrap-token`
    MaxValues         \* random values in use at a time

ASSUME InstallerConstants ==
    /\ Seeds \subseteq {"none", "seed"}
    /\ MaxFaults \in Nat /\ MaxMints \in Nat /\ MaxValues \in Nat /\ MaxMisreads \in {0, 1}

VARIABLES
    origin,           \* "fresh", "legacy" (an older release is installed), "chart"
    manifest,         \* the auto-deploy directory: file -> content
    legacyNames,      \* files still under the name the older release gave them
    applied,          \* component -> the manifest k3s has applied
    crds,             \* CRD -> its object in the cluster
    secrets,          \* Secret -> which generation of values it holds, 0 if absent
    pgdata,           \* the superuser password Postgres was initialised with
    allowlist,        \* the allowlist ConfigMap
    registryCA,       \* the CA the registry's certificate carries
    buildCA,          \* the CA published to build pods
    shown,            \* the bootstrap token last shown, 0 if none
    mint,             \* the token `bootstrap-token` has stored and not shown yet
    dashboards,       \* the token hashes the Ready dashboard pods compare with
    rolling,          \* a restart of the dashboard has been asked for
    live,             \* `bootstrap-token` reported that restart complete
    seeder,           \* the seeding Job's position in SecretOrder
    given,            \* what every run is given with --allow-repo, or "none"
    budget            \* what is left of the bounds

CRDList == <<"crd-apps", "crd-domains">>

RestList == <<"operator", "receiver">>

CRDs == Range(CRDList)

Components == Range(RestList)

Manifests == CRDs \cup Components

SecretOrder == <<"superuser", "token", "oidc">>

SecretNames == Range(SecretOrder)

CRDObject == [content : {"none", "old", "new"}, established : BOOLEAN]

manifestVars == <<manifest, legacyNames>>

clusterVars == <<applied, crds, pgdata, registryCA>>

seedVars == <<secrets, allowlist>>

tokenVars == <<shown, mint, dashboards, rolling, live>>

otherVars == <<origin, buildCA, seeder, given, budget>>

vars == <<run, nodeVars, manifestVars, clusterVars, seedVars, tokenVars, otherVars>>

-----------------------------------------------------------------------------

Resting == {"idle", "failed", "killed", "done"}

\* The steps of install.Apply, until the registry is wired.
PlatformSteps ==
    {"legacy", "persist", "migrate", "crds", "mv-crd", "apply", "established", "rest", "mv-rest",
     "namespace", "secrets", "create", "allowlist", "workloads", "wire"}

\* What a run remembers: its position, the server and the item of a list it is at,
\* whether a file changed, the allowlist's seed and whether it is stored, the CA it
\* has read, the values it generated and the token it created.
Runs ==
    [pc : Resting \cup NodeSteps \cup PlatformSteps \cup WireSteps,
     s : Servers, i : 1..4, changed : BOOLEAN, seed : {"none", "empty", "legacy", "seed"},
     ready : BOOLEAN, ca : Contents, gen : Nat, token : Nat]

NoRun(pc) ==
    [pc |-> pc, s |-> 1, i |-> 1, changed |-> FALSE, seed |-> "none", ready |-> FALSE,
     ca |-> "none", gen |-> 0, token |-> 0]

FreshServer ==
    [version |-> "none", active |-> FALSE, up |-> FALSE, joined |-> FALSE,
     started |-> [f \in AtStart |-> "none"]]

Installed(content) ==
    [version |-> content, active |-> TRUE, up |-> TRUE, joined |-> TRUE,
     started |-> [f \in AtStart |-> content]]

\* A cluster the older release installed: its Postgres has run, its receiver
\* carries the allowlist in its environment, and on one server the profile has
\* been switched to complain mode by hand.
InitServers ==
    LET was == IF origin = "fresh" THEN "none" ELSE "old"
    IN  /\ disk = [s \in Servers |-> [f \in Files |-> was]]
        /\ server = [s \in Servers |-> IF origin = "fresh" THEN FreshServer ELSE Installed(was)]
        /\ kernel = [s \in Servers |->
                        [sysctl |-> was,
                         profile |-> IF origin = "legacy" /\ s = 1 THEN "complain" ELSE was]]

InitPlatform ==
    LET was == [fresh |-> "none", legacy |-> "old", chart |-> "new"][origin]
        g == IF origin = "legacy" THEN 1 ELSE 0
    IN  /\ manifest = [f \in Manifests |-> "none"]
        /\ legacyNames = IF origin = "legacy" THEN Manifests ELSE {}
        /\ applied = [f \in Components |-> was]
        /\ crds = [f \in CRDs |-> [content |-> was, established |-> origin # "fresh"]]
        /\ secrets = [x \in SecretNames |-> g]
        /\ pgdata = g
        /\ dashboards = IF g = 0 THEN {} ELSE {g}
        /\ registryCA = IF origin = "legacy" THEN "old" ELSE "none"

Init ==
    /\ origin \in {"fresh", "legacy", "chart"}
    /\ run = NoRun("idle")
    /\ InitServers
    /\ InitPlatform
    /\ allowlist = "none"
    /\ buildCA = "none"
    /\ shown = 0
    /\ mint = 0
    /\ rolling = FALSE
    /\ live = FALSE
    /\ seeder = IF origin = "chart" THEN 1 ELSE Len(SecretOrder) + 2
    /\ given \in Seeds
    /\ budget = [faults |-> MaxFaults, mints |-> MaxMints]

Spend(b) ==
    /\ budget[b] > 0
    /\ budget' = [budget EXCEPT ![b] = @ - 1]

\* Random values are never repeated: the next one is none of those still known.
\* Which of the others it is makes no difference.
Known ==
    {secrets[x] : x \in SecretNames} \cup dashboards
        \cup {pgdata, shown, mint, run.gen, run.token}

Generated == {g \in 1..MaxValues : g \notin Known /\ \A h \in 1..(g - 1) : h \in Known}

-----------------------------------------------------------------------------
(* runInit *)

\* A new run, after none or one that did not complete.  (To repeat a completed
\* run is to repeat one that failed at its last command.)
Begin ==
    /\ run.pc \in {"idle", "failed", "killed"}
    /\ origin # "chart"
    /\ run' = NoRun("preflight")
    /\ UNCHANGED <<nodeVars, manifestVars, clusterVars, seedVars, tokenVars, otherVars>>

Bootstrap ==
    /\ NodeStep
    /\ UNCHANGED <<manifestVars, clusterVars, seedVars, tokenVars, otherVars>>

Advance(list, here, done) ==
    run' = IF run.i < Len(list) THEN [run EXCEPT !.pc = here, !.i = @ + 1]
                                ELSE [run EXCEPT !.pc = done, !.i = 1]

(* install.Apply *)

\* legacyReceiverRepoAllowlist: without --allow-repo, the policy the running
\* receiver carries in its environment becomes the seed.  A receiver of this
\* release carries none, which reads as an empty policy.
LegacyAllowlist ==
    /\ At("legacy")
    /\ run' = IF given # "none" \/ applied["receiver"] = "none"
              THEN [run EXCEPT !.pc = "migrate", !.seed = given]
              ELSE [run EXCEPT !.pc = "persist",
                        !.seed = IF applied["receiver"] = "old" THEN "legacy" ELSE "empty"]
    /\ UNCHANGED <<nodeVars, manifestVars, clusterVars, seedVars, tokenVars, otherVars>>

\* createConfigMapIfAbsent: one create, which leaves an existing object alone.
EnsureRepoAllowlist(seed) ==
    allowlist' = IF allowlist = "none" THEN seed ELSE allowlist

\* Mutant of PersistLegacy: the policy is left for the end of the run.
PersistLegacy_Later ==
    /\ At("persist")
    /\ run' = [run EXCEPT !.pc = "migrate"]
    /\ UNCHANGED allowlist

\* The migrated policy is stored before anything rolls the receiver.
PersistLegacy ==
    /\ At("persist")
    /\ EnsureRepoAllowlist(run.seed)
    /\ run' = [run EXCEPT !.pc = "migrate", !.ready = TRUE]

PersistAllowlist ==
    /\ PersistLegacy
    /\ UNCHANGED <<nodeVars, manifestVars, clusterVars, secrets, tokenVars, otherVars>>

\* migrateLegacyManifests: rename each file, or drop it when its replacement is
\* there already.
MigrateManifest ==
    /\ At("migrate")
    /\ LET f == (CRDList \o RestList)[run.i]
       IN  IF f \in legacyNames
           THEN /\ legacyNames' = legacyNames \ {f}
                /\ manifest' = IF manifest[f] = "none" THEN [manifest EXCEPT ![f] = "old"]
                                                       ELSE manifest
           ELSE UNCHANGED manifestVars
    /\ Advance(CRDList \o RestList, "migrate", "crds")
    /\ UNCHANGED <<nodeVars, clusterVars, seedVars, tokenVars, otherVars>>

\* Mutant of Staged: the manifest is written in place.
Staged_InPlace(content) == "torn"

\* writeInline and writeChunked write PATH.tmp, which k3s does not read: the
\* manifest itself is as before until the rename.
Staged(content) == content

EnsureManifest(list, here, rename, done) ==
    /\ At(here)
    /\ LET f == list[run.i]
       IN  IF manifest[f] = "new"
           THEN Advance(list, here, done) /\ UNCHANGED manifest
           ELSE manifest' = [manifest EXCEPT ![f] = Staged(@)] /\ Goto(rename)
    /\ UNCHANGED <<nodeVars, legacyNames, clusterVars, seedVars, tokenVars, otherVars>>

RenameManifest(list, here, rename, done) ==
    /\ At(rename)
    /\ manifest' = [manifest EXCEPT ![list[run.i]] = "new"]
    /\ Advance(list, here, done)
    /\ UNCHANGED <<nodeVars, legacyNames, clusterVars, seedVars, tokenVars, otherVars>>

\* splitCRDManifests: the CRDs come first, and the rest only after they are
\* Established.
WriteCRDs ==
    \/ EnsureManifest(CRDList, "crds", "mv-crd", "apply")
    \/ RenameManifest(CRDList, "crds", "mv-crd", "apply")

WriteManifests ==
    \/ EnsureManifest(RestList, "rest", "mv-rest", "namespace")
    \/ RenameManifest(RestList, "rest", "mv-rest", "namespace")

\* applyAndWaitCRDs, on every run.
ApplyCRD ==
    /\ At("apply")
    /\ crds' = [crds EXCEPT ![CRDList[run.i]].content = manifest[CRDList[run.i]]]
    /\ Advance(CRDList, "apply", "established")
    /\ UNCHANGED <<nodeVars, manifestVars, applied, pgdata, registryCA, seedVars, tokenVars,
                   otherVars>>

\* Mutant of CRDsEstablished: applied is taken for Established.
CRDsEstablished_Assumed == TRUE

CRDsEstablished == \A f \in CRDs : crds[f].established

WaitCRDsEstablished ==
    /\ At("established")
    /\ CRDsEstablished
    /\ Goto("rest")
    /\ UNCHANGED <<nodeVars, manifestVars, clusterVars, seedVars, tokenVars, otherVars>>

\* Mutant of NamespaceReady: Postgres has to run before its Secret is created.
NamespaceReady_Postgres == pgdata # 0

\* The namespace is there once k3s has applied the manifest that holds it.
NamespaceReady == applied["operator"] # "none"

\* waitNamespace, then Generate: fresh values on every run, used only for the
\* Secrets that are not there yet.
WaitNamespace ==
    /\ At("namespace")
    /\ NamespaceReady
    /\ \E g \in Generated : run' = [run EXCEPT !.pc = "secrets", !.gen = g]
    /\ UNCHANGED <<nodeVars, manifestVars, clusterVars, seedVars, tokenVars, otherVars>>

\* Mutant of GetSecret: every run writes its own values.
GetSecret_Skipped(x) == {FALSE}

\* What `kubectl get` may say of a Secret: any failure of it reads as absent.
GetSecret(x) == {secrets[x] # 0} \cup {FALSE : m \in 1..MaxMisreads}

\* createSecretIfAbsent, the look.
LookSecret ==
    /\ At("secrets")
    /\ \E there \in GetSecret(SecretOrder[run.i]) :
          IF there THEN Advance(SecretOrder, "secrets", "allowlist") ELSE Goto("create")
    /\ UNCHANGED <<nodeVars, manifestVars, clusterVars, seedVars, tokenVars, otherVars>>

\* ... and the apply, which replaces what is there.  The bootstrap token is
\* remembered for the summary.
CreateSecret ==
    /\ At("create")
    /\ LET x == SecretOrder[run.i]
           next == IF run.i < Len(SecretOrder) THEN [pc |-> "secrets", i |-> run.i + 1]
                                               ELSE [pc |-> "allowlist", i |-> 1]
       IN  /\ secrets' = [secrets EXCEPT ![x] = run.gen]
           /\ run' = [run EXCEPT !.pc = next.pc, !.i = next.i,
                          !.token = IF x = "token" THEN run.gen ELSE @]
    /\ UNCHANGED <<nodeVars, manifestVars, clusterVars, allowlist, tokenVars, otherVars>>

SeedAllowlist ==
    /\ At("allowlist")
    /\ IF run.ready
       THEN UNCHANGED allowlist
       ELSE EnsureRepoAllowlist(IF run.seed = "none" THEN "empty" ELSE run.seed)
    /\ run' = [run EXCEPT !.pc = "workloads", !.seed = "none", !.gen = 0, !.ready = FALSE]
    /\ UNCHANGED <<nodeVars, manifestVars, clusterVars, secrets, tokenVars, otherVars>>

\* waitReady: a workload has a ready replica once its manifest is applied and
\* what its pod needs is there.
WorkloadsReady ==
    /\ \A f \in Components : applied[f] # "none"
    /\ \A x \in SecretNames : secrets[x] # 0
    /\ CRDsEstablished
    /\ pgdata # 0
    /\ dashboards # {}

WaitWorkloads ==
    /\ At("workloads")
    /\ WorkloadsReady
    /\ Goto("wire")
    /\ UNCHANGED <<nodeVars, manifestVars, clusterVars, seedVars, tokenVars, otherVars>>

\* Mutant of WireRegistry: the ConfigMap of the build pods is created once.
WireRegistry_Published ==
    /\ At("wire")
    /\ registryCA # "none"
    /\ buildCA' = IF buildCA = "none" THEN registryCA ELSE buildCA
    /\ run' = [run EXCEPT !.pc = "ca", !.ca = registryCA]
    /\ UNCHANGED <<nodeVars, manifestVars, clusterVars, seedVars, tokenVars, origin, seeder,
                   given, budget>>

\* WireRegistry: read the CA and publish it to the build pods.
WireRegistry ==
    /\ At("wire")
    /\ registryCA # "none"
    /\ buildCA' = registryCA
    /\ run' = [run EXCEPT !.pc = "ca", !.ca = registryCA]
    /\ UNCHANGED <<nodeVars, manifestVars, clusterVars, seedVars, tokenVars, origin, seeder,
                   given, budget>>

\* Mutant of ShowToken: only the summary has the token.
ShowToken_OnlyAtTheEnd(pc) ==
    IF pc = "done" /\ run.token # 0 THEN run.token ELSE shown

\* printSummary, or printBootstrapTokenAfterFailure: the token of this run is
\* shown whichever way the run ends.
ShowToken(pc) ==
    IF run.token # 0 THEN run.token ELSE shown

End(pc) ==
    /\ run' = NoRun(pc)
    /\ shown' = ShowToken(pc)
    /\ UNCHANGED <<mint, dashboards, rolling, live>>

PrintSummary ==
    /\ At("summary")
    /\ End("done")
    /\ UNCHANGED <<nodeVars, manifestVars, clusterVars, seedVars, otherVars>>

InitStep ==
    \/ Bootstrap \/ LegacyAllowlist \/ PersistAllowlist \/ MigrateManifest \/ WriteCRDs
    \/ ApplyCRD \/ WaitCRDsEstablished \/ WriteManifests \/ WaitNamespace \/ LookSecret
    \/ CreateSecret \/ SeedAllowlist \/ WaitWorkloads \/ WireRegistry \/ PrintSummary

-----------------------------------------------------------------------------
(* What ends a run early *)

Running == run.pc \notin Resting

\* The preflight refuses the server: nothing on it was touched in this run.
PreflightRefuses ==
    /\ At("preflight")
    /\ ~PreflightOK
    /\ End("failed")
    /\ UNCHANGED <<nodeVars, manifestVars, clusterVars, seedVars, otherVars>>

\* A command fails or a wait times out, and the error is returned to the user.
Fail ==
    /\ Running
    /\ Spend("faults")
    /\ End("failed")
    /\ UNCHANGED <<nodeVars, manifestVars, clusterVars, seedVars, origin, buildCA, seeder, given>>

\* The process dies and prints nothing; the installer script may be half done.
Kill ==
    /\ Running
    /\ Spend("faults")
    /\ run' = NoRun(IF run.token # 0 THEN "killed" ELSE "failed")
    /\ \/ UNCHANGED server
       \/ /\ At("converge")
          /\ server[run.s].version # "new"
          /\ server' = HalfInstalled(run.s)
    /\ UNCHANGED <<disk, kernel, manifestVars, clusterVars, seedVars, tokenVars, origin,
                   buildCA, seeder, given>>

\* The Secret is created but the command's answer is lost: the run fails and
\* does not know of a token to show.
LoseReply ==
    /\ At("create")
    /\ Spend("faults")
    /\ secrets' = [secrets EXCEPT ![SecretOrder[run.i]] = run.gen]
    /\ End("failed")
    /\ UNCHANGED <<nodeVars, manifestVars, clusterVars, allowlist, origin, buildCA, seeder, given>>

-----------------------------------------------------------------------------
(* orkano bootstrap-token, once the platform is installed *)

\* storeTokenHash: the only step that may fail the command.
StoreTokenHash ==
    /\ IF origin = "chart" THEN seeder > Len(SecretOrder) ELSE At("done")
    /\ mint = 0
    /\ Spend("mints")
    /\ \E g \in Generated : mint' = g /\ secrets' = [secrets EXCEPT !["token"] = g]
    /\ live' = FALSE
    /\ UNCHANGED <<run, nodeVars, manifestVars, clusterVars, allowlist, shown, dashboards,
                   rolling, origin, buildCA, seeder, given>>

RestartDashboard ==
    /\ mint # 0
    /\ ~rolling
    /\ dashboards \notin {{}, {mint}}
    /\ rolling' = TRUE
    /\ UNCHANGED <<run, nodeVars, manifestVars, clusterVars, seedVars, shown, mint, dashboards,
                   live, otherVars>>

\* Mutant of RolloutComplete: one available pod is enough.
RolloutComplete_Available == mint \in dashboards

\* rolloutComplete: the new pod is available and no old pod is left.
RolloutComplete == dashboards = {mint}

\* The token is shown whether the restart was reported, timed out or failed.
PrintToken ==
    /\ mint # 0
    /\ shown' = mint
    /\ \/ RolloutComplete /\ live' = TRUE
       \/ live' = FALSE
    /\ mint' = 0
    /\ UNCHANGED <<run, nodeVars, manifestVars, clusterVars, seedVars, dashboards, rolling,
                   otherVars>>

KillMint ==
    /\ mint # 0
    /\ Spend("faults")
    /\ mint' = 0
    /\ UNCHANGED <<run, nodeVars, manifestVars, clusterVars, seedVars, shown, dashboards,
                   rolling, live, origin, buildCA, seeder, given>>

BootstrapToken == StoreTokenHash \/ RestartDashboard \/ PrintToken

-----------------------------------------------------------------------------
(* The Helm chart's seeding Jobs: every write is a bare create *)

SeedSecrets ==
    /\ seeder <= Len(SecretOrder)
    /\ \E g \in Generated : secrets' = [secrets EXCEPT ![SecretOrder[seeder]] = IF @ = 0 THEN g ELSE @]
    /\ seeder' = seeder + 1
    /\ UNCHANGED <<run, nodeVars, manifestVars, clusterVars, allowlist, tokenVars, origin,
                   buildCA, given, budget>>

SeedRepoAllowlist ==
    /\ seeder = Len(SecretOrder) + 1
    /\ EnsureRepoAllowlist(IF given = "none" THEN "empty" ELSE given)
    /\ seeder' = seeder + 1
    /\ UNCHANGED <<run, nodeVars, manifestVars, clusterVars, secrets, tokenVars, origin,
                   buildCA, given, budget>>

\* The Job's pod fails and is retried from the beginning, with new values.
SeederFails ==
    /\ seeder \in 2..(Len(SecretOrder) + 1)
    /\ Spend("faults")
    /\ seeder' = 1
    /\ UNCHANGED <<run, nodeVars, manifestVars, clusterVars, seedVars, tokenVars, origin,
                   buildCA, given>>

-----------------------------------------------------------------------------
(* The cluster *)

ServerUp(s) ==
    /\ ComeUp(s)
    /\ UNCHANGED <<manifestVars, clusterVars, seedVars, tokenVars, otherVars>>

\* k3s's AddOn controller applies a changed manifest.
ApplyManifest(f) ==
    /\ server[1].up
    /\ manifest[f] \notin {"none", applied[f]}
    /\ applied' = [applied EXCEPT ![f] = manifest[f]]
    /\ UNCHANGED <<run, nodeVars, manifestVars, crds, pgdata, registryCA, seedVars, tokenVars,
                   otherVars>>

\* A manifest that lists no objects prunes those its AddOn had, and with a CRD all
\* its custom resources.
ApplyCRDManifest(f) ==
    /\ server[1].up
    /\ manifest[f] \notin {"none", crds[f].content}
    /\ crds' = IF manifest[f] = "torn"
               THEN [crds EXCEPT ![f] = [content |-> "none", established |-> FALSE]]
               ELSE [crds EXCEPT ![f].content = manifest[f]]
    /\ UNCHANGED <<run, nodeVars, manifestVars, applied, pgdata, registryCA, seedVars, tokenVars,
                   otherVars>>

Establish(f) ==
    /\ crds[f].content # "none"
    /\ ~crds[f].established
    /\ crds' = [crds EXCEPT ![f].established = TRUE]
    /\ UNCHANGED <<run, nodeVars, manifestVars, applied, pgdata, registryCA, seedVars, tokenVars,
                   otherVars>>

\* Postgres initialises its data directory with the password it first starts with.
StartPostgres ==
    /\ applied["operator"] # "none"
    /\ secrets["superuser"] # 0
    /\ pgdata = 0
    /\ pgdata' = secrets["superuser"]
    /\ UNCHANGED <<run, nodeVars, manifestVars, applied, crds, registryCA, seedVars, tokenVars,
                   otherVars>>

\* A dashboard pod reads the token hash once, when it starts.  A restart brings
\* the new pod up before the old one goes.
StartDashboard ==
    /\ applied["operator"] # "none"
    /\ secrets["token"] # 0
    /\ dashboards = {} \/ (rolling /\ secrets["token"] \notin dashboards)
    /\ dashboards' = dashboards \cup {secrets["token"]}
    /\ UNCHANGED <<run, nodeVars, manifestVars, clusterVars, seedVars, shown, mint, rolling, live,
                   otherVars>>

StopOldDashboard ==
    /\ rolling
    /\ secrets["token"] \in dashboards
    /\ dashboards' = {secrets["token"]}
    /\ rolling' = FALSE
    /\ UNCHANGED <<run, nodeVars, manifestVars, clusterVars, seedVars, shown, mint, live, otherVars>>

\* cert-manager issues the registry's certificate, and may renew it under a new CA;
\* that matters while a run is handing out the CA it has read.
IssueCA ==
    /\ applied["operator"] # "none"
    /\ registryCA = "none"
    /\ registryCA' = "new"
    /\ UNCHANGED <<run, nodeVars, manifestVars, applied, crds, pgdata, seedVars, tokenVars,
                   otherVars>>

RenewCA ==
    /\ registryCA = "old"
    /\ run.ca # "none"
    /\ registryCA' = "new"
    /\ UNCHANGED <<run, nodeVars, manifestVars, applied, crds, pgdata, seedVars, tokenVars,
                   otherVars>>

\* Settings owns the allowlist once it exists.
EditAllowlist ==
    /\ dashboards # {}
    /\ allowlist \notin {"none", "edited"}
    /\ allowlist' = "edited"
    /\ UNCHANGED <<run, nodeVars, manifestVars, clusterVars, secrets, tokenVars, otherVars>>

Cluster ==
    \/ \E s \in Servers : ServerUp(s)
    \/ \E f \in Components : ApplyManifest(f)
    \/ \E f \in CRDs : ApplyCRDManifest(f)
    \/ \E f \in CRDs : Establish(f)
    \/ StartPostgres
    \/ StartDashboard
    \/ StopOldDashboard
    \/ IssueCA

Next ==
    \/ Begin
    \/ InitStep
    \/ PreflightRefuses
    \/ Fail
    \/ Kill
    \/ LoseReply
    \/ BootstrapToken
    \/ KillMint
    \/ SeedSecrets
    \/ SeedRepoAllowlist
    \/ SeederFails
    \/ Cluster
    \/ RenewCA
    \/ EditAllowlist

\* A run goes on until it ends, a run that did not complete is repeated, and the
\* cluster does its work; faults, edits and tokens are nobody's duty.
Fairness ==
    /\ WF_vars(InitStep \/ PreflightRefuses)
    /\ WF_vars(Begin)
    /\ WF_vars(PrintToken)
    /\ WF_vars(SeedSecrets \/ SeedRepoAllowlist)
    /\ \A s \in Servers : WF_vars(ServerUp(s))
    /\ \A f \in Components : WF_vars(ApplyManifest(f))
    /\ \A f \in CRDs : WF_vars(Establish(f))
    /\ WF_vars(StartPostgres)
    /\ WF_vars(StartDashboard)
    /\ WF_vars(IssueCA)

Spec == Init /\ [][Next]_vars /\ Fairness

-----------------------------------------------------------------------------
(* Properties *)

\* Every variable has its type.  In particular no manifest in the auto-deploy
\* directory is ever half written, whenever a run is cut short.
TypeOK ==
    /\ run \in Runs
    /\ disk \in [Servers -> [Files -> Contents]]
    /\ kernel \in [Servers -> Kernels]
    /\ server \in [Servers -> K3s]
    /\ origin \in {"fresh", "legacy", "chart"}
    /\ manifest \in [Manifests -> {"none", "old", "new"}]
    /\ legacyNames \subseteq Manifests
    /\ applied \in [Components -> {"none", "old", "new"}]
    /\ crds \in [CRDs -> CRDObject]
    /\ secrets \in [SecretNames -> Nat]
    /\ pgdata \in Nat
    /\ allowlist \in {"none", "empty", "legacy", "seed", "edited"}
    /\ registryCA \in Contents /\ buildCA \in Contents
    /\ shown \in Nat /\ mint \in Nat
    /\ dashboards \subseteq Nat
    /\ rolling \in BOOLEAN /\ live \in BOOLEAN
    /\ seeder \in 1..(Len(SecretOrder) + 2)
    /\ given \in Seeds
    /\ budget \in [faults : 0..MaxFaults, mints : 0..MaxMints]

\* This release's operator is never deployed before every CRD it maps is there in
\* this release's version and Established, however the writes of an interrupted
\* run and of its repetition interleave with k3s's own applies.
CRDsFirst ==
    applied["operator"] = "new" =>
        \A f \in CRDs : crds[f] = [content |-> "new", established |-> TRUE]

\* Re-running init never costs a custom resource: once a CRD is in the cluster,
\* no step takes it away.
CustomResourcesKept ==
    [][\A f \in CRDs : crds[f].content # "none" => crds'[f].content # "none"]_vars

\* The superuser Secret holds the password Postgres was initialised with, through
\* failed, repeated and interleaved seeding.
PasswordKept == pgdata # 0 => secrets["superuser"] = pgdata

\* An upgrade never loses the allowlist that the older receiver carries: until it
\* is stored in the ConfigMap the old receiver is in place, and what is stored is
\* that policy or a later edit of it.
LegacyPolicyKept ==
    origin = "legacy" /\ given = "none" =>
        /\ allowlist \in {"none", "legacy", "edited"}
        /\ allowlist = "none" => applied["receiver"] = "old"

\* Of the servers that have joined, init never has two away at once, which would
\* cost etcd its quorum; not even when an interrupted run is repeated.
QuorumKept ==
    \A s, t \in {u \in Servers : server[u].joined /\ ~server[u].up} : s = t

\* A run that knows of a bootstrap token it created shows it, whether it completes
\* or fails; only a killed run does not.
TokenShown ==
    [][run.token # 0 /\ run'.token = 0 /\ run'.pc # "killed" => shown' = run.token]_vars

\* A token is shown only if its hash is the one stored, and once bootstrap-token
\* has reported the dashboard restarted no dashboard pod accepts another one.
ShownTokenWorks ==
    [][/\ shown' # shown => shown' = secrets'["token"]
       /\ live' => dashboards' = {shown'}]_vars

\* When a run completes, every server's container runtime is configured with the
\* CA that the build pods were given.
SameCAEverywhere ==
    At("done") => \A s \in Servers : disk[s]["ca"] = buildCA

\* Repeating init after failures completes: nothing that a run waits for is
\* created only later in the run, and no interrupted step blocks the next attempt.
\* A chart install ends up seeded.
InitCompletes ==
    <>[](IF origin = "chart" THEN pgdata # 0 /\ allowlist # "none" ELSE At("done"))

\* After a completed run every server runs with what is on its disk.
Converged ==
    At("done") =>
        \A s \in Servers :
            /\ \A f \in AtStart : server[s].started[f] = disk[s][f]
            /\ kernel[s].profile = disk[s]["profile"]

\* The cluster stays sound however often init is cut short and repeated: types, in
\* particular no manifest is half written; the operator comes after its CRDs; etcd
\* keeps its quorum; a completed run has handed one CA to all.
ClusterSound == TypeOK /\ CRDsFirst /\ QuorumKept /\ SameCAEverywhere

\* Nothing a user has is lost to a repetition or an upgrade: the database password,
\* the older release's allow-list, the custom resources.
DataKept == [](PasswordKept /\ LegacyPolicyKept) /\ CustomResourcesKept

\* Repeating init completes, and the administrator gets a token that works.
InitDelivers == InitCompletes /\ TokenShown /\ ShownTokenWorks
=============================================================================
