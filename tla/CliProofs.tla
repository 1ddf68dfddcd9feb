----------------------------- MODULE CliProofs -----------------------------
(***************************************************************************)
(* What `orkano init` keeps, for every number of failed and repeated runs  *)
(* and of minted tokens.                                                   *)
(*                                                                         *)
(* The invariant says what a run has established by the step it is at, so  *)
(* that a run that is cut short anywhere leaves a state the next one may   *)
(* start from: the manifests of the CRDs are there before anything else is *)
(* deployed (Deployed), a server that is away comes after servers that no  *)
(* later run restarts (OneAway, Reached), the CA handed out is the one     *)
(* published (HandedOut), the policy is stored before the receiver is      *)
(* rolled (Stored), and a token that is remembered is the one stored       *)
(* (RunToken, MintStored).                                                 *)
(*                                                                         *)
(* There is one lemma for each kind of step; what an action does to the    *)
(* variables is worked out inside its own lemma.                           *)
(***************************************************************************)
EXTENDS Installer, TLAPS

NodeTypes ==
    /\ disk \in [Servers -> [Files -> Contents]]
    /\ kernel \in [Servers -> Kernels]
    /\ server \in [Servers -> K3s]

PlatformTypes ==
    /\ origin \in {"fresh", "legacy", "chart"}
    /\ manifest \in [Manifests -> {"none", "old", "new"}]
    /\ legacyNames \subseteq Manifests
    /\ applied \in [Components -> {"none", "old", "new"}]
    /\ crds \in [CRDs -> CRDObject]
    /\ secrets \in [SecretNames -> Nat]
    /\ pgdata \in Nat
    /\ allowlist \in {"none", "empty", "legacy", "seed", "edited"}
    /\ registryCA \in Contents /\ buildCA \in Contents
    /\ shown \in Nat /\ mint \in Nat
    /\ dashboards \subseteq Nat
    /\ rolling \in BOOLEAN /\ live \in BOOLEAN
    /\ seeder \in 1..5
    /\ given \in Seeds
    /\ budget \in [faults : 0..MaxFaults, mints : 0..MaxMints]

\* How long the list is that a step goes through.
Positions ==
    /\ run.pc \in {"crds", "mv-crd", "apply", "established", "rest", "mv-rest", "namespace"} => run.i <= 2
    /\ run.pc \in {"secrets", "create"} => run.i <= 3

\* A cluster from the chart is not for init, and only there are Jobs to seed.
ByOrigin ==
    /\ origin = "chart" => run.pc = "idle" /\ \A f \in Manifests : manifest[f] = "none"
    /\ origin # "chart" => seeder = 5

-----------------------------------------------------------------------------

CRDReady(f) == crds[f].content = "new" /\ crds[f].established /\ (origin # "chart" => manifest[f] = "new")

\* The steps after all CRD manifests are written.
Written == {"apply", "established", "rest", "mv-rest"}

Deployed ==
    /\ run.pc \in {"crds", "mv-crd"} => \A j \in 1..(run.i - 1) : manifest[CRDList[j]] = "new"
    /\ run.pc \in Written => \A f \in CRDs : manifest[f] = "new"
    /\ run.pc = "apply" => \A j \in 1..(run.i - 1) : crds[CRDList[j]].content = "new"
    /\ run.pc = "established" => \A f \in CRDs : crds[f].content = "new"
    /\ \/ applied["operator"] = "new"
       \/ manifest["operator"] = "new"
       \/ run.pc \in {"rest", "mv-rest"}
       => \A f \in CRDs : CRDReady(f)

-----------------------------------------------------------------------------

Away(s) == server[s].joined /\ ~server[s].up

\* Nothing that installOrConverge would restart the server for.
Settled(s) == server[s].version = "new" /\ server[s].active /\ disk[s]["config"] = "new"

\* One server at most is away, and init does not restart those before it.
OneAway ==
    /\ \A s \in Servers : server[s].joined => server[s].active
    /\ \A s, t \in Servers : Away(s) /\ Away(t) => s = t
    /\ \A t \in Servers : Away(t) => \A s \in Servers : s < t => Settled(s)

\* How far a run is with the servers.
Reached ==
    /\ run.pc \in NodeSteps => \A t \in Servers : t < run.s => Settled(t) /\ server[t].up
    /\ run.pc \in {"sysctl", "sysctl-p", "policy", "config", "converge"} => ~Away(run.s)
    /\ run.pc = "converge" => /\ disk[run.s]["config"] = "new"
                              /\ run.changed => \A t \in Servers : ~Away(t)
    /\ run.pc \in {"ready", "profile", "apparmor"} => Settled(run.s)
    /\ run.pc \in {"profile", "apparmor"} => server[run.s].up
    /\ run.pc \in PlatformSteps \cup WireSteps =>
          \A t \in Servers : Settled(t) /\ (server[t].up \/ (run.pc = "readyz" /\ t = run.s))

-----------------------------------------------------------------------------

HandedOut ==
    /\ run.pc \in PlatformSteps => run.s = 1
    /\ run.pc \in WireSteps => buildCA = run.ca
    /\ run.pc \in WireSteps => \A t \in Servers : t < run.s => disk[t]["ca"] = buildCA
    /\ run.pc \in {"registries", "restart", "readyz"} => disk[run.s]["ca"] = buildCA
    /\ run.pc \in {"summary", "done"} => \A t \in Servers : disk[t]["ca"] = buildCA

-----------------------------------------------------------------------------

\* The steps of a run in which the older release's policy may not be stored yet.
BeforeStored == Resting \cup NodeSteps \cup {"legacy", "persist"}

Stored ==
    origin = "legacy" /\ given = "none" =>
        /\ allowlist \in {"none", "legacy", "edited"}
        /\ applied["receiver"] # "none"
        /\ allowlist = "none" => /\ applied["receiver"] = "old"
                                 /\ manifest["receiver"] # "new"
                                 /\ run.pc \in BeforeStored
                                 /\ run.pc = "persist" => run.seed = "legacy"

-----------------------------------------------------------------------------

\* The steps of a run that has not created its token yet.
BeforeToken == Resting \cup NodeSteps \cup (PlatformSteps \ {"secrets", "create", "allowlist", "workloads", "wire"})

RunToken ==
    /\ run.pc \in {"secrets", "create"} => run.gen # 0 /\ (run.token # 0 => run.i = 3)
    /\ run.pc \in BeforeToken => run.token = 0
    /\ run.token # 0 => secrets["token"] = run.token

MintStored ==
    /\ mint # 0 => secrets["token"] = mint
    /\ live => shown # 0 /\ shown = secrets["token"] /\ dashboards = {shown}
    /\ mint # 0 \/ live => origin = "chart" \/ run.pc = "done"

\* Given that a Secret that is there is never taken for absent.
NotThere == run.pc = "create" => secrets[SecretOrder[run.i]] = 0

-----------------------------------------------------------------------------

NodeInv == NodeTypes /\ OneAway /\ Reached /\ HandedOut

PlatformInv == PlatformTypes /\ Positions /\ ByOrigin /\ Deployed /\ Stored /\ RunToken /\ MintStored

IInv == run \in Runs /\ NodeInv /\ PlatformInv

\* What the invariant gives for a step.
Good ==
    /\ IInv'
    /\ \A f \in CRDs : crds[f].content # "none" => crds'[f].content # "none"
    /\ run.token # 0 /\ run'.token = 0 /\ run'.pc # "killed" => shown' = run.token
    /\ shown' # shown => shown' = secrets'["token"]
    /\ MaxMisreads = 0 /\ NotThere /\ PasswordKept => NotThere' /\ PasswordKept'

Steps == Resting \cup NodeSteps \cup PlatformSteps \cup WireSteps

\* Everything but the position is remembered.
SameMemory ==
    /\ run'.s = run.s /\ run'.changed = run.changed /\ run'.seed = run.seed /\ run'.ready = run.ready
    /\ run'.ca = run.ca /\ run'.gen = run.gen /\ run'.token = run.token

-----------------------------------------------------------------------------
(* The lists and what a run remembers *)

LEMMA Lists ==
    /\ Len(CRDList) = 2 /\ CRDList[1] = "crd-apps" /\ CRDList[2] = "crd-domains"
    /\ Len(RestList) = 2 /\ RestList[1] = "operator" /\ RestList[2] = "receiver"
    /\ Len(SecretOrder) = 3
    /\ SecretOrder[1] = "superuser" /\ SecretOrder[2] = "token" /\ SecretOrder[3] = "oidc"
    /\ Len(CRDList \o RestList) = 4
    /\ \A i \in 1..4 : (CRDList \o RestList)[i] \in {"crd-apps", "crd-domains", "operator", "receiver"}
  BY DEF CRDList, RestList, SecretOrder

LEMMA Names ==
    /\ CRDs = {"crd-apps", "crd-domains"}
    /\ Components = {"operator", "receiver"}
    /\ Manifests = {"crd-apps", "crd-domains", "operator", "receiver"}
    /\ SecretNames = {"superuser", "token", "oidc"}
<1>1. DOMAIN CRDList = {1, 2} /\ DOMAIN RestList = {1, 2} /\ DOMAIN SecretOrder = {1, 2, 3}
  BY DEF CRDList, RestList, SecretOrder
<1>2. QED
  BY <1>1, Lists DEF CRDs, Components, Manifests, SecretNames, Range

LEMMA GotoFields ==
    ASSUME run \in Runs, NEW pc \in Steps, Goto(pc)
    PROVE  run' \in Runs /\ run'.pc = pc /\ run'.i = run.i /\ SameMemory
  BY DEF Runs, Steps, Goto, SameMemory

LEMMA AdvanceFields ==
    ASSUME run \in Runs, NEW list, Len(list) \in 1..4, NEW here \in Steps, NEW done \in Steps,
           Advance(list, here, done)
    PROVE  /\ run' \in Runs /\ SameMemory
           /\ run.i < Len(list) => run'.pc = here /\ run'.i = run.i + 1
           /\ ~(run.i < Len(list)) => run'.pc = done /\ run'.i = 1
<1>1. PICK n \in 1..4 : n = Len(list)
  OBVIOUS
<1>2. run.i \in 1..4 /\ (run.i < n => run.i + 1 \in 1..4)
  BY DEF Runs
<1>3. CASE run.i < n
  <2>1. run' = [run EXCEPT !.pc = here, !.i = run.i + 1]
    BY <1>1, <1>3 DEF Advance
  <2>2. QED
    BY <1>1, <1>2, <1>3, <2>1, Zenon DEF Runs, Steps, SameMemory
<1>4. CASE ~(run.i < n)
  <2>1. run' = [run EXCEPT !.pc = done, !.i = 1] /\ 1 \in 1..4
    BY <1>1, <1>4 DEF Advance
  <2>2. QED
    BY <1>1, <1>4, <2>1, Zenon DEF Runs, Steps, SameMemory
<1>5. QED
  BY <1>3, <1>4

LEMMA NoRunFields ==
    ASSUME NEW pc \in Steps
    PROVE  NoRun(pc) \in Runs /\ NoRun(pc).pc = pc /\ NoRun(pc).s = 1 /\ NoRun(pc).token = 0
<1>1. 1 \in Servers
  BY ServerCount DEF Servers
<1>2. QED
  BY <1>1 DEF NoRun, Runs, Steps, Contents

LEMMA StepNames == {"idle", "failed", "killed", "done", "preflight"} \subseteq Steps /\ PlatformSteps \subseteq Steps
  BY DEF Resting, NodeSteps, Steps

LEMMA InvInit == Init => IInv /\ NotThere /\ PasswordKept
<1> SUFFICES ASSUME Init PROVE IInv /\ NotThere /\ PasswordKept
  OBVIOUS
<1>1. origin \in {"fresh", "legacy", "chart"}
  BY DEF Init
<1>2. run \in Runs /\ run.pc = "idle" /\ run.token = 0 /\ run.s = 1
  BY NoRunFields, StepNames DEF Init
<1>3. NodeTypes /\ \A s \in Servers : server[s].joined => server[s].active /\ server[s].up
  <2> DEFINE was == IF origin = "fresh" THEN "none" ELSE "old"
             files == [f \in AtStart |-> "none"]
             read == [f \in AtStart |-> was]
  <2>1. was \in {"none", "old"}
    OBVIOUS
  <2>2. disk \in [Servers -> [Files -> Contents]]
    BY <2>1 DEF Init, InitServers, Contents
  <2>3. kernel \in [Servers -> Kernels]
    BY <2>1 DEF Init, InitServers, Contents, Kernels
  <2>4. FreshServer \in K3s /\ ~FreshServer.joined
    BY DEF FreshServer, K3s, Contents
  <2>5. Installed(was) \in K3s /\ Installed(was).active /\ Installed(was).up
    BY <2>1 DEF Installed, K3s, Contents
  <2>6. server = [s \in Servers |-> IF origin = "fresh" THEN FreshServer ELSE Installed(was)]
    BY DEF Init, InitServers
  <2> HIDE DEF was
  <2>7. QED
    BY <2>2, <2>3, <2>4, <2>5, <2>6, Zenon DEF NodeTypes
<1>4. /\ PlatformTypes /\ manifest = [f \in Manifests |-> "none"]
      /\ applied["operator"] = "new" => origin = "chart"
      /\ origin = "chart" => \A f \in CRDs : crds[f].content = "new" /\ crds[f].established
      /\ origin = "legacy" => applied["receiver"] = "old"
      /\ secrets["superuser"] = pgdata
  <2> DEFINE was == [fresh |-> "none", legacy |-> "old", chart |-> "new"][origin]
             g == IF origin = "legacy" THEN 1 ELSE 0
  <2>1. /\ was \in {"none", "old", "new"} /\ g \in {0, 1}
        /\ was = "new" <=> origin = "chart"
        /\ was = "old" <=> origin = "legacy"
    BY <1>1
  <2>2. /\ manifest = [f \in Manifests |-> "none"]
        /\ legacyNames \subseteq Manifests
        /\ applied = [f \in Components |-> was]
        /\ crds = [f \in CRDs |-> [content |-> was, established |-> origin # "fresh"]]
        /\ secrets = [x \in SecretNames |-> g]
        /\ pgdata = g
        /\ dashboards \in {{}, {g}}
        /\ registryCA \in {"none", "old"}
    BY DEF Init, InitPlatform
  <2>3. /\ buildCA \in Contents /\ registryCA \in Contents /\ shown \in Nat /\ mint \in Nat
        /\ allowlist = "none" /\ given \in Seeds /\ seeder \in 1..5
    <3>1. buildCA = "none" /\ shown = 0 /\ mint = 0 /\ allowlist = "none" /\ given \in Seeds
      BY Zenon DEF Init
    <3>2. seeder \in 1..5
      BY Lists DEF Init
    <3>3. QED
      BY <2>2, <3>1, <3>2 DEF Contents
  <2>4. budget \in [faults : 0..MaxFaults, mints : 0..MaxMints]
    BY InstallerConstants DEF Init
  <2>5. "operator" \in Components /\ "receiver" \in Components /\ "superuser" \in SecretNames
    BY Names
  <2> HIDE DEF was, g
  <2>6. dashboards \subseteq Nat
    BY <2>1, <2>2
  <2>7. crds \in [CRDs -> CRDObject]
    BY <2>1, <2>2 DEF CRDObject
  <2>8. rolling \in BOOLEAN /\ live \in BOOLEAN
    BY Zenon DEF Init
  <2>9. /\ manifest \in [Manifests -> {"none", "old", "new"}] /\ applied \in [Components -> {"none", "old", "new"}]
        /\ secrets \in [SecretNames -> Nat] /\ pgdata \in Nat
    BY <2>1, <2>2
  <2>10. PlatformTypes
    BY <1>1, <2>2, <2>3, <2>4, <2>6, <2>7, <2>8, <2>9, Zenon DEF PlatformTypes
  <2>11. QED
    BY <2>1, <2>2, <2>5, <2>10, Zenon
<1>5. ByOrigin
  BY <1>2, <1>4, Lists DEF Init, ByOrigin
<1>6. Positions /\ Reached /\ HandedOut /\ NotThere
  BY <1>2 DEF Positions, Reached, HandedOut, NotThere, NodeSteps, PlatformSteps, WireSteps
<1>7. OneAway
  BY <1>3, Zenon DEF OneAway, Away
<1>8. Deployed /\ Stored
  BY <1>2, <1>4, Names DEF Init, Deployed, Written, CRDReady, Stored, BeforeStored, Resting
<1>9. RunToken /\ MintStored
  BY <1>2 DEF Init, RunToken, MintStored
<1>10. QED
  BY <1>2, <1>3, <1>4, <1>5, <1>6, <1>7, <1>8, <1>9 DEF IInv, NodeInv, PlatformInv, PasswordKept

-----------------------------------------------------------------------------
(* What happens around a run *)

Around ==
    \/ BootstrapToken \/ KillMint \/ SeedSecrets \/ SeedRepoAllowlist \/ SeederFails
    \/ Cluster \/ RenewCA \/ EditAllowlist

LEMMA SpendTypes ==
    ASSUME PlatformTypes, Spend("faults") \/ Spend("mints")
    PROVE  budget' \in [faults : 0..MaxFaults, mints : 0..MaxMints]
<1>1. budget.faults \in 0..MaxFaults /\ budget.mints \in 0..MaxMints
  BY DEF PlatformTypes
<1>2. CASE Spend("faults")
  <2>1. budget' = [budget EXCEPT !["faults"] = budget["faults"] - 1] /\ budget.faults > 0
    BY <1>2 DEF Spend
  <2>2. budget.faults - 1 \in 0..MaxFaults
    BY <1>1, <2>1, InstallerConstants
  <2>3. QED
    BY <2>1, <2>2 DEF PlatformTypes
<1>3. CASE Spend("mints")
  <2>1. budget' = [budget EXCEPT !["mints"] = budget["mints"] - 1] /\ budget.mints > 0
    BY <1>3 DEF Spend
  <2>2. budget.mints - 1 \in 0..MaxMints
    BY <1>1, <2>1, InstallerConstants
  <2>3. QED
    BY <2>1, <2>2 DEF PlatformTypes
<1>4. QED
  BY <1>2, <1>3

LEMMA AroundTypes ==
    ASSUME PlatformTypes, Around
    PROVE  PlatformTypes'
<1> USE DEF PlatformTypes, manifestVars, clusterVars, seedVars, tokenVars, otherVars
<1>1. CASE \E s \in Servers : ServerUp(s)
  BY <1>1, Zenon DEF ServerUp
<1>2. CASE \E f \in Components : ApplyManifest(f)
  <2>1. PICK f \in Components : ApplyManifest(f)
    BY <1>2
  <2>2. applied' \in [Components -> {"none", "old", "new"}]
    BY <2>1, Names DEF ApplyManifest
  <2>3. QED
    BY <2>1, <2>2, Zenon DEF ApplyManifest
<1>3. CASE \E f \in CRDs : ApplyCRDManifest(f) \/ Establish(f)
  <2>1. PICK f \in CRDs : ApplyCRDManifest(f) \/ Establish(f)
    BY <1>3
  <2>2. manifest[f] \in {"none", "old", "new"}
    BY Names
  <2>3. crds' \in [CRDs -> CRDObject]
    <3>1. CASE ApplyCRDManifest(f)
      BY <2>2, <3>1 DEF ApplyCRDManifest, CRDObject
    <3>2. CASE Establish(f)
      BY <3>2, Zenon DEF Establish, CRDObject
    <3>3. QED
      BY <2>1, <3>1, <3>2
  <2>4. QED
    BY <2>1, <2>3, Zenon DEF ApplyCRDManifest, Establish
<1>4. CASE StartPostgres \/ StartDashboard \/ StopOldDashboard
  <2>1. secrets["token"] \in Nat /\ secrets["superuser"] \in Nat
    BY Names
  <2>2. dashboards' \subseteq Nat
    BY <1>4, <2>1, Zenon DEF StartPostgres, StartDashboard, StopOldDashboard
  <2>3. QED
    BY <1>4, <2>1, <2>2, Zenon DEF StartPostgres, StartDashboard, StopOldDashboard
<1>5. CASE IssueCA \/ RenewCA \/ EditAllowlist
  BY <1>5, Zenon DEF IssueCA, RenewCA, EditAllowlist, Contents
<1>6. CASE RestartDashboard
  BY <1>6, Zenon DEF RestartDashboard
<1>7. CASE PrintToken
  BY <1>7, Zenon DEF PrintToken
<1>8. CASE StoreTokenHash
  <2>1. PICK g \in Generated : mint' = g /\ secrets' = [secrets EXCEPT !["token"] = g]
    BY <1>8, Zenon DEF StoreTokenHash
  <2>2. g \in Nat
    BY DEF Generated
  <2>3. secrets' \in [SecretNames -> Nat] /\ mint' \in Nat
    BY <2>1, <2>2, Zenon
  <2>4. budget' \in [faults : 0..MaxFaults, mints : 0..MaxMints]
    BY <1>8, SpendTypes, Zenon DEF StoreTokenHash
  <2>5. QED
    BY <1>8, <2>3, <2>4, Zenon DEF StoreTokenHash
<1>9. CASE KillMint \/ SeederFails
  <2>1. budget' \in [faults : 0..MaxFaults, mints : 0..MaxMints]
    BY <1>9, SpendTypes, Zenon DEF KillMint, SeederFails
  <2>2. QED
    <3>1. CASE KillMint
      BY <2>1, <3>1, Zenon DEF KillMint
    <3>2. CASE SeederFails
      BY <2>1, <3>2 DEF SeederFails
    <3>3. QED
      BY <1>9, <3>1, <3>2
<1>10. CASE SeedSecrets
  <2>1. seeder' \in 1..5
    BY <1>10, Lists DEF SeedSecrets
  <2>2. PICK g \in Generated : secrets' = [secrets EXCEPT ![SecretOrder[seeder]] = IF @ = 0 THEN g ELSE @]
    BY <1>10, Zenon DEF SeedSecrets
  <2>3. g \in Nat
    BY DEF Generated
  <2>4. secrets' \in [SecretNames -> Nat]
    BY <2>2, <2>3, Zenon
  <2>5. QED
    BY <1>10, <2>1, <2>4, Zenon DEF SeedSecrets
<1>11. CASE SeedRepoAllowlist
  <2>1. seeder' \in 1..5
    BY <1>11, Lists DEF SeedRepoAllowlist
  <2>2. allowlist' \in {"none", "empty", "legacy", "seed", "edited"}
    BY <1>11, InstallerConstants DEF SeedRepoAllowlist, EnsureRepoAllowlist
  <2>3. QED
    BY <1>11, <2>1, <2>2, Zenon DEF SeedRepoAllowlist
<1>12. QED
  BY <1>1, <1>2, <1>3, <1>4, <1>5, <1>8, <1>9, <1>10, <1>11, <1>6, <1>7, Zenon DEF Around, BootstrapToken, Cluster

\* It leaves the run and the manifests alone and takes nothing back: k3s applies
\* what is there, and a CRD stays Established.
LEMMA AroundFrame ==
    ASSUME PlatformTypes, Around
    PROVE  /\ UNCHANGED <<run, disk, kernel, manifestVars, origin, buildCA, given>>
           /\ \A f \in Components : \/ applied'[f] = applied[f]
                                    \/ manifest[f] # "none" /\ applied'[f] = manifest[f]
           /\ \A f \in CRDs : /\ \/ crds'[f].content = crds[f].content
                                 \/ manifest[f] # "none" /\ crds'[f].content = manifest[f]
                              /\ crds[f].established => crds'[f].established
<1>1. CASE \E f \in Components : ApplyManifest(f)
  BY <1>1 DEF ApplyManifest, PlatformTypes, nodeVars, otherVars
<1>2. CASE \E f \in CRDs : ApplyCRDManifest(f)
  <2>1. PICK f \in CRDs : ApplyCRDManifest(f)
    BY <1>2
  <2>2. manifest[f] \in {"none", "old", "new"}
    BY Names DEF PlatformTypes
  <2>3. QED
    BY <2>1, <2>2 DEF ApplyCRDManifest, PlatformTypes, CRDObject, nodeVars, otherVars
<1>3. CASE \E f \in CRDs : Establish(f)
  BY <1>3 DEF Establish, PlatformTypes, CRDObject, nodeVars, otherVars
<1>4. CASE \E s \in Servers : ServerUp(s)
  BY <1>4, Zenon DEF ServerUp, ComeUp, clusterVars, otherVars
<1>5. CASE BootstrapToken \/ KillMint \/ SeedSecrets \/ SeedRepoAllowlist \/ SeederFails
  BY <1>5, Zenon DEF BootstrapToken, StoreTokenHash, RestartDashboard, PrintToken, KillMint, SeedSecrets,
      SeedRepoAllowlist, SeederFails, nodeVars, clusterVars, otherVars
<1>6. CASE StartPostgres \/ StartDashboard \/ StopOldDashboard \/ IssueCA \/ RenewCA \/ EditAllowlist
  BY <1>6, Zenon DEF StartPostgres, StartDashboard, StopOldDashboard, IssueCA, RenewCA, EditAllowlist, nodeVars,
      clusterVars, otherVars
<1>7. QED
  BY <1>1, <1>2, <1>3, <1>4, <1>5, <1>6, Zenon DEF Around, Cluster

\* Of the servers, one may come up.
LEMMA AroundNodes ==
    ASSUME run \in Runs, PlatformTypes, NodeInv, Around
    PROVE  NodeInv'
<1>1. UNCHANGED <<run, disk, kernel, buildCA>>
  BY AroundFrame
<1>2. CASE \E s \in Servers : ServerUp(s)
  <2>1. PICK s \in Servers : ComeUp(s)
    BY <1>2 DEF ServerUp
  <2> DEFINE v == server[s]
             x == [v EXCEPT !.up = TRUE, !.joined = TRUE]
  <2>2. v \in K3s
    BY DEF NodeInv, NodeTypes
  <2>3. x \in K3s /\ x.up /\ x.joined /\ x.version = v.version /\ x.active = v.active
    BY <2>2, Zenon DEF K3s
  <2>4. server' = [server EXCEPT ![s] = x] /\ server[s].active
    BY <2>1, Zenon DEF ComeUp, NodeInv, NodeTypes
  <2> HIDE DEF x
  <2>5. NodeTypes' /\ \A t \in Servers \ {s} : server'[t] = server[t]
    BY <1>1, <2>3, <2>4, Zenon DEF NodeInv, NodeTypes
  <2>6. server'[s].up /\ server'[s].active /\ server'[s].version = server[s].version
    BY <2>3, <2>4, Zenon DEF NodeInv, NodeTypes
  <2>7. \A t \in Servers : (Away(t)' => Away(t)) /\ (Settled(t)' <=> Settled(t)) /\ (server[t].up => server'[t].up)
    BY <1>1, <2>4, <2>5, <2>6, Zenon DEF Away, Settled
  <2>8. OneAway'
    BY <2>5, <2>6, <2>7, Zenon DEF NodeInv, OneAway
  <2>9. Reached' /\ HandedOut'
    <3>1. run.s \in Servers
      BY DEF Runs
    <3>2. QED
      BY <1>1, <2>7, <3>1, Zenon DEF NodeInv, Reached, HandedOut
  <2>10. QED
    BY <2>5, <2>8, <2>9 DEF NodeInv
<1>3. CASE ~\E s \in Servers : ServerUp(s)
  <2>1. server' = server
    BY <1>3, Zenon DEF Around, BootstrapToken, StoreTokenHash, RestartDashboard, PrintToken, KillMint, SeedSecrets,
        SeedRepoAllowlist, SeederFails, Cluster, ApplyManifest, ApplyCRDManifest, Establish, StartPostgres,
        StartDashboard, StopOldDashboard, IssueCA, RenewCA, EditAllowlist, nodeVars
  <2>2. QED
    BY <1>1, <2>1, Zenon DEF NodeInv, NodeTypes, OneAway, Away, Settled, Reached, HandedOut
<1>4. QED
  BY <1>2, <1>3

\* No Secret that is there is changed, but for the token's when another one is
\* minted; and only those.
LEMMA AroundSecrets ==
    ASSUME PlatformTypes, Around
    PROVE  /\ \A x \in SecretNames : \/ secrets'[x] = secrets[x]
                                     \/ secrets[x] = 0 /\ SeedSecrets
                                     \/ x = "token" /\ StoreTokenHash
           /\ secrets' = secrets \/ SeedSecrets \/ StoreTokenHash
<1>1. CASE StoreTokenHash
  BY <1>1, Zenon DEF StoreTokenHash, PlatformTypes
<1>2. CASE SeedSecrets
  BY <1>2, Zenon DEF SeedSecrets, PlatformTypes
<1>3. CASE ~StoreTokenHash /\ ~SeedSecrets
  <2>1. secrets' = secrets
    BY <1>3, Zenon DEF Around, BootstrapToken, RestartDashboard, PrintToken, KillMint,
        SeedRepoAllowlist, SeederFails, Cluster, ServerUp, ApplyManifest, ApplyCRDManifest, Establish, StartPostgres,
        StartDashboard, StopOldDashboard, IssueCA, RenewCA, EditAllowlist, seedVars
  <2>2. QED
    BY <2>1
<1>4. QED
  BY <1>1, <1>2, <1>3

LEMMA AroundToken ==
    ASSUME PlatformTypes, ByOrigin, RunToken, MintStored, Around
    PROVE  RunToken' /\ MintStored' /\ (shown' # shown => shown' = secrets'["token"])
<1>1. UNCHANGED <<run, origin>>
  BY AroundFrame
<1>2. CASE StoreTokenHash
  <2>1. /\ mint' # 0 /\ secrets'["token"] = mint' /\ ~live' /\ shown' = shown
        /\ origin = "chart" \/ run.pc = "done"
    BY <1>2, Names DEF StoreTokenHash, Generated, At, PlatformTypes
  <2>2. run.token = 0
    BY <2>1, Zenon DEF ByOrigin, RunToken, BeforeToken, Resting
  <2>3. QED
    BY <1>1, <2>1, <2>2 DEF RunToken, MintStored
<1>3. CASE ~StoreTokenHash
  <2>1. secrets["token"] # 0 => secrets'["token"] = secrets["token"]
    BY <1>3, AroundSecrets, Names
  <2>2. RunToken'
    BY <1>1, <2>1 DEF RunToken
  <2>3. CASE PrintToken
    <3>1. /\ shown' = mint /\ mint' = 0 /\ mint # 0 /\ dashboards' = dashboards
          /\ live' => dashboards = {mint}
      BY <2>3 DEF PrintToken, RolloutComplete
    <3>2. QED
      BY <1>1, <2>1, <2>2, <3>1 DEF MintStored
  <2>4. CASE StartDashboard \/ StopOldDashboard
    <3>1. /\ UNCHANGED <<shown, mint, live>>
          /\ \/ dashboards' = dashboards \cup {secrets["token"]}
             \/ dashboards' = {secrets["token"]}
      BY <2>4, Zenon DEF StartDashboard, StopOldDashboard
    <3>2. live => dashboards' = {shown}
      BY <3>1, Zenon DEF MintStored
    <3>3. QED
      BY <1>1, <2>1, <2>2, <3>1, <3>2 DEF MintStored
  <2>5. CASE ~PrintToken /\ ~StartDashboard /\ ~StopOldDashboard
    <3>1. UNCHANGED <<shown, live, dashboards>> /\ (mint' = mint \/ mint' = 0)
      BY <1>3, <2>5, Zenon DEF Around, BootstrapToken, RestartDashboard, KillMint, SeedSecrets,
          SeedRepoAllowlist, SeederFails, Cluster, ServerUp, ApplyManifest, ApplyCRDManifest, Establish, StartPostgres,
          IssueCA, RenewCA, EditAllowlist, tokenVars
    <3>2. QED
      BY <1>1, <2>1, <2>2, <3>1 DEF MintStored
  <2>6. QED
    BY <2>3, <2>4, <2>5
<1>4. QED
  BY <1>2, <1>3

LEMMA AroundGood ==
    ASSUME IInv, Around
    PROVE  Good
<1> PlatformTypes /\ Positions /\ ByOrigin /\ Deployed /\ Stored /\ NodeInv /\ run \in Runs
  BY Zenon DEF IInv, PlatformInv
<1>1. UNCHANGED <<run, manifest, origin, given>>
  BY AroundFrame DEF manifestVars
<1>2. ByOrigin' /\ (allowlist' = allowlist \/ (allowlist # "none" /\ allowlist' = "edited") \/ origin = "chart")
  <2>1. origin # "chart" => seeder' = seeder
    BY Lists DEF Around, BootstrapToken, StoreTokenHash, RestartDashboard, PrintToken, KillMint, SeedSecrets,
        SeedRepoAllowlist, SeederFails, Cluster, ServerUp, ApplyManifest, ApplyCRDManifest, Establish, StartPostgres,
        StartDashboard, StopOldDashboard, IssueCA, RenewCA, EditAllowlist, otherVars, ByOrigin
  <2>2. allowlist' = allowlist \/ (allowlist # "none" /\ allowlist' = "edited") \/ origin = "chart"
    BY Lists DEF Around, BootstrapToken, StoreTokenHash, RestartDashboard, PrintToken, KillMint, SeedSecrets,
        SeedRepoAllowlist, SeederFails, Cluster, ServerUp, ApplyManifest, ApplyCRDManifest, Establish, StartPostgres,
        StartDashboard, StopOldDashboard, IssueCA, RenewCA, EditAllowlist, seedVars, ByOrigin
  <2>3. QED
    BY <1>1, <2>1, <2>2, Zenon DEF ByOrigin
<1>3. /\ \A f \in CRDs : crds[f].content # "none" => crds'[f].content # "none"
      /\ \A f \in CRDs : manifest[f] \in {"none", "new"} /\ crds[f].content = "new" => crds'[f].content = "new"
      /\ \A f \in CRDs : crds[f].established => crds'[f].established
      /\ \A f \in Components : applied'[f] = applied[f] \/ (manifest[f] # "none" /\ applied'[f] = manifest[f])
  BY AroundFrame
<1>4. Deployed'
  <2>1. applied'["operator"] = "new" => applied["operator"] = "new" \/ manifest["operator"] = "new"
    BY <1>3, Names
  <2>2. \A f \in CRDs : CRDReady(f) => CRDReady(f)'
    BY <1>1, <1>3, Names DEF CRDReady, ByOrigin
  <2>3. run.pc \in Written => CRDList[1] \in CRDs /\ CRDList[2] \in CRDs /\ run.i \in 1..2
    BY Lists, Names DEF Written, Positions, Runs
  <2>4. QED
    BY <1>1, <1>3, <2>1, <2>2, <2>3 DEF Deployed, Written
<1>5. Stored'
  <2>1. manifest["receiver"] \in {"none", "old", "new"} /\ "receiver" \in Components
    BY Names DEF PlatformTypes
  <2>2. QED
    BY <1>1, <1>2, <1>3, <2>1 DEF Stored
<1>6. MaxMisreads = 0 /\ NotThere /\ PasswordKept => NotThere' /\ PasswordKept'
  <2>1. secrets'["superuser"] = secrets["superuser"] \/ secrets["superuser"] = 0
    BY AroundSecrets, Names
  <2>2. pgdata' = pgdata \/ (pgdata' = secrets["superuser"] /\ secrets' = secrets)
    BY Zenon DEF Around, BootstrapToken, StoreTokenHash, RestartDashboard, PrintToken, KillMint, SeedSecrets,
        SeedRepoAllowlist, SeederFails, Cluster, ServerUp, ApplyManifest, ApplyCRDManifest, Establish, StartPostgres,
        StartDashboard, StopOldDashboard, IssueCA, RenewCA, EditAllowlist, clusterVars, seedVars
  <2>3. run.pc = "create" => secrets' = secrets
    <3>1. ASSUME run.pc = "create" PROVE ~StoreTokenHash /\ ~SeedSecrets
      BY <3>1, Lists DEF StoreTokenHash, SeedSecrets, At, ByOrigin
    <3>2. QED
      BY <3>1, AroundSecrets
  <2>4. QED
    BY <1>1, <2>1, <2>2, <2>3 DEF NotThere, PasswordKept
<1>7. PlatformTypes' /\ NodeInv' /\ run' \in Runs /\ Positions'
  BY <1>1, AroundTypes, AroundNodes DEF Positions
<1>8. RunToken' /\ MintStored' /\ (shown' # shown => shown' = secrets'["token"])
  BY AroundToken, Zenon DEF IInv, PlatformInv
<1>9. QED
  BY <1>1, <1>2, <1>3, <1>4, <1>5, <1>6, <1>7, <1>8, Zenon DEF Good, IInv, PlatformInv

-----------------------------------------------------------------------------
(* How a run ends and begins *)

Ending == PrintSummary \/ PreflightRefuses \/ Fail \/ LoseReply

\* What is common to the end and the beginning of a run.
LEMMA OverGood ==
    ASSUME IInv, run' \in Runs, run'.pc \in {"failed", "done", "killed", "preflight"}, run'.token = 0,
           run.pc # "done", run.pc # "idle" \/ origin # "chart",
           UNCHANGED <<manifestVars, clusterVars, allowlist, mint, dashboards, rolling, live, origin, buildCA,
                       seeder, given>>,
           NodeInv', shown' \in Nat, budget' \in [faults : 0..MaxFaults, mints : 0..MaxMints],
           \/ secrets' = secrets
           \/ run.pc = "create" /\ secrets' = [secrets EXCEPT ![SecretOrder[run.i]] = run.gen],
           run.token # 0 /\ run'.pc # "killed" => shown' = run.token,
           shown' # shown => shown' = run.token /\ run.token # 0
    PROVE  Good
<1> USE DEF manifestVars, clusterVars
<1> PlatformTypes /\ Positions /\ ByOrigin /\ Deployed /\ Stored /\ RunToken /\ MintStored /\ run \in Runs
  BY Zenon DEF IInv, PlatformInv
<1>1. origin # "chart"
  BY DEF ByOrigin
<1>2. ByOrigin' /\ Positions' /\ Stored' /\ RunToken' /\ NotThere'
  BY <1>1, Zenon DEF ByOrigin, Positions, Stored, BeforeStored, Resting, NodeSteps, RunToken, NotThere
<1>3. MintStored'
  BY <1>1, Zenon DEF MintStored
<1>4. Deployed'
  BY Zenon DEF Deployed, Written, CRDReady
<1>5. /\ secrets' \in [SecretNames -> Nat]
      /\ run.token # 0 => secrets'["token"] = secrets["token"]
      /\ NotThere => secrets'["superuser"] = secrets["superuser"] \/ secrets["superuser"] = 0
  <2>1. CASE secrets' = secrets
    BY <2>1, Zenon DEF PlatformTypes
  <2>2. CASE run.pc = "create" /\ secrets' = [secrets EXCEPT ![SecretOrder[run.i]] = run.gen]
    <3>1. run.i \in 1..3 /\ run.gen \in Nat
      BY <2>2 DEF Positions, Runs
    <3>2. QED
      BY <2>2, <3>1, Lists, Names DEF PlatformTypes, RunToken, NotThere
  <2>3. QED
    BY <2>1, <2>2
<1>6. PlatformTypes'
  BY <1>5, Zenon DEF PlatformTypes
<1>7. NotThere /\ PasswordKept => PasswordKept'
  BY <1>5 DEF PasswordKept
<1>8. shown' # shown => shown' = secrets'["token"]
  BY <1>5 DEF RunToken
<1>9. QED
  BY <1>2, <1>3, <1>4, <1>6, <1>7, <1>8, Zenon DEF Good, IInv, PlatformInv

LEMMA EndingGood ==
    ASSUME IInv, Ending
    PROVE  Good
<1>1. PICK pc \in {"failed", "done"} : End(pc) /\ (pc = "done" => run.pc = "summary")
  BY Zenon DEF Ending, PrintSummary, PreflightRefuses, Fail, LoseReply, At
<1>2. /\ run' \in Runs /\ run'.pc = pc /\ run'.token = 0
      /\ shown' = IF run.token # 0 THEN run.token ELSE shown
      /\ UNCHANGED <<mint, dashboards, rolling, live>>
  BY <1>1, NoRunFields, StepNames DEF End, ShowToken
<1>3. shown' \in Nat
  BY <1>2 DEF IInv, PlatformInv, PlatformTypes, Runs
<1>4. /\ run.pc # "done" /\ run.pc # "idle"
      /\ UNCHANGED <<nodeVars, manifestVars, clusterVars, allowlist, origin, buildCA, seeder, given>>
      /\ \/ secrets' = secrets
         \/ run.pc = "create" /\ secrets' = [secrets EXCEPT ![SecretOrder[run.i]] = run.gen]
  BY DEF Ending, PrintSummary, PreflightRefuses, Fail, LoseReply, Running, Resting, At, seedVars, otherVars
<1>5. budget' \in [faults : 0..MaxFaults, mints : 0..MaxMints]
  BY SpendTypes, Zenon DEF Ending, PrintSummary, PreflightRefuses, Fail, LoseReply, otherVars, IInv, PlatformInv,
      PlatformTypes
<1>6. NodeInv'
  BY <1>1, <1>2, <1>4, Zenon DEF IInv, NodeInv, NodeTypes, OneAway, Reached, HandedOut, Away, Settled, nodeVars,
      NodeSteps, PlatformSteps, WireSteps
<1>7. QED
  BY <1>2, <1>3, <1>4, <1>5, <1>6, OverGood, Zenon

LEMMA KillGood ==
    ASSUME IInv, Kill
    PROVE  Good
<1>1. run' \in Runs /\ run'.token = 0 /\ run'.pc = IF run.token # 0 THEN "killed" ELSE "failed"
  BY NoRunFields, StepNames DEF Kill
<1>2. /\ server' \in [Servers -> K3s]
      /\ \A s \in Servers : /\ server'[s].joined = server[s].joined /\ server'[s].up = server[s].up
                            /\ server'[s].active = server[s].active
                            /\ server'[s].version = server[s].version \/ server'[s].version = "new"
  <2>1. server \in [Servers -> K3s] /\ run.s \in Servers
    BY DEF IInv, NodeInv, NodeTypes, Runs
  <2>2. CASE UNCHANGED server
    BY <2>1, <2>2
  <2>3. CASE server' = HalfInstalled(run.s)
    BY <2>1, <2>3 DEF HalfInstalled, K3s
  <2>4. QED
    BY <2>2, <2>3 DEF Kill
<1>3. UNCHANGED <<disk, kernel, manifestVars, clusterVars, seedVars, tokenVars, origin, buildCA, seeder, given>>
  BY DEF Kill
<1>4. NodeInv'
  <2>1. OneAway'
    BY <1>2, <1>3, Zenon DEF IInv, NodeInv, OneAway, Away, Settled
  <2>2. Reached' /\ HandedOut'
    BY <1>1, Zenon DEF Reached, HandedOut, NodeSteps, PlatformSteps, WireSteps
  <2>3. QED
    BY <1>2, <1>3, <2>1, <2>2, Zenon DEF IInv, NodeInv, NodeTypes
<1>5. run.pc # "done" /\ run.pc # "idle"
  BY DEF Kill, Running, Resting
<1>6. shown' \in Nat /\ budget' \in [faults : 0..MaxFaults, mints : 0..MaxMints]
  BY <1>3, SpendTypes, Zenon DEF Kill, IInv, PlatformInv, PlatformTypes, tokenVars
<1>7. QED
  BY <1>1, <1>3, <1>4, <1>5, <1>6, OverGood, Zenon DEF seedVars, tokenVars

LEMMA BeginGood ==
    ASSUME IInv, Begin
    PROVE  Good
<1>1. run' \in Runs /\ run'.token = 0 /\ run'.pc = "preflight" /\ run'.s = 1
  BY NoRunFields, StepNames DEF Begin
<1>2. /\ run.pc \in {"idle", "failed", "killed"} /\ origin # "chart"
      /\ UNCHANGED <<nodeVars, manifestVars, clusterVars, seedVars, tokenVars, otherVars>>
  BY Zenon DEF Begin
<1>3. run.token = 0
  BY <1>2, Zenon DEF IInv, PlatformInv, RunToken, BeforeToken, Resting
<1>4. NodeInv'
  <2>1. Reached' /\ HandedOut'
    <3>1. \A t \in Servers : ~(t < 1)
      BY ServerCount DEF Servers
    <3>2. QED
      BY <1>1, <3>1, Zenon DEF Reached, HandedOut, NodeSteps, PlatformSteps, WireSteps
  <2>2. QED
    BY <1>2, <2>1, Zenon DEF IInv, NodeInv, NodeTypes, OneAway, Away, Settled, nodeVars
<1>5. shown' \in Nat /\ budget' \in [faults : 0..MaxFaults, mints : 0..MaxMints]
  BY <1>2, Zenon DEF IInv, PlatformInv, PlatformTypes, tokenVars, otherVars
<1>6. run.pc # "done"
  BY <1>2
<1>7. QED
  BY <1>1, <1>2, <1>3, <1>4, <1>5, <1>6, OverGood, Zenon DEF seedVars, tokenVars, otherVars

-----------------------------------------------------------------------------
(* The platform's steps *)

\* What is common to them.
LEMMA PlatformGood ==
    ASSUME IInv, run' \in Runs, PlatformTypes', Positions', Deployed', Stored', RunToken',
           run.pc \in PlatformSteps, run'.s = run.s,
           \/ run'.pc \in PlatformSteps /\ buildCA' = buildCA
           \/ run'.pc = "ca" /\ run'.ca = buildCA',
           UNCHANGED <<nodeVars, tokenVars, origin, seeder>>,
           run.token # 0 => run'.token # 0,
           \A f \in CRDs : crds[f].content # "none" => crds'[f].content # "none",
           MaxMisreads = 0 /\ NotThere /\ PasswordKept => NotThere' /\ PasswordKept'
    PROVE  Good
<1> ByOrigin /\ MintStored /\ NodeInv /\ run \in Runs
  BY Zenon DEF IInv, PlatformInv
<1>1. run.pc # "idle" /\ run.pc # "done"
  BY DEF PlatformSteps
<1>2. ByOrigin' /\ MintStored'
  BY <1>1, Zenon DEF ByOrigin, MintStored, tokenVars
<1>3. NodeTypes' /\ OneAway' /\ \A t \in Servers : Settled(t)' /\ server'[t].up
  BY Zenon DEF NodeInv, NodeTypes, OneAway, Away, Settled, Reached, nodeVars, PlatformSteps
<1>4. Reached'
  BY <1>3, Zenon DEF Reached, NodeSteps, WireSteps, PlatformSteps
<1>5. HandedOut'
  <2>1. \A t \in Servers : ~(t < 1)
    BY ServerCount DEF Servers
  <2>2. run.s = 1
    BY Zenon DEF NodeInv, HandedOut
  <2>3. QED
    BY <2>1, <2>2, Zenon DEF HandedOut, PlatformSteps, WireSteps
<1>6. QED
  BY <1>2, <1>3, <1>4, <1>5, Zenon DEF Good, IInv, PlatformInv, NodeInv, tokenVars

\* Those that deploy nothing and create no Secret.
LEMMA QuietGood ==
    ASSUME IInv, run' \in Runs, run'.s = run.s, run'.token = run.token,
           \/ run.pc \in {"legacy", "persist"} /\ run'.pc \in {"persist", "migrate"}
           \/ run.pc \in {"allowlist", "workloads"} /\ run'.pc \in {"workloads", "wire"},
           UNCHANGED <<nodeVars, manifestVars, clusterVars, secrets, tokenVars, otherVars>>,
           allowlist' \in {"none", "empty", "legacy", "seed", "edited"}, Stored'
    PROVE  Good
<1> PlatformTypes /\ Deployed /\ RunToken
  BY Zenon DEF IInv, PlatformInv
<1>1. PlatformTypes'
  BY Zenon DEF PlatformTypes, manifestVars, clusterVars, tokenVars, otherVars
<1>2. Positions' /\ Deployed' /\ NotThere' /\ (PasswordKept => PasswordKept')
  BY Zenon DEF Positions, Deployed, Written, CRDReady, NotThere, PasswordKept, manifestVars, clusterVars, otherVars
<1>3. RunToken'
  BY DEF RunToken, BeforeToken, Resting, NodeSteps, PlatformSteps
<1>4. run.pc \in PlatformSteps /\ run'.pc \in PlatformSteps
  BY DEF PlatformSteps
<1>5. QED
  BY <1>1, <1>2, <1>3, <1>4, PlatformGood, Zenon DEF clusterVars, otherVars

LEMMA LegacyGood ==
    ASSUME IInv, LegacyAllowlist
    PROVE  Good
<1> PlatformTypes /\ Stored /\ run \in Runs
  BY Zenon DEF IInv, PlatformInv
<1>1. given \in {"none", "seed"}
  BY InstallerConstants DEF PlatformTypes
<1>2. /\ run.pc = "legacy" /\ run' \in Runs /\ run'.token = run.token /\ run'.s = run.s
      /\ \/ (given # "none" \/ applied["receiver"] = "none") /\ run'.pc = "migrate"
         \/ /\ given = "none" /\ run'.pc = "persist"
            /\ applied["receiver"] = "old" => run'.seed = "legacy"
  <2>1. CASE given # "none" \/ applied["receiver"] = "none"
    BY <1>1, <2>1, Zenon DEF LegacyAllowlist, At, Runs, PlatformSteps
  <2>2. CASE ~(given # "none" \/ applied["receiver"] = "none")
    BY <1>1, <2>2, Zenon DEF LegacyAllowlist, At, Runs, PlatformSteps
  <2>3. QED
    BY <2>1, <2>2
<1>3. UNCHANGED <<nodeVars, manifestVars, clusterVars, seedVars, tokenVars, otherVars>>
  BY DEF LegacyAllowlist
<1>4. Stored'
  BY <1>2, <1>3, Zenon DEF Stored, BeforeStored, manifestVars, clusterVars, seedVars, otherVars
<1>5. QED
  BY <1>2, <1>3, <1>4, QuietGood, Zenon DEF seedVars, PlatformTypes

LEMMA PersistGood ==
    ASSUME IInv, PersistAllowlist
    PROVE  Good
<1> PlatformTypes /\ Stored /\ run \in Runs
  BY Zenon DEF IInv, PlatformInv
<1>1. run.pc = "persist" /\ run' \in Runs /\ run'.pc = "migrate" /\ run'.token = run.token /\ run'.s = run.s
  BY Zenon DEF PersistAllowlist, PersistLegacy, At, Runs, PlatformSteps
<1>2. UNCHANGED <<nodeVars, manifestVars, clusterVars, secrets, tokenVars, otherVars>>
  BY DEF PersistAllowlist
<1>3. allowlist' = (IF allowlist = "none" THEN run.seed ELSE allowlist)
  BY DEF PersistAllowlist, PersistLegacy, EnsureRepoAllowlist
<1>4. Stored' /\ allowlist' \in {"none", "empty", "legacy", "seed", "edited"}
  BY <1>1, <1>2, <1>3 DEF Stored, Runs, PlatformTypes, clusterVars, otherVars
<1>5. QED
  BY <1>1, <1>2, <1>4, QuietGood, Zenon

\* The policy is stored by now.
LEMMA StoredKept ==
    ASSUME Stored, run.pc \notin BeforeStored, UNCHANGED <<origin, given, applied, allowlist>>
    PROVE  Stored'
  BY Zenon DEF Stored

LEMMA SeedGood ==
    ASSUME IInv, SeedAllowlist
    PROVE  Good
<1> PlatformTypes /\ Stored /\ run \in Runs
  BY Zenon DEF IInv, PlatformInv
<1>1. run.pc = "allowlist" /\ run' \in Runs /\ run'.pc = "workloads" /\ run'.token = run.token /\ run'.s = run.s
  BY Zenon DEF SeedAllowlist, At, Runs, PlatformSteps
<1>2. UNCHANGED <<nodeVars, manifestVars, clusterVars, secrets, tokenVars, otherVars>>
  BY DEF SeedAllowlist
<1>3. allowlist' \in {"none", "empty", "legacy", "seed", "edited"} /\ (allowlist # "none" => allowlist' = allowlist)
  BY DEF SeedAllowlist, EnsureRepoAllowlist, Runs, PlatformTypes
<1>4. run.pc \notin BeforeStored
  BY <1>1 DEF BeforeStored, Resting, NodeSteps
<1>5. Stored'
  BY <1>2, <1>3, <1>4, Zenon DEF Stored, clusterVars, otherVars
<1>6. QED
  BY <1>1, <1>2, <1>3, <1>5, QuietGood, Zenon

LEMMA WorkloadsGood ==
    ASSUME IInv, WaitWorkloads
    PROVE  Good
<1> PlatformTypes /\ Stored /\ run \in Runs
  BY Zenon DEF IInv, PlatformInv
<1>1. run.pc = "workloads" /\ run' \in Runs /\ run'.pc = "wire" /\ run'.token = run.token /\ run'.s = run.s
  BY DEF WaitWorkloads, At, Goto, Runs, PlatformSteps
<1>2. UNCHANGED <<nodeVars, manifestVars, clusterVars, seedVars, tokenVars, otherVars>>
  BY DEF WaitWorkloads
<1>3. run.pc \notin BeforeStored
  BY <1>1 DEF BeforeStored, Resting, NodeSteps
<1>4. Stored'
  BY <1>2, <1>3, StoredKept, Zenon DEF clusterVars, seedVars, otherVars
<1>5. QED
  BY <1>1, <1>2, <1>4, QuietGood, Zenon DEF seedVars, PlatformTypes

LEMMA WireGood ==
    ASSUME IInv, WireRegistry
    PROVE  Good
<1> PlatformTypes /\ Stored /\ Deployed /\ RunToken /\ run \in Runs
  BY Zenon DEF IInv, PlatformInv
<1>1. /\ run.pc = "wire" /\ run' \in Runs /\ run'.pc = "ca" /\ run'.token = run.token
      /\ run'.ca = registryCA /\ run'.s = run.s /\ buildCA' = registryCA
  BY Zenon DEF WireRegistry, At, Runs, WireSteps, PlatformTypes
<1>2. UNCHANGED <<nodeVars, manifestVars, clusterVars, seedVars, tokenVars, origin, seeder, given, budget>>
  BY DEF WireRegistry
<1>3. PlatformTypes' /\ Positions' /\ Deployed' /\ NotThere' /\ (PasswordKept => PasswordKept')
  BY <1>1, <1>2, Zenon DEF PlatformTypes, Positions, Deployed, Written, CRDReady, NotThere, PasswordKept, manifestVars,
      clusterVars, seedVars, tokenVars
<1>4. run.pc \notin BeforeStored /\ run.pc \in PlatformSteps /\ run'.pc \notin BeforeToken
  BY <1>1 DEF BeforeStored, BeforeToken, Resting, NodeSteps, PlatformSteps
<1>5. Stored' /\ RunToken'
  BY <1>1, <1>2, <1>4, StoredKept, Zenon DEF clusterVars, seedVars, RunToken
<1>6. QED
  BY <1>1, <1>2, <1>3, <1>4, <1>5, PlatformGood, Zenon DEF clusterVars

\* Those that deploy: from the migration to the namespace.
Deploying == {"migrate", "crds", "mv-crd", "apply", "established", "rest", "mv-rest"}

LEMMA DeployGood ==
    ASSUME IInv, run' \in Runs, SameMemory, run'.i \in 1..4, run'.pc # "migrate" => run'.i \in 1..2,
           run.pc \in Deploying, run'.pc \in Deploying \cup {"namespace"},
           UNCHANGED <<nodeVars, applied, pgdata, registryCA, seedVars, tokenVars, otherVars>>,
           manifest' \in [Manifests -> {"none", "old", "new"}], legacyNames' \subseteq Manifests,
           crds' \in [CRDs -> CRDObject],
           \A f \in CRDs : crds[f].content # "none" => crds'[f].content # "none",
           Deployed'
    PROVE  Good
<1> PlatformTypes /\ Stored /\ RunToken /\ run \in Runs
  BY Zenon DEF IInv, PlatformInv
<1>1. PlatformTypes'
  BY Zenon DEF PlatformTypes, seedVars, tokenVars, otherVars
<1>2. run.pc \notin BeforeStored /\ run.pc \in PlatformSteps /\ run'.pc \in PlatformSteps /\ run.pc \in BeforeToken
  BY DEF BeforeStored, BeforeToken, Deploying, Resting, NodeSteps, PlatformSteps
<1>3. Stored'
  BY <1>2, StoredKept, Zenon DEF seedVars, otherVars
<1>4. Positions'
  BY DEF Positions, Deploying
<1>5. run'.token = 0 /\ run.token = 0 /\ run'.pc \notin {"secrets", "create"}
  BY <1>2 DEF RunToken, SameMemory, Deploying
<1>6. RunToken' /\ NotThere' /\ (PasswordKept => PasswordKept')
  BY <1>5, Zenon DEF RunToken, NotThere, PasswordKept, seedVars
<1>7. QED
  BY <1>1, <1>2, <1>3, <1>4, <1>5, <1>6, PlatformGood, Zenon DEF otherVars, SameMemory

\* The manifests a step of a list is about.
LEMMA Indexed ==
    ASSUME run \in Runs
    PROVE  /\ run.i <= 2 => CRDList[run.i] \in CRDs /\ RestList[run.i] \in Components
           /\ run.i <= 3 => SecretOrder[run.i] \in SecretNames
           /\ (CRDList \o RestList)[run.i] \in Manifests
<1>1. run.i \in 1..4
  BY DEF Runs
<1>2. QED
  BY <1>1, Lists, Names

\* The rename of the older release's manifests.
LEMMA MigrateGood ==
    ASSUME IInv, MigrateManifest
    PROVE  Good
<1> PlatformTypes /\ Deployed /\ run \in Runs
  BY Zenon DEF IInv, PlatformInv
<1>1. "migrate" \in Steps /\ "crds" \in Steps /\ Len(CRDList \o RestList) \in 1..4
  BY Lists DEF Steps, PlatformSteps
<1>2. run.pc = "migrate" /\ Advance(CRDList \o RestList, "migrate", "crds")
  BY DEF MigrateManifest, At
<1>3. run' \in Runs /\ SameMemory /\ (run'.pc = "migrate" \/ (run'.pc = "crds" /\ run'.i = 1))
  BY <1>1, <1>2, AdvanceFields, Zenon
<1>4. (CRDList \o RestList)[run.i] \in Manifests
  BY Indexed, Zenon
<1>5. /\ legacyNames' \subseteq Manifests
      /\ \/ manifest' = manifest
         \/ \E f \in Manifests : manifest[f] = "none" /\ manifest' = [manifest EXCEPT ![f] = "old"]
  BY <1>4, Zenon DEF MigrateManifest, manifestVars, PlatformTypes
<1>6. /\ manifest' \in [Manifests -> {"none", "old", "new"}]
      /\ \A f \in Manifests : manifest[f] = "new" <=> manifest'[f] = "new"
  BY <1>5 DEF PlatformTypes
<1>7. UNCHANGED <<nodeVars, clusterVars, seedVars, tokenVars, otherVars>>
  BY DEF MigrateManifest
<1>8. Deployed'
  BY <1>3, <1>6, <1>7, Names DEF Deployed, Written, CRDReady, clusterVars, otherVars
<1>9. run'.i \in 1..4 /\ (run'.pc # "migrate" => run'.i \in 1..2)
  BY <1>3 DEF Runs
<1>10. run.pc \in Deploying /\ run'.pc \in Deploying
  BY <1>2, <1>3 DEF Deploying
<1>11. QED
  BY <1>3, <1>5, <1>6, <1>7, <1>8, <1>9, <1>10, DeployGood, Zenon DEF PlatformTypes, clusterVars

\* The two steps on a list of manifests: on to the rename, or to the next one.
ListStep(list, here, rename, done) ==
    \/ run.pc = here /\ run'.pc = rename /\ run'.i = run.i /\ manifest' = manifest
    \/ /\ \/ run.pc = here /\ manifest[list[run.i]] = "new" /\ manifest' = manifest
          \/ run.pc = rename /\ manifest' = [manifest EXCEPT ![list[run.i]] = "new"]
       /\ run.i = 1 => run'.pc = here /\ run'.i = 2
       /\ run.i = 2 => run'.pc = done /\ run'.i = 1

LEMMA ListFields ==
    ASSUME run \in Runs, PlatformTypes, NEW list, Len(list) = 2,
           NEW here \in Steps, NEW rename \in Steps, NEW done \in Steps,
           run.pc = here \/ run.pc = rename => run.i <= 2,
           EnsureManifest(list, here, rename, done) \/ RenameManifest(list, here, rename, done)
    PROVE  /\ run' \in Runs /\ SameMemory /\ run.i \in 1..2 /\ run'.i \in 1..2 /\ ListStep(list, here, rename, done)
           /\ UNCHANGED <<nodeVars, legacyNames, clusterVars, seedVars, tokenVars, otherVars>>
<1>1. run.i \in 1..2
  <2>1. run.pc = here \/ run.pc = rename
    BY Zenon DEF EnsureManifest, RenameManifest, At
  <2>2. QED
    BY <2>1 DEF Runs
<1>2. ASSUME Advance(list, here, done)
      PROVE  /\ run' \in Runs /\ SameMemory
             /\ run.i = 1 => run'.pc = here /\ run'.i = 2
             /\ run.i = 2 => run'.pc = done /\ run'.i = 1
  <2>1. Len(list) \in 1..4
    OBVIOUS
  <2>2. /\ run' \in Runs /\ SameMemory
        /\ run.i < Len(list) => run'.pc = here /\ run'.i = run.i + 1
        /\ ~(run.i < Len(list)) => run'.pc = done /\ run'.i = 1
    BY <1>2, <2>1, AdvanceFields, Zenon
  <2>3. QED
    BY <1>1, <2>2
<1>3. UNCHANGED <<nodeVars, legacyNames, clusterVars, seedVars, tokenVars, otherVars>>
  BY Zenon DEF EnsureManifest, RenameManifest
<1>4. CASE RenameManifest(list, here, rename, done)
  <2>1. run.pc = rename /\ manifest' = [manifest EXCEPT ![list[run.i]] = "new"] /\ Advance(list, here, done)
    BY <1>4, Zenon DEF RenameManifest, At
  <2>2. run'.i \in 1..2
    BY <1>1, <1>2, <2>1
  <2>3. QED
    BY <1>1, <1>2, <1>3, <2>1, <2>2, Zenon DEF ListStep
<1>5. CASE EnsureManifest(list, here, rename, done)
  <2>1. CASE manifest[list[run.i]] = "new"
    <3>1. run.pc = here /\ manifest' = manifest /\ Advance(list, here, done)
      BY <1>5, <2>1, Zenon DEF EnsureManifest, At
    <3>2. run'.i \in 1..2
      BY <1>1, <1>2, <3>1
    <3>3. QED
      BY <1>1, <1>2, <1>3, <2>1, <3>1, <3>2, Zenon DEF ListStep
  <2>2. CASE manifest[list[run.i]] # "new"
    <3>1. run.pc = here /\ Goto(rename) /\ manifest' = [manifest EXCEPT ![list[run.i]] = manifest[list[run.i]]]
      BY <1>5, <2>2 DEF EnsureManifest, At, Staged
    <3>2. manifest' = manifest
      BY <3>1 DEF PlatformTypes
    <3>3. QED
      BY <1>1, <1>3, <3>1, <3>2, GotoFields DEF ListStep
  <2>3. QED
    BY <2>1, <2>2
<1>6. QED
  BY <1>4, <1>5

LEMMA CRDsGood ==
    ASSUME IInv, WriteCRDs
    PROVE  Good
<1> PlatformTypes /\ Deployed /\ Positions /\ run \in Runs
  BY Zenon DEF IInv, PlatformInv
<1>1. "crds" \in Steps /\ "mv-crd" \in Steps /\ "apply" \in Steps /\ Len(CRDList) = 2
  BY Lists DEF Steps, PlatformSteps
<1>2. /\ run.pc = "crds" \/ run.pc = "mv-crd" => run.i <= 2
      /\ EnsureManifest(CRDList, "crds", "mv-crd", "apply") \/ RenameManifest(CRDList, "crds", "mv-crd", "apply")
  BY Zenon DEF Positions, WriteCRDs
<1>3. /\ run' \in Runs /\ SameMemory /\ run.i \in 1..2 /\ run'.i \in 1..2 /\ ListStep(CRDList, "crds", "mv-crd", "apply")
      /\ UNCHANGED <<nodeVars, legacyNames, clusterVars, seedVars, tokenVars, otherVars>>
  BY <1>1, <1>2, ListFields, Zenon
<1>4. manifest' = manifest \/ manifest' = [manifest EXCEPT ![CRDList[run.i]] = "new"]
  BY <1>3, Zenon DEF ListStep
<1>5. /\ manifest' \in [Manifests -> {"none", "old", "new"}]
      /\ \A f \in Manifests : manifest[f] = "new" => manifest'[f] = "new"
  BY <1>4 DEF PlatformTypes
<1>6. manifest'["operator"] = manifest["operator"]
  <2>1. CRDList[run.i] # "operator"
    BY <1>3, Lists
  <2>2. QED
    BY <1>4, <2>1, Names DEF PlatformTypes
<1>7. \/ run'.pc = "mv-crd" /\ run'.i = run.i /\ run.pc = "crds"
      \/ /\ manifest'[CRDList[run.i]] = "new"
         /\ run.i = 1 => run'.pc = "crds" /\ run'.i = 2
         /\ run.i = 2 => run'.pc = "apply" /\ run'.i = 1 /\ manifest[CRDList[1]] = "new"
  BY <1>3, Lists, Names DEF ListStep, PlatformTypes, Deployed
<1>8. UNCHANGED <<applied, crds, origin>>
  BY <1>3, Zenon DEF clusterVars, otherVars
<1>9. Deployed'
  BY <1>3, <1>5, <1>6, <1>7, <1>8, Lists, Names DEF Deployed, Written, CRDReady
<1>10. run.pc \in Deploying /\ run'.pc \in Deploying /\ run'.i \in 1..4
  BY <1>3 DEF Deploying, ListStep
<1>11. QED
  BY <1>3, <1>5, <1>9, <1>10, DeployGood, Zenon DEF PlatformTypes, clusterVars

LEMMA ManifestsGood ==
    ASSUME IInv, WriteManifests
    PROVE  Good
<1> PlatformTypes /\ Deployed /\ Positions /\ run \in Runs
  BY Zenon DEF IInv, PlatformInv
<1>1. "rest" \in Steps /\ "mv-rest" \in Steps /\ "namespace" \in Steps /\ Len(RestList) = 2
  BY Lists DEF Steps, PlatformSteps
<1>2. /\ run.pc = "rest" \/ run.pc = "mv-rest" => run.i <= 2
      /\ EnsureManifest(RestList, "rest", "mv-rest", "namespace") \/ RenameManifest(RestList, "rest", "mv-rest", "namespace")
  BY Zenon DEF Positions, WriteManifests
<1>3. /\ run' \in Runs /\ SameMemory /\ run.i \in 1..2 /\ run'.i \in 1..2
      /\ ListStep(RestList, "rest", "mv-rest", "namespace")
      /\ UNCHANGED <<nodeVars, legacyNames, clusterVars, seedVars, tokenVars, otherVars>>
  BY <1>1, <1>2, ListFields, Zenon
<1>4. manifest' = manifest \/ manifest' = [manifest EXCEPT ![RestList[run.i]] = "new"]
  BY <1>3, Zenon DEF ListStep
<1>5. /\ manifest' \in [Manifests -> {"none", "old", "new"}]
      /\ \A f \in CRDs : manifest'[f] = manifest[f]
  BY <1>3, <1>4, Lists, Names DEF PlatformTypes
<1>6. /\ run.pc \in {"rest", "mv-rest"} /\ run'.pc \in {"rest", "mv-rest", "namespace"}
      /\ UNCHANGED <<applied, crds, origin>>
  BY <1>3 DEF ListStep, clusterVars, otherVars
<1>7. Deployed'
  BY <1>5, <1>6 DEF Deployed, Written, CRDReady
<1>8. run.pc \in Deploying /\ run'.pc \in Deploying \cup {"namespace"} /\ run'.i \in 1..4
  BY <1>3, <1>6 DEF Deploying
<1>9. QED
  BY <1>3, <1>5, <1>7, <1>8, DeployGood, Zenon DEF PlatformTypes, clusterVars

LEMMA ApplyGood ==
    ASSUME IInv, ApplyCRD
    PROVE  Good
<1> PlatformTypes /\ Deployed /\ Positions /\ run \in Runs
  BY Zenon DEF IInv, PlatformInv
<1>1. "apply" \in Steps /\ "established" \in Steps /\ Len(CRDList) = 2 /\ Len(CRDList) \in 1..4
  BY Lists DEF Steps, PlatformSteps
<1>2. run.pc = "apply" /\ Advance(CRDList, "apply", "established")
  BY DEF ApplyCRD, At
<1>3. run.i \in 1..2
  BY <1>2 DEF Positions, Runs
<1>4. /\ run' \in Runs /\ SameMemory
      /\ run.i < Len(CRDList) => run'.pc = "apply" /\ run'.i = run.i + 1
      /\ ~(run.i < Len(CRDList)) => run'.pc = "established" /\ run'.i = 1
  BY <1>1, <1>2, AdvanceFields, Zenon
<1>5. crds' = [crds EXCEPT ![CRDList[run.i]].content = "new"] /\ CRDList[run.i] \in CRDs
  <2>1. CRDList[run.i] \in CRDs /\ manifest[CRDList[run.i]] = "new"
    BY <1>2, <1>3, Indexed DEF Deployed, Written
  <2>2. QED
    BY <2>1 DEF ApplyCRD
<1>6. /\ crds' \in [CRDs -> CRDObject] /\ crds'[CRDList[run.i]].content = "new"
      /\ \A f \in CRDs : /\ crds'[f].content = crds[f].content \/ crds'[f].content = "new"
                         /\ crds'[f].established = crds[f].established
  BY <1>5, Zenon DEF PlatformTypes, CRDObject, Contents
<1>7. UNCHANGED <<nodeVars, manifestVars, applied, pgdata, registryCA, seedVars, tokenVars, otherVars>>
  BY DEF ApplyCRD
<1>8. /\ run.i = 1 => run'.pc = "apply" /\ run'.i = 2
      /\ run.i = 2 => run'.pc = "established" /\ run'.i = 1
  BY <1>1, <1>3, <1>4
<1>9. Deployed'
  BY <1>2, <1>3, <1>6, <1>7, <1>8, Lists, Names DEF Deployed, Written, CRDReady, manifestVars, otherVars
<1>10. run.pc \in Deploying /\ run'.pc \in Deploying /\ run'.i \in 1..4 /\ run'.i \in 1..2
  BY <1>2, <1>3, <1>8 DEF Deploying
<1>11. QED
  BY <1>4, <1>6, <1>7, <1>9, <1>10, DeployGood, Zenon DEF PlatformTypes, manifestVars

LEMMA EstablishedGood ==
    ASSUME IInv, WaitCRDsEstablished
    PROVE  Good
<1> PlatformTypes /\ Deployed /\ Positions /\ run \in Runs
  BY Zenon DEF IInv, PlatformInv
<1>1. /\ UNCHANGED <<nodeVars, manifestVars, clusterVars, seedVars, tokenVars, otherVars>>
      /\ run.pc = "established" /\ \A f \in CRDs : crds[f].established
  BY DEF WaitCRDsEstablished, At, CRDsEstablished
<1>2. run' \in Runs /\ run'.pc = "rest" /\ run'.i = run.i /\ SameMemory
  <2>1. "rest" \in Steps
    BY DEF Steps, PlatformSteps
  <2>2. QED
    BY <2>1, GotoFields, Zenon DEF WaitCRDsEstablished
<1>3. run'.i \in 1..2 /\ run'.i \in 1..4
  BY <1>1, <1>2 DEF Positions, Runs
<1>4. Deployed'
  BY <1>1, <1>2, Zenon DEF Deployed, Written, CRDReady, manifestVars, clusterVars, otherVars
<1>5. run.pc \in Deploying /\ run'.pc \in Deploying
  BY <1>1, <1>2 DEF Deploying
<1>6. QED
  BY <1>1, <1>2, <1>3, <1>4, <1>5, DeployGood, Zenon DEF PlatformTypes, manifestVars, clusterVars

\* Those that look for the Secrets and create them.
LEMMA SecretGood ==
    ASSUME IInv, run' \in Runs, run'.s = run.s, Positions',
           run.pc \in {"namespace", "secrets", "create"}, run'.pc \in {"secrets", "create", "allowlist"},
           UNCHANGED <<nodeVars, manifestVars, clusterVars, allowlist, tokenVars, otherVars>>,
           secrets' \in [SecretNames -> Nat], RunToken', run.token # 0 => run'.token # 0,
           MaxMisreads = 0 /\ NotThere /\ PasswordKept => NotThere' /\ PasswordKept'
    PROVE  Good
<1> PlatformTypes /\ Stored /\ Deployed
  BY Zenon DEF IInv, PlatformInv
<1>1. PlatformTypes' /\ Deployed'
  BY Zenon DEF PlatformTypes, Deployed, Written, CRDReady, manifestVars, clusterVars, tokenVars, otherVars
<1>2. run.pc \notin BeforeStored /\ run.pc \in PlatformSteps /\ run'.pc \in PlatformSteps
  BY DEF BeforeStored, Resting, NodeSteps, PlatformSteps
<1>3. Stored'
  BY <1>2, StoredKept, Zenon DEF clusterVars, otherVars
<1>4. QED
  BY <1>1, <1>2, <1>3, PlatformGood, Zenon DEF clusterVars, otherVars

LEMMA NamespaceGood ==
    ASSUME IInv, WaitNamespace
    PROVE  Good
<1> PlatformTypes /\ Positions /\ RunToken /\ run \in Runs
  BY Zenon DEF IInv, PlatformInv
<1>1. PICK g \in Generated : run' = [run EXCEPT !.pc = "secrets", !.gen = g]
  BY Zenon DEF WaitNamespace
<1>2. run.pc = "namespace" /\ g \in Nat /\ g # 0
  BY DEF WaitNamespace, At, Generated
<1>3. /\ run' \in Runs /\ run'.pc = "secrets" /\ run'.token = run.token
      /\ run'.i = run.i /\ run'.gen = g /\ run'.s = run.s
  BY <1>1, <1>2, Zenon DEF Runs, PlatformSteps
<1>4. UNCHANGED <<nodeVars, manifestVars, clusterVars, seedVars, tokenVars, otherVars>>
  BY DEF WaitNamespace
<1>5. run.token = 0
  BY <1>2, Zenon DEF RunToken, BeforeToken, PlatformSteps
<1>6. RunToken'
  BY <1>2, <1>3, <1>5 DEF RunToken, BeforeToken, Resting, NodeSteps, PlatformSteps
<1>7. Positions'
  BY <1>2, <1>3 DEF Positions, Runs
<1>8. NotThere' /\ (PasswordKept => PasswordKept')
  BY <1>3, <1>4, Zenon DEF NotThere, PasswordKept, clusterVars, seedVars
<1>9. QED
  BY <1>2, <1>3, <1>4, <1>5, <1>6, <1>7, <1>8, SecretGood, Zenon DEF seedVars, PlatformTypes

LEMMA LookGood ==
    ASSUME IInv, LookSecret
    PROVE  Good
<1> PlatformTypes /\ Positions /\ RunToken /\ run \in Runs
  BY Zenon DEF IInv, PlatformInv
<1>1. "secrets" \in Steps /\ "allowlist" \in Steps /\ "create" \in Steps /\ Len(SecretOrder) = 3
      /\ Len(SecretOrder) \in 1..4
  BY Lists DEF Steps, PlatformSteps
<1>2. run.pc = "secrets" /\ run.i \in 1..3
  BY DEF LookSecret, At, Positions, Runs
<1>3. /\ run' \in Runs /\ SameMemory
      /\ \/ run'.pc = "create" /\ run'.i = run.i /\ \E there \in GetSecret(SecretOrder[run.i]) : ~there
         \/ run.i < 3 /\ run'.pc = "secrets" /\ run'.i = run.i + 1
         \/ run.i = 3 /\ run'.pc = "allowlist" /\ run'.i = 1
  <2>1. CASE Advance(SecretOrder, "secrets", "allowlist")
    <3>1. /\ run' \in Runs /\ SameMemory
          /\ run.i < Len(SecretOrder) => run'.pc = "secrets" /\ run'.i = run.i + 1
          /\ ~(run.i < Len(SecretOrder)) => run'.pc = "allowlist" /\ run'.i = 1
      BY <1>1, <2>1, AdvanceFields, Zenon
    <3>2. QED
      BY <1>1, <1>2, <3>1
  <2>2. CASE Goto("create") /\ \E there \in GetSecret(SecretOrder[run.i]) : ~there
    BY <1>1, <1>2, <2>2, GotoFields, Zenon
  <2>3. QED
    BY <2>1, <2>2, Zenon DEF LookSecret
<1>4. UNCHANGED <<nodeVars, manifestVars, clusterVars, seedVars, tokenVars, otherVars>>
  BY DEF LookSecret
<1>5. UNCHANGED <<secrets, pgdata, allowlist>>
  BY <1>4 DEF seedVars, clusterVars
<1>6. RunToken'
  BY <1>2, <1>3, <1>5 DEF RunToken, SameMemory, BeforeToken, Resting, NodeSteps, PlatformSteps
<1>7. Positions'
  BY <1>2, <1>3 DEF Positions, Runs
<1>8. MaxMisreads = 0 => NotThere' /\ (PasswordKept => PasswordKept')
  <2>1. MaxMisreads = 0 => GetSecret(SecretOrder[run.i]) = {secrets[SecretOrder[run.i]] # 0}
    BY DEF GetSecret
  <2>2. run'.pc = "create" => run'.i = run.i /\ \E there \in GetSecret(SecretOrder[run.i]) : ~there
    BY <1>3
  <2>3. QED
    BY <1>5, <2>1, <2>2, Zenon DEF NotThere, PasswordKept
<1>9. run'.pc \in {"secrets", "create", "allowlist"}
  BY <1>3, Zenon
<1>10. QED
  BY <1>2, <1>3, <1>4, <1>5, <1>6, <1>7, <1>8, <1>9, SecretGood, Zenon DEF SameMemory, PlatformTypes

LEMMA CreateGood ==
    ASSUME IInv, CreateSecret
    PROVE  Good
<1> PlatformTypes /\ Positions /\ RunToken /\ run \in Runs
  BY Zenon DEF IInv, PlatformInv
<1>1. run.pc = "create" /\ run.i \in 1..3 /\ run.gen \in Nat
  BY DEF CreateSecret, At, Positions, Runs
<1>2. secrets' = [secrets EXCEPT ![SecretOrder[run.i]] = run.gen]
  BY DEF CreateSecret
<1>3. SecretOrder[run.i] \in SecretNames /\ (SecretOrder[run.i] = "token" <=> run.i = 2)
  BY <1>1, Lists, Names
<1> DEFINE pc == IF run.i < 3 THEN "secrets" ELSE "allowlist"
           i == IF run.i < 3 THEN run.i + 1 ELSE 1
           token == IF run.i = 2 THEN run.gen ELSE run.token
<1>4. pc \in PlatformSteps /\ i \in 1..4 /\ token \in Nat
  <2>1. run.token \in Nat
    BY DEF Runs
  <2>2. i \in 1..4
    BY <1>1
  <2>3. pc \in PlatformSteps
    BY Zenon DEF PlatformSteps
  <2>4. QED
    BY <1>1, <2>1, <2>2, <2>3
<1>5. run' = [run EXCEPT !.pc = pc, !.i = i, !.token = token]
  <2>1. CASE run.i < 3
    BY <1>3, <2>1, Lists, Zenon DEF CreateSecret
  <2>2. CASE ~(run.i < 3)
    BY <1>3, <2>2, Lists, Zenon DEF CreateSecret
  <2>3. QED
    BY <2>1, <2>2
<1> HIDE DEF pc, i, token
<1>6. run' \in Runs /\ run'.gen = run.gen /\ run'.s = run.s /\ run'.pc = pc /\ run'.i = i /\ run'.token = token
  BY <1>4, <1>5, Zenon DEF Runs
<1>7. /\ run.i < 3 => run'.pc = "secrets" /\ run'.i = run.i + 1
      /\ run.i = 3 => run'.pc = "allowlist" /\ run'.i = 1
      /\ run'.token = IF run.i = 2 THEN run.gen ELSE run.token
  BY <1>1, <1>6 DEF pc, i, token
<1>8. /\ secrets' \in [SecretNames -> Nat]
      /\ secrets'["token"] = IF run.i = 2 THEN run.gen ELSE secrets["token"]
  BY <1>1, <1>2, <1>3, Names DEF PlatformTypes
<1>9. RunToken' /\ (run.token # 0 => run'.token # 0)
  BY <1>1, <1>6, <1>7, <1>8 DEF RunToken, BeforeToken, Resting, NodeSteps, PlatformSteps
<1>10. Positions' /\ run'.pc \in {"secrets", "allowlist"}
  BY <1>1, <1>7 DEF Positions
<1>11. UNCHANGED <<nodeVars, manifestVars, clusterVars, allowlist, tokenVars, otherVars>>
  BY DEF CreateSecret
<1>12. NotThere => secrets'["superuser"] = secrets["superuser"] \/ secrets["superuser"] = 0
  BY <1>1, <1>2, <1>3, Lists, Names DEF PlatformTypes, NotThere
<1>13. NotThere /\ PasswordKept => NotThere' /\ PasswordKept'
  BY <1>10, <1>11, <1>12 DEF NotThere, PasswordKept, clusterVars
<1>14. QED
  BY <1>1, <1>6, <1>8, <1>9, <1>10, <1>11, <1>13, SecretGood, Zenon

-----------------------------------------------------------------------------
(* The steps on a server *)

\* What is common to them: nothing of the platform is touched or forgotten.
LEMMA NodeGood ==
    ASSUME IInv, run' \in Runs, NodeInv',
           \/ run.pc \in NodeSteps /\ run'.pc \in NodeSteps \cup {"legacy"}
           \/ run.pc \in WireSteps \ {"summary"} /\ run'.pc \in WireSteps,
           run'.token = run.token,
           UNCHANGED <<manifestVars, clusterVars, seedVars, tokenVars, otherVars>>
    PROVE  Good
<1> PlatformTypes /\ ByOrigin /\ Deployed /\ Stored /\ RunToken /\ MintStored
  BY Zenon DEF IInv, PlatformInv
<1> USE DEF manifestVars, clusterVars, seedVars, tokenVars, otherVars
<1>1. PlatformTypes'
  BY Zenon DEF PlatformTypes
<1>2. /\ run.pc # "idle" /\ run.pc # "done" /\ run'.pc # "persist"
      /\ run'.pc \notin {"crds", "mv-crd", "apply", "established", "rest", "mv-rest", "namespace", "secrets", "create"}
      /\ run.pc \in BeforeStored => run'.pc \in BeforeStored
      /\ run'.pc \in BeforeToken => run.pc \in BeforeToken
  BY DEF NodeSteps, WireSteps, BeforeStored, BeforeToken, Resting, PlatformSteps
<1>3. Positions' /\ ByOrigin' /\ Deployed' /\ NotThere' /\ (PasswordKept => PasswordKept')
  BY <1>2, Zenon DEF Positions, ByOrigin, Deployed, Written, CRDReady, NotThere, PasswordKept
<1>4. Stored' /\ RunToken' /\ MintStored'
  BY <1>2, Zenon DEF Stored, RunToken, MintStored
<1>5. QED
  BY <1>1, <1>3, <1>4, Zenon DEF Good, IInv, PlatformInv

\* What the invariant says of the servers, and where their files and services are
\* left alone.
LEMMA ServersFacts ==
    ASSUME IInv
    PROVE  /\ NodeTypes /\ OneAway /\ Reached /\ HandedOut /\ run \in Runs
           /\ run.s \in Servers /\ run.s \in Nat /\ Servers = 1..N /\ N \in Nat
<1>1. NodeTypes /\ OneAway /\ Reached /\ HandedOut /\ run \in Runs
  BY Zenon DEF IInv, NodeInv
<1>2. QED
  BY <1>1, ServerCount DEF Runs, Servers

SameNodes ==
    \A t \in Servers : /\ server'[t] = server[t] /\ disk'[t]["config"] = disk[t]["config"]
                       /\ disk'[t]["ca"] = disk[t]["ca"]

LEMMA SameNodesKept ==
    ASSUME SameNodes
    PROVE  /\ \A t \in Servers : (Away(t)' <=> Away(t)) /\ (Settled(t)' <=> Settled(t)) /\ server'[t].up = server[t].up
           /\ OneAway => OneAway'
<1>1. \A t \in Servers : (Away(t)' <=> Away(t)) /\ (Settled(t)' <=> Settled(t)) /\ server'[t].up = server[t].up
  BY Zenon DEF SameNodes, Away, Settled
<1>2. QED
  BY <1>1, Zenon DEF OneAway, SameNodes

\* The files on a server.
LEMMA EnsureFields ==
    ASSUME run \in Runs, NodeTypes, NEW f \in Files, NEW content \in Contents, EnsureFile(f, content)
    PROVE  /\ disk' \in [Servers -> [Files -> Contents]] /\ disk'[run.s][f] = content
           /\ \A t \in Servers : \A g \in Files : t # run.s \/ g # f => disk'[t][g] = disk[t][g]
  BY DEF EnsureFile, Runs, NodeTypes

\* What (re)starting k3s leaves of the service.
LEMMA StartServer ==
    ASSUME NodeTypes, NEW s \in Servers, NEW version \in {"none", "old", "new"}, Start(s, version)
    PROVE  /\ server' \in [Servers -> K3s]
           /\ server'[s].version = version /\ server'[s].active
           /\ \A t \in Servers \ {s} : server'[t] = server[t]
<1> DEFINE v == server[s]
           files == [f \in AtStart |-> disk[s][f]]
           x == [version |-> version, active |-> TRUE, up |-> FALSE, joined |-> v.joined, started |-> files]
<1>1. v \in K3s /\ files \in [AtStart -> Contents]
  BY DEF NodeTypes, AtStart, Files
<1>2. x \in K3s
  BY <1>1 DEF K3s
<1>3. server' = [server EXCEPT ![s] = x]
  BY Zenon DEF Start
<1>4. x.version = version /\ x.active
  OBVIOUS
<1> HIDE DEF x
<1>5. QED
  BY <1>2, <1>3, <1>4, Zenon DEF NodeTypes

\* Up to the configuration: the service and the files above are left alone.
LEMMA HostGood ==
    ASSUME IInv, Preflight \/ WriteSysctl \/ LoadSysctl \/ WritePolicy,
           UNCHANGED <<manifestVars, clusterVars, seedVars, tokenVars, otherVars>>
    PROVE  Good
<1> NodeTypes /\ OneAway /\ Reached /\ HandedOut /\ run \in Runs /\ run.s \in Servers
  BY ServersFacts, Zenon
<1>1. Files = {"sysctl", "policy", "config", "profile", "ca", "registries"} /\ "new" \in Contents
  BY DEF Files, Contents
<1>2. SameNodes /\ NodeTypes'
  <2>1. CASE WriteSysctl
    BY <1>1, <2>1, EnsureFields DEF SameNodes, NodeTypes, WriteSysctl
  <2>2. CASE WritePolicy
    BY <1>1, <2>2, EnsureFields DEF SameNodes, NodeTypes, WritePolicy
  <2>3. CASE LoadSysctl
    <3> DEFINE k == kernel[run.s]
    <3>1. k \in Kernels /\ disk[run.s]["sysctl"] \in Contents
      BY <1>1 DEF NodeTypes
    <3>2. [k EXCEPT !.sysctl = disk[run.s]["sysctl"]] \in Kernels
      BY <3>1, Zenon DEF Kernels
    <3>3. QED
      BY <2>3, <3>2, Zenon DEF NodeTypes, SameNodes, LoadSysctl
  <2>4. CASE Preflight
    BY <2>4, Zenon DEF NodeTypes, SameNodes, Preflight, nodeVars
  <2>5. QED
    BY <2>1, <2>2, <2>3, <2>4, Zenon
<1>3. \A t \in Servers : (Away(t)' <=> Away(t)) /\ (Settled(t)' <=> Settled(t)) /\ server'[t].up = server[t].up
  BY <1>2, SameNodesKept, Zenon
<1>4. /\ run' \in Runs /\ run'.s = run.s /\ run'.token = run.token
      /\ run.pc \in NodeSteps /\ run'.pc \in {"sysctl", "sysctl-p", "policy", "config"}
  BY DEF Preflight, WriteSysctl, LoadSysctl, WritePolicy, At, Goto, Runs, NodeSteps
<1>5. ~Away(run.s)
  <2>1. CASE Preflight
    BY <2>1, Zenon DEF Preflight, PreflightOK, OneAway, Away
  <2>2. CASE ~Preflight
    BY <2>2, Zenon DEF WriteSysctl, LoadSysctl, WritePolicy, At, Reached
  <2>3. QED
    BY <2>1, <2>2
<1>6. Reached' /\ HandedOut'
  BY <1>3, <1>4, <1>5, Zenon DEF Reached, HandedOut, NodeSteps, PlatformSteps, WireSteps
<1>7. NodeInv'
  BY <1>2, <1>6, SameNodesKept, Zenon DEF NodeInv
<1>8. run'.pc \in NodeSteps
  BY <1>4, Zenon DEF NodeSteps
<1>9. QED
  BY <1>4, <1>7, <1>8, NodeGood, Zenon

\* The configuration and the (re)start: no other server is away.
LEMMA ConfigGood ==
    ASSUME IInv, WriteConfig, UNCHANGED <<manifestVars, clusterVars, seedVars, tokenVars, otherVars>>
    PROVE  Good
<1> NodeTypes /\ OneAway /\ Reached /\ HandedOut /\ run \in Runs /\ run.s \in Servers
  BY ServersFacts, Zenon
<1>1. /\ run' \in Runs /\ run'.s = run.s /\ run'.token = run.token
      /\ run.pc = "config" /\ run'.pc = "converge" /\ (run'.changed <=> disk[run.s]["config"] # "new")
  BY Zenon DEF WriteConfig, Differs, At, Runs, NodeSteps
<1>2. /\ disk' \in [Servers -> [Files -> Contents]] /\ disk'[run.s]["config"] = "new"
      /\ \A t \in Servers : disk[t]["config"] = "new" => disk'[t]["config"] = "new"
  <2>1. "config" \in Files /\ "new" \in Contents
    BY DEF Files, Contents
  <2>2. QED
    BY <2>1, EnsureFields DEF WriteConfig
<1>3. server' = server /\ kernel' = kernel
  BY DEF WriteConfig
<1>4. NodeTypes'
  BY <1>2, <1>3 DEF NodeTypes
<1>5. \A t \in Servers : (Away(t)' <=> Away(t)) /\ (Settled(t) => Settled(t)')
  BY <1>2, <1>3, Zenon DEF Away, Settled
<1>6. ~Away(run.s) /\ \A t \in Servers : t < run.s => Settled(t) /\ server[t].up
  BY <1>1, Zenon DEF Reached, NodeSteps
<1>7. disk[run.s]["config"] # "new" => \A t \in Servers : ~Away(t)
  <2> SUFFICES ASSUME NEW t \in Servers, Away(t) PROVE disk[run.s]["config"] = "new"
    BY Zenon
  <2>1. t # run.s /\ ~(t < run.s)
    BY <1>6, Zenon DEF Away
  <2>2. run.s < t
    BY <2>1, ServersFacts
  <2>3. QED
    BY <2>2, Zenon DEF OneAway, Settled
<1>8. OneAway'
  BY <1>3, <1>5, Zenon DEF OneAway
<1>9. Reached' /\ HandedOut'
  BY <1>1, <1>2, <1>3, <1>5, <1>6, <1>7, Zenon DEF Reached, HandedOut, NodeSteps, PlatformSteps, WireSteps
<1>10. NodeInv' /\ run.pc \in NodeSteps /\ run'.pc \in NodeSteps
  BY <1>1, <1>4, <1>8, <1>9, Zenon DEF NodeInv, NodeSteps
<1>11. QED
  BY <1>1, <1>10, NodeGood, Zenon

LEMMA ConvergeGood ==
    ASSUME IInv, InstallOrConverge, UNCHANGED <<manifestVars, clusterVars, seedVars, tokenVars, otherVars>>
    PROVE  Good
<1> NodeTypes /\ OneAway /\ Reached /\ HandedOut /\ run \in Runs /\ run.s \in Servers
  BY ServersFacts, Zenon
<1>1. /\ run' \in Runs /\ run'.s = run.s /\ run'.token = run.token
      /\ run.pc = "converge" /\ run'.pc = "ready" /\ disk' = disk /\ kernel' = kernel
  BY Zenon DEF InstallOrConverge, At, Runs, NodeSteps
<1>2. /\ ~Away(run.s) /\ \A t \in Servers : t < run.s => Settled(t) /\ server[t].up
      /\ disk[run.s]["config"] = "new" /\ (run.changed => \A t \in Servers : ~Away(t))
  BY <1>1, Zenon DEF Reached, NodeSteps
<1>3. /\ OneAway' /\ server' \in [Servers -> K3s]
      /\ Settled(run.s)' /\ \A t \in Servers : t < run.s => Settled(t)' /\ server'[t].up
  <2>1. CASE server[run.s].version = "new" /\ ~run.changed /\ server[run.s].active
    <3>1. server' = server
      BY <2>1 DEF InstallOrConverge
    <3>2. QED
      BY <1>1, <1>2, <2>1, <3>1, Zenon DEF OneAway, Away, Settled, NodeTypes
  <2>2. CASE ~(server[run.s].version = "new" /\ ~run.changed /\ server[run.s].active)
    <3>1. Start(run.s, "new")
      BY <2>2 DEF InstallOrConverge
    <3>2. /\ server' \in [Servers -> K3s] /\ server'[run.s].version = "new" /\ server'[run.s].active
          /\ \A t \in Servers \ {run.s} : server'[t] = server[t]
      BY <3>1, StartServer, Zenon
    <3>3. \A t \in Servers : ~Away(t)
      <4> SUFFICES ASSUME NEW t \in Servers, Away(t) PROVE FALSE
        OBVIOUS
      <4>1. t # run.s /\ ~(t < run.s) /\ ~run.changed
        BY <1>2, Zenon DEF Away
      <4>2. run.s < t
        BY <4>1, ServersFacts
      <4>3. QED
        BY <2>2, <4>1, <4>2, Zenon DEF OneAway, Settled
    <3>4. \A t \in Servers : Away(t)' => t = run.s
      BY <3>2, <3>3, Zenon DEF Away
    <3>5. \A t \in Servers : t < run.s => t # run.s
      BY ServersFacts
    <3>6. Settled(run.s)' /\ \A t \in Servers : t < run.s => Settled(t)' /\ server'[t].up
      BY <1>1, <1>2, <3>2, <3>5, Zenon DEF Settled
    <3>7. \A t \in Servers : server'[t].joined => server'[t].active
      BY <3>2, Zenon DEF OneAway
    <3>8. QED
      BY <3>2, <3>4, <3>6, <3>7, Zenon DEF OneAway
  <2>3. QED
    BY <2>1, <2>2
<1>4. NodeTypes' /\ Reached' /\ HandedOut'
  BY <1>1, <1>3, Zenon DEF NodeTypes, Reached, HandedOut, NodeSteps, PlatformSteps, WireSteps
<1>5. NodeInv' /\ run.pc \in NodeSteps /\ run'.pc \in NodeSteps
  BY <1>1, <1>3, <1>4, Zenon DEF NodeInv, NodeSteps
<1>6. QED
  BY <1>1, <1>5, NodeGood, Zenon

LEMMA ReadyGood ==
    ASSUME IInv, WaitReady \/ WriteProfile, UNCHANGED <<manifestVars, clusterVars, seedVars, tokenVars, otherVars>>
    PROVE  Good
<1> NodeTypes /\ OneAway /\ Reached /\ HandedOut /\ run \in Runs /\ run.s \in Servers
  BY ServersFacts, Zenon
<1>1. Files = {"sysctl", "policy", "config", "profile", "ca", "registries"} /\ "new" \in Contents
  BY DEF Files, Contents
<1>2. SameNodes /\ NodeTypes'
  <2>1. CASE WriteProfile
    BY <1>1, <2>1, EnsureFields DEF SameNodes, NodeTypes, WriteProfile
  <2>2. CASE WaitReady
    BY <2>2, Zenon DEF NodeTypes, SameNodes, WaitReady, nodeVars
  <2>3. QED
    BY <2>1, <2>2
<1>3. /\ \A t \in Servers : (Away(t)' <=> Away(t)) /\ (Settled(t)' <=> Settled(t)) /\ server'[t].up = server[t].up
      /\ OneAway'
  BY <1>2, SameNodesKept, Zenon
<1>4. /\ run' \in Runs /\ run'.s = run.s /\ run'.token = run.token
      /\ run.pc \in {"ready", "profile"} /\ run'.pc \in {"profile", "apparmor"}
  BY Zenon DEF WaitReady, WriteProfile, Differs, At, Goto, Runs, NodeSteps
<1>5. server[run.s].up
  BY Zenon DEF WaitReady, ReadyEnough, WriteProfile, At, Reached
<1>6. Reached' /\ HandedOut'
  BY <1>3, <1>4, <1>5, Zenon DEF Reached, HandedOut, NodeSteps, PlatformSteps, WireSteps
<1>7. NodeInv' /\ run.pc \in NodeSteps /\ run'.pc \in NodeSteps
  BY <1>2, <1>3, <1>4, <1>6, Zenon DEF NodeInv, NodeSteps
<1>8. QED
  BY <1>4, <1>7, NodeGood, Zenon

\* The last step on a server, after which the next one or the platform follows.
LEMMA ProfileGood ==
    ASSUME IInv, LoadProfile, UNCHANGED <<manifestVars, clusterVars, seedVars, tokenVars, otherVars>>
    PROVE  Good
<1> NodeTypes /\ OneAway /\ Reached /\ HandedOut /\ run \in Runs /\ run.s \in Servers
  BY ServersFacts, Zenon
<1>1. 1 \in Servers /\ (run.s < N => run.s + 1 \in Servers) /\ \A t \in Servers : ~(t < 1)
  BY ServersFacts
<1>2. SameNodes /\ NodeTypes'
  <2> DEFINE k == kernel[run.s]
  <2>1. k \in Kernels /\ disk[run.s]["profile"] \in Contents
    BY DEF NodeTypes, Files
  <2>2. [k EXCEPT !.profile = disk[run.s]["profile"]] \in Kernels
    BY <2>1 DEF Kernels, Contents
  <2>3. QED
    BY <2>2, Zenon DEF NodeTypes, SameNodes, LoadProfile
<1>3. /\ \A t \in Servers : (Away(t)' <=> Away(t)) /\ (Settled(t)' <=> Settled(t)) /\ server'[t].up = server[t].up
      /\ OneAway'
  BY <1>2, SameNodesKept, Zenon
<1>4. run.pc = "apparmor" /\ \A t \in Servers : t < run.s \/ t = run.s => Settled(t) /\ server[t].up
  BY Zenon DEF LoadProfile, At, Reached, NodeSteps
<1>5. \/ /\ run' \in Runs /\ run'.token = run.token
         /\ run.s < N /\ run'.pc = "preflight" /\ run'.s = run.s + 1
      \/ /\ run' \in Runs /\ run'.token = run.token
         /\ ~(run.s < N) /\ run'.pc = "legacy" /\ run'.s = 1
  <2>1. "preflight" \in NodeSteps /\ "legacy" \in PlatformSteps
    BY DEF NodeSteps, PlatformSteps
  <2>2. CASE run.s < N
    BY <1>1, <2>1, <2>2, Zenon DEF LoadProfile, Runs
  <2>3. CASE ~(run.s < N)
    BY <1>1, <2>1, <2>3, Zenon DEF LoadProfile, Runs
  <2>4. QED
    BY <2>2, <2>3
<1>6. CASE run.s < N
  <2>1. \A t \in Servers : t < run'.s => t < run.s \/ t = run.s
    BY <1>5, <1>6, ServersFacts
  <2>2. Reached' /\ HandedOut'
    BY <1>3, <1>4, <1>5, <1>6, <2>1, Zenon DEF Reached, HandedOut, NodeSteps, PlatformSteps, WireSteps
  <2>3. NodeInv' /\ run.pc \in NodeSteps /\ run'.pc \in NodeSteps
    BY <1>2, <1>3, <1>4, <1>5, <1>6, <2>2, Zenon DEF NodeInv, NodeSteps
  <2>4. QED
    BY <1>5, <2>3, NodeGood, Zenon
<1>7. CASE ~(run.s < N)
  <2>1. \A t \in Servers : t < run.s \/ t = run.s
    BY <1>7, ServersFacts
  <2>2. Reached' /\ HandedOut'
    BY <1>3, <1>4, <1>5, <1>7, <2>1, Zenon DEF Reached, HandedOut, NodeSteps, PlatformSteps, WireSteps
  <2>3. NodeInv' /\ run.pc \in NodeSteps
    BY <1>2, <1>3, <1>4, <2>2, Zenon DEF NodeInv, NodeSteps
  <2>4. QED
    BY <1>5, <1>7, <2>3, NodeGood, Zenon
<1>8. QED
  BY <1>6, <1>7

\* The registry's configuration: the CA ...
LEMMA CAGood ==
    ASSUME IInv, WriteCA, UNCHANGED <<manifestVars, clusterVars, seedVars, tokenVars, otherVars>>
    PROVE  Good
<1> NodeTypes /\ OneAway /\ Reached /\ HandedOut /\ run \in Runs /\ run.s \in Servers
  BY ServersFacts, Zenon
<1>1. /\ run' \in Runs /\ run'.s = run.s /\ run'.token = run.token /\ run'.ca = run.ca /\ run.ca \in Contents
      /\ run.pc = "ca" /\ run'.pc = "registries" /\ server' = server /\ kernel' = kernel /\ buildCA' = buildCA
  BY Zenon DEF WriteCA, Differs, At, Runs, WireSteps, otherVars
<1>2. /\ disk' \in [Servers -> [Files -> Contents]] /\ disk'[run.s]["ca"] = run.ca
      /\ \A t \in Servers : /\ disk'[t]["config"] = disk[t]["config"]
                            /\ t # run.s => disk'[t]["ca"] = disk[t]["ca"]
  <2>1. "config" \in Files /\ "ca" \in Files
    BY DEF Files
  <2>2. QED
    BY <1>1, <2>1, EnsureFields DEF WriteCA
<1>3. \A t \in Servers : (Away(t)' <=> Away(t)) /\ (Settled(t)' <=> Settled(t))
  BY <1>1, <1>2, Zenon DEF Away, Settled
<1>4. NodeTypes' /\ OneAway' /\ Reached'
  BY <1>1, <1>2, <1>3, Zenon DEF NodeTypes, OneAway, Reached, NodeSteps, PlatformSteps, WireSteps
<1>5. \A t \in Servers : t < run.s => t # run.s
  BY ServersFacts
<1>6. HandedOut'
  BY <1>1, <1>2, <1>5, Zenon DEF HandedOut, PlatformSteps, WireSteps
<1>7. NodeInv' /\ run.pc \in WireSteps \ {"summary"} /\ run'.pc \in WireSteps
  BY <1>1, <1>4, <1>6, Zenon DEF NodeInv, WireSteps
<1>8. QED
  BY <1>1, <1>7, NodeGood, Zenon

\* ... a restart when it is new ...
LEMMA RestartGood ==
    ASSUME IInv, RestartK3s, UNCHANGED <<manifestVars, clusterVars, seedVars, tokenVars, otherVars>>
    PROVE  Good
<1> NodeTypes /\ OneAway /\ Reached /\ HandedOut /\ run \in Runs /\ run.s \in Servers
  BY ServersFacts, Zenon
<1>1. /\ run' \in Runs /\ run'.s = run.s /\ run'.token = run.token /\ run'.ca = run.ca
      /\ run.pc = "restart" /\ run'.pc = "readyz" /\ disk' = disk /\ kernel' = kernel /\ buildCA' = buildCA
  BY DEF RestartK3s, At, Goto, Runs, WireSteps, otherVars
<1>2. server[run.s].version \in {"none", "old", "new"} /\ Start(run.s, server[run.s].version)
  BY DEF RestartK3s, NodeTypes, K3s
<1>3. /\ server' \in [Servers -> K3s] /\ server'[run.s].version = server[run.s].version /\ server'[run.s].active
      /\ \A t \in Servers \ {run.s} : server'[t] = server[t]
  BY <1>2, StartServer, Zenon
<1>4. \A t \in Servers : Settled(t) /\ server[t].up
  BY <1>1, Zenon DEF Reached, WireSteps
<1>5. \A t \in Servers : Settled(t)' /\ (t # run.s => server'[t].up)
  BY <1>1, <1>3, <1>4, Zenon DEF Settled
<1>6. OneAway'
  BY <1>5, Zenon DEF OneAway, Away, Settled
<1>7. NodeTypes' /\ Reached' /\ HandedOut'
  BY <1>1, <1>3, <1>5, Zenon DEF NodeTypes, Reached, HandedOut, NodeSteps, PlatformSteps, WireSteps
<1>8. NodeInv' /\ run.pc \in WireSteps \ {"summary"} /\ run'.pc \in WireSteps
  BY <1>1, <1>6, <1>7, Zenon DEF NodeInv, WireSteps
<1>9. QED
  BY <1>1, <1>8, NodeGood, Zenon

\* ... and on to the next server.
LEMMA RegistriesGood ==
    ASSUME IInv, WriteRegistries \/ WaitAPIReady, UNCHANGED <<manifestVars, clusterVars, seedVars, tokenVars, otherVars>>
    PROVE  Good
<1> NodeTypes /\ OneAway /\ Reached /\ HandedOut /\ run \in Runs /\ run.s \in Servers
  BY ServersFacts, Zenon
<1>1. SameNodes /\ NodeTypes'
  <2>1. CASE WriteRegistries
    <3>1. Files = {"sysctl", "policy", "config", "profile", "ca", "registries"} /\ "new" \in Contents
      BY DEF Files, Contents
    <3>2. QED
      BY <2>1, <3>1, EnsureFields DEF SameNodes, NodeTypes, WriteRegistries
  <2>2. CASE WaitAPIReady
    BY <2>2, Zenon DEF NodeTypes, SameNodes, WaitAPIReady, nodeVars
  <2>3. QED
    BY <2>1, <2>2
<1>2. /\ \A t \in Servers : (Away(t)' <=> Away(t)) /\ (Settled(t)' <=> Settled(t)) /\ server'[t].up = server[t].up
      /\ OneAway'
  BY <1>1, SameNodesKept, Zenon
<1>3. 1 \in Servers /\ (run.s < N => run.s + 1 \in Servers) /\ \A t \in Servers : ~(t < 1)
  BY ServersFacts
<1>4. /\ NextServer \in Runs /\ NextServer.ca = run.ca /\ NextServer.token = run.token
      /\ run.s < N => NextServer.pc = "ca" /\ NextServer.s = run.s + 1
      /\ ~(run.s < N) => NextServer.pc = "summary" /\ NextServer.s = 1
  <2>1. "ca" \in WireSteps /\ "summary" \in WireSteps
    BY DEF WireSteps
  <2>2. CASE run.s < N
    BY <1>3, <2>1, <2>2, Zenon DEF NextServer, Runs
  <2>3. CASE ~(run.s < N)
    BY <1>3, <2>1, <2>3, Zenon DEF NextServer, Runs
  <2>4. QED
    BY <2>2, <2>3
<1>5. /\ run.pc \in {"registries", "readyz"} /\ run' \in Runs /\ run'.token = run.token /\ run'.ca = run.ca
      /\ \/ run.pc = "registries" /\ run'.pc = "restart" /\ run'.s = run.s
         \/ run' = NextServer
      /\ run.pc = "readyz" => server[run.s].up
  <2>1. CASE WriteRegistries
    BY <1>4, <2>1, Zenon DEF WriteRegistries, At, Runs, WireSteps
  <2>2. CASE WaitAPIReady
    BY <1>4, <2>2, Zenon DEF WaitAPIReady, APIReady, At
  <2>3. QED
    BY <2>1, <2>2
<1>6. \A t \in Servers : Settled(t) /\ server[t].up
  BY <1>5, Zenon DEF Reached, WireSteps
<1>7. run'.pc \in {"restart", "ca", "summary"}
  BY <1>4, <1>5, Zenon
<1>8. Reached'
  BY <1>2, <1>6, <1>7, Zenon DEF Reached, NodeSteps, WireSteps, PlatformSteps
<1>9. /\ buildCA' = run'.ca
      /\ \A t \in Servers : t < run.s \/ t = run.s => disk'[t]["ca"] = buildCA'
  BY <1>1, <1>5, Zenon DEF HandedOut, WireSteps, SameNodes, otherVars
<1>10. \A t \in Servers : t < run'.s \/ run'.pc = "summary" \/ (run'.pc = "restart" /\ t = run'.s)
                             => t < run.s \/ t = run.s
  BY <1>4, <1>5, ServersFacts
<1>11. HandedOut'
  <2>1. run'.s \in Servers
    BY <1>5, Zenon DEF Runs
  <2>2. QED
    BY <1>7, <1>9, <1>10, <2>1, Zenon DEF HandedOut, WireSteps, PlatformSteps
<1>12. NodeInv' /\ run.pc \in WireSteps \ {"summary"} /\ run'.pc \in WireSteps
  BY <1>1, <1>2, <1>5, <1>7, <1>8, <1>11, Zenon DEF NodeInv, WireSteps
<1>13. QED
  BY <1>5, <1>12, NodeGood, Zenon

LEMMA BootstrapGood ==
    ASSUME IInv, Bootstrap
    PROVE  Good
  BY HostGood, ConfigGood, ConvergeGood, ReadyGood, ProfileGood, CAGood, RestartGood, RegistriesGood, Zenon
    DEF Bootstrap, NodeStep

-----------------------------------------------------------------------------
(* The theorems *)

LEMMA InvStep ==
    ASSUME IInv, Next
    PROVE  Good
<1>1. CASE InitStep
  BY <1>1, BootstrapGood, LegacyGood, PersistGood, MigrateGood, CRDsGood, ApplyGood, EstablishedGood, ManifestsGood,
      NamespaceGood, LookGood, CreateGood, SeedGood, WorkloadsGood, WireGood, EndingGood, Zenon
    DEF InitStep, Ending
<1>2. CASE ~InitStep
  BY <1>2, BeginGood, KillGood, EndingGood, AroundGood, Zenon DEF Next, Ending, Around
<1>3. QED
  BY <1>1, <1>2

LEMMA InvStutter ==
    ASSUME IInv, UNCHANGED vars
    PROVE  IInv'
<1> USE DEF vars, nodeVars, manifestVars, clusterVars, seedVars, tokenVars, otherVars
<1>1. run' \in Runs /\ NodeTypes' /\ OneAway' /\ Reached' /\ HandedOut'
  BY Zenon DEF IInv, NodeInv, NodeTypes, OneAway, Reached, HandedOut, Away, Settled
<1>2. PlatformTypes' /\ Positions' /\ ByOrigin'
  BY Zenon DEF IInv, PlatformInv, PlatformTypes, Positions, ByOrigin
<1>3. Deployed'
  BY Zenon DEF IInv, PlatformInv, Deployed, CRDReady
<1>4. Stored' /\ RunToken' /\ MintStored'
  BY Zenon DEF IInv, PlatformInv, Stored, RunToken, MintStored
<1>5. QED
  BY <1>1, <1>2, <1>3, <1>4, Zenon DEF IInv, NodeInv, PlatformInv

LEMMA Invariant == Spec => []IInv
<1>1. IInv /\ [Next]_vars => IInv'
  BY InvStep, InvStutter, Zenon DEF Good
<1>2. QED
  BY InvInit, <1>1, PTL DEF Spec

\* However often `orkano init` is cut short and repeated, with any number of
\* failures, kills and minted tokens, the cluster stays sound: the operator is
\* deployed only after its CRDs are there and Established (splitCRDManifests,
\* applyAndWaitCRDs), no two joined servers are away at once (installOrConverge and
\* the registry's restart), and a completed run has configured every server with
\* the CA it published (WireRegistry, WriteNodeRegistry).
THEOREM InitKeepsClusterSound == Spec => []ClusterSound
<1>1. IInv => ClusterSound
  <2> SUFFICES ASSUME IInv PROVE ClusterSound
    OBVIOUS
  <2>1. TypeOK /\ PlatformTypes /\ Deployed /\ OneAway /\ HandedOut
    <3>1. PlatformTypes /\ Deployed /\ OneAway /\ HandedOut
      BY Zenon DEF IInv, NodeInv, PlatformInv
    <3>2. TypeOK
      BY Lists DEF TypeOK, IInv, NodeInv, PlatformInv, NodeTypes, PlatformTypes
    <3>3. QED
      BY <3>1, <3>2
  <2>2. CRDsFirst
    <3> SUFFICES ASSUME applied["operator"] = "new", NEW f \in CRDs
                 PROVE  crds[f] = [content |-> "new", established |-> TRUE]
      BY Zenon DEF CRDsFirst
    <3>1. crds[f].content = "new" /\ crds[f].established
      BY <2>1, Zenon DEF Deployed, CRDReady
    <3>2. crds[f] \in CRDObject
      BY <2>1 DEF PlatformTypes
    <3>3. QED
      BY <3>1, <3>2, Zenon DEF CRDObject
  <2>3. QuorumKept
    BY <2>1, Zenon DEF QuorumKept, OneAway, Away
  <2>4. SameCAEverywhere
    BY <2>1, Zenon DEF SameCAEverywhere, HandedOut, At
  <2>5. QED
    BY <2>1, <2>2, <2>3, <2>4 DEF ClusterSound
<1>2. QED
  BY Invariant, <1>1, PTL

\* What an upgrade or a repetition must not lose, whatever fails: once a CRD is in
\* the cluster no step takes it away, which would cost its custom resources
\* (writeInline and writeChunked go through a rename), and the older receiver's
\* allow-list is in place until it is stored (PersistLegacy).
THEOREM InitKeepsResourcesAndPolicy == Spec => []LegacyPolicyKept /\ CustomResourcesKept
<1>1. IInv => LegacyPolicyKept
  BY Zenon DEF IInv, PlatformInv, Stored, LegacyPolicyKept
<1>2. IInv /\ [Next]_vars => [\A f \in CRDs : crds[f].content # "none" => crds'[f].content # "none"]_vars
  BY InvStep, Zenon DEF Good
<1>3. QED
  BY Invariant, <1>1, <1>2, PTL DEF CustomResourcesKept, Spec

\* As long as `kubectl get secret` does not fail on a Secret that is there
\* (MaxMisreads = 0; createSecretIfAbsent takes any failure for absence), nothing a
\* user has is lost: besides the above, Postgres's superuser Secret keeps the
\* password the database was initialised with.
THEOREM InitKeepsData == MaxMisreads = 0 => (Spec => DataKept)
<1> SUFFICES ASSUME MaxMisreads = 0 PROVE Spec => DataKept
  OBVIOUS
<1>1. NotThere /\ PasswordKept /\ UNCHANGED vars => NotThere' /\ PasswordKept'
  BY DEF NotThere, PasswordKept, vars, seedVars, clusterVars
<1>2. IInv /\ NotThere /\ PasswordKept /\ [Next]_vars => NotThere' /\ PasswordKept'
  BY <1>1, InvStep, Zenon DEF Good
<1>3. Spec => [](NotThere /\ PasswordKept)
  BY Invariant, InvInit, <1>2, PTL DEF Spec
<1>4. QED
  BY <1>3, InitKeepsResourcesAndPolicy, PTL DEF DataKept

\* The administrator gets a token that works: a run that created the bootstrap
\* token shows it however it ends unless it is killed
\* (printBootstrapTokenAfterFailure), a token is shown only if its hash is the one
\* stored, and once bootstrap-token has reported the rollout complete no dashboard
\* pod accepts another one.
THEOREM InitShowsWorkingToken == Spec => TokenShown /\ ShownTokenWorks
<1>1. IInv /\ [Next]_vars
        => [run.token # 0 /\ run'.token = 0 /\ run'.pc # "killed" => shown' = run.token]_vars
  BY InvStep, Zenon DEF Good
<1>2. IInv /\ IInv' /\ [Next]_vars
        => [/\ shown' # shown => shown' = secrets'["token"]
            /\ live' => dashboards' = {shown'}]_vars
  <2>1. IInv' => (live' => dashboards' = {shown'})
    BY Zenon DEF IInv, PlatformInv, MintStored
  <2>2. QED
    BY <2>1, InvStep, Zenon DEF Good
<1>3. QED
  BY Invariant, <1>1, <1>2, PTL DEF TokenShown, ShownTokenWorks, Spec
=============================================================================
