------------------------------ MODULE K3sNode ------------------------------
(***************************************************************************)
(* One server of the cluster as `orkano init` brings it up: the preflight, *)
(* the k3s bootstrap (internal/k3s), the build confinement profile         *)
(* (internal/nodeprep) and the container runtime's registry configuration  *)
(* (WriteNodeRegistry of internal/install).  Every action here is one      *)
(* remote command, or one command with the read that decides it: only the  *)
(* run itself writes a server's files, so nothing comes between those two. *)
(*                                                                         *)
(* A file is represented by which release's content it holds; one whose    *)
(* write was cut short is a file that differs from what the run wants, as  *)
(* it was before.  k3s reads the files of AtStart only when it starts, so  *)
(* what it runs with may differ from what is on disk.                      *)
(***************************************************************************)
EXTENDS Naturals, FiniteSets, Sequences

CONSTANT N            \* how many servers the run was given with --node

\* runInit refuses any other count.
ASSUME ServerCount == N \in {1, 3}

VARIABLES
    run,              \* the init run: where it is and what it remembers
    disk,             \* server -> file -> content
    kernel,           \* server -> what the kernel has loaded
    server            \* server -> the k3s service

Servers == 1..N

Contents == {"none", "old", "new"}

Files == {"sysctl", "policy", "config", "profile", "ca", "registries"}

AtStart == {"policy", "config", "ca", "registries"}

Kernels == [sysctl : Contents, profile : {"none", "complain", "old", "new"}]

K3s == [version : {"none", "old", "new"}, active : BOOLEAN, up : BOOLEAN,
        joined : BOOLEAN, started : [AtStart -> Contents]]

nodeVars == <<disk, kernel, server>>

\* The steps of the run on one server before and after the platform's own steps.
NodeSteps ==
    {"preflight", "sysctl", "sysctl-p", "policy", "config", "converge", "ready", "profile",
     "apparmor"}

WireSteps == {"ca", "registries", "restart", "readyz", "summary"}

-----------------------------------------------------------------------------

At(pc) == run.pc = pc

Goto(pc) == run' = [run EXCEPT !.pc = pc]

\* ensureFile writes only a file whose content differs, and says whether it did.
Differs(f, content) == disk[run.s][f] # content

EnsureFile(f, content) == disk' = [disk EXCEPT ![run.s][f] = content]

\* runPreflight with AllowExistingK3s: the ports k3s listens on must be free,
\* unless they are k3s's own and its API answers /readyz.
PreflightOK == server[run.s].active => server[run.s].up

Preflight ==
    /\ At("preflight")
    /\ PreflightOK
    /\ Goto("sysctl")
    /\ UNCHANGED nodeVars

\* applyHostPrereqs: the kernel parameters are written, and loaded when the file
\* changed or k3s is not there yet; then the audit and admission policies.
WriteSysctl ==
    /\ At("sysctl")
    /\ EnsureFile("sysctl", "new")
    /\ Goto(IF Differs("sysctl", "new") \/ server[run.s].version = "none"
            THEN "sysctl-p" ELSE "policy")
    /\ UNCHANGED <<kernel, server>>

LoadSysctl ==
    /\ At("sysctl-p")
    /\ kernel' = [kernel EXCEPT ![run.s].sysctl = disk[run.s]["sysctl"]]
    /\ Goto("policy")
    /\ UNCHANGED <<disk, server>>

WritePolicy ==
    /\ At("policy")
    /\ EnsureFile("policy", "new")
    /\ Goto("config")
    /\ UNCHANGED <<kernel, server>>

\* installOrConverge, first half: config.yaml.
WriteConfig ==
    /\ At("config")
    /\ EnsureFile("config", "new")
    /\ run' = [run EXCEPT !.pc = "converge", !.changed = Differs("config", "new")]
    /\ UNCHANGED <<kernel, server>>

\* k3s (re)starts: it reads its files, and its API is away until it is back.
Start(s, version) ==
    server' = [server EXCEPT ![s] =
                  [version |-> version, active |-> TRUE, up |-> FALSE, joined |-> @.joined,
                   started |-> [f \in AtStart |-> disk[s][f]]]]

\* installOrConverge, second half: install or upgrade, restart on a changed
\* configuration, start a stopped service, or leave k3s alone.
InstallOrConverge ==
    /\ At("converge")
    /\ IF \/ server[run.s].version # "new"
          \/ run.changed
          \/ ~server[run.s].active
       THEN Start(run.s, "new")
       ELSE UNCHANGED server
    /\ run' = [run EXCEPT !.pc = "ready", !.changed = FALSE]
    /\ UNCHANGED <<disk, kernel>>

\* The installer script may stop after it has put the binary in place and before
\* it has (re)started the service.
HalfInstalled(s) == [server EXCEPT ![s].version = "new"]

\* waitReady asks this server's own API, and counts the nodes that are Ready. A
\* node that has just restarted still counts: its condition outlives the restart.
ReadyEnough ==
    /\ server[run.s].up
    /\ Cardinality({s \in Servers : server[s].joined}) >= run.s

\* waitReady, then verify: secrets encryption and auditing come with the
\* configuration k3s was started with; then the kubeconfig and the join token.
WaitReady ==
    /\ At("ready")
    /\ ReadyEnough
    /\ \A f \in {"config", "policy"} : server[run.s].started[f] \in {"old", "new"}
    /\ Goto("profile")
    /\ UNCHANGED nodeVars

\* EnsureAppArmorProfile: write, then load when the file changed or the profile
\* is not loaded in enforce mode.
WriteProfile ==
    /\ At("profile")
    /\ EnsureFile("profile", "new")
    /\ run' = [run EXCEPT !.pc = "apparmor", !.changed = Differs("profile", "new")]
    /\ UNCHANGED <<kernel, server>>

\* The last step on a server: the next server follows, then the components.
LoadProfile ==
    /\ At("apparmor")
    /\ kernel' = IF run.changed \/ kernel[run.s].profile \in {"none", "complain"}
                 THEN [kernel EXCEPT ![run.s].profile = disk[run.s]["profile"]]
                 ELSE kernel
    /\ run' = IF run.s < N
              THEN [run EXCEPT !.pc = "preflight", !.s = @ + 1, !.changed = FALSE]
              ELSE [run EXCEPT !.pc = "legacy", !.s = 1, !.changed = FALSE]
    /\ UNCHANGED <<disk, server>>

-----------------------------------------------------------------------------

\* WriteNodeRegistry: the CA the run has read, then registries.yaml and the
\* managed line of /etc/hosts.  k3s restarts only when one of the first two
\* changed in this run, and the run waits for this server's API before it goes on.
WriteCA ==
    /\ At("ca")
    /\ EnsureFile("ca", run.ca)
    /\ run' = [run EXCEPT !.pc = "registries", !.changed = Differs("ca", run.ca)]
    /\ UNCHANGED <<kernel, server>>

NextServer ==
    IF run.s < N
    THEN [run EXCEPT !.pc = "ca", !.s = @ + 1, !.changed = FALSE]
    ELSE [run EXCEPT !.pc = "summary", !.s = 1, !.changed = FALSE]

WriteRegistries ==
    /\ At("registries")
    /\ EnsureFile("registries", "new")
    /\ run' = IF run.changed \/ Differs("registries", "new")
              THEN [run EXCEPT !.pc = "restart"]
              ELSE NextServer
    /\ UNCHANGED <<kernel, server>>

RestartK3s ==
    /\ At("restart")
    /\ Start(run.s, server[run.s].version)
    /\ Goto("readyz")
    /\ UNCHANGED <<disk, kernel>>

\* Mutant of APIReady: the restart is not waited for.
APIReady_Assumed == TRUE

APIReady == server[run.s].up

WaitAPIReady ==
    /\ At("readyz")
    /\ APIReady
    /\ run' = NextServer
    /\ UNCHANGED nodeVars

NodeStep ==
    \/ Preflight \/ WriteSysctl \/ LoadSysctl \/ WritePolicy \/ WriteConfig
    \/ InstallOrConverge \/ WaitReady \/ WriteProfile \/ LoadProfile
    \/ WriteCA \/ WriteRegistries \/ RestartK3s \/ WaitAPIReady

-----------------------------------------------------------------------------

\* k3s comes up: protect-kernel-defaults needs the kernel parameters loaded, and
\* a server joins through the first one.
ComeUp(s) ==
    /\ server[s].active
    /\ ~server[s].up
    /\ kernel[s].sysctl # "none"
    /\ s = 1 \/ server[s].joined \/ server[1].up
    /\ server' = [server EXCEPT ![s].up = TRUE, ![s].joined = TRUE]
    /\ UNCHANGED <<run, disk, kernel>>

=============================================================================
