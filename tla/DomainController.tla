--------------------------- MODULE DomainController ---------------------------
(***************************************************************************)
(* The Domain controller: it gives a host to the oldest Domain that claims *)
(* it, as an Ingress of the Domain's name, and derives the URL of an App   *)
(* from the Domains that point at it.                                      *)
(*                                                                         *)
(*   operator/internal/controller/domain_controller.go                     *)
(*                                                                         *)
(* The controller has one worker, so at most one Domain is reconciled at a *)
(* time.  Domains, Ingresses and Apps are read from informer caches, except*)
(* the App in updateAppURL, which is read live.  Host and App of a Domain  *)
(* are immutable: what a Domain is about is fixed by its uid.  The caches  *)
(* of Apps and Certificates, which only the Ready condition depends on, are*)
(* current.  Of the resourceVersions the model keeps what the API server   *)
(* compares: whether an object was written since a copy of it was taken.   *)
(***************************************************************************)
EXTENDS Integers, FiniteSets

CONSTANTS
    None,
    Domains,      \* Domain names
    NameRank,     \* [Domains -> Nat]: order of the names
    Hosts, Apps,
    MaxBorn, MaxDeletes,  \* bounds on the Domains that are created and deleted
    MaxFaults     \* bound on failed calls, restarts and changes of Certificates, Apps and foreign Ingresses

Uids == 1..MaxBorn
Foreign == 0      \* the owner of an Ingress that Orkano did not create

Readys == {"unset", "ready", "waiting", "conflict", "failed"}   \* the Ready condition
DomainRecords == [uid : Uids, host : Hosts, app : Apps, stamp : Nat,
                  meta : {"bare", "finalizer", "deleting"}, ready : Readys]
AppRecords == [there : BOOLEAN, web : BOOLEAN, url : Hosts \cup {None}]

ASSUME DomainConstants ==
    /\ NameRank \in [Domains -> Nat]
    /\ \A d, e \in Domains : NameRank[d] = NameRank[e] => d = e
    /\ MaxBorn \in Nat /\ MaxDeletes \in Nat /\ MaxFaults \in Nat
    /\ None \notin Hosts \cup Nat \cup DomainRecords \cup AppRecords

VARIABLES
    dom,       \* [Domains -> Domain or None]
    app,       \* [Apps -> App]
    ing,       \* [Domains -> owner of the Ingress of that name, or None]
    cert,      \* Domains whose Certificate is ready
    dcache, icache,  \* what the informers show of Domains and Ingresses
    behind,    \* Domains written since dcache was filled
    dirty,     \* Domains in the work queue
    pc, key, b, base, seen,  \* the reconcile: step, Domain, copy, statusBefore, App
    bFresh, seenFresh,  \* nobody has written the Domain since b, the App since seen was read
    born, clock,  \* uid and creationTimestamp (in seconds) of the newest Domain
    deletes, faults

objects == <<dom, app, ing, cert>>
caches  == <<dcache, icache, behind>>
local   == <<pc, key, b, base, seen, bFresh, seenFresh>>
vars    == <<objects, caches, dirty, local, born, clock, deletes, faults>>

Fault == faults < MaxFaults /\ faults' = faults + 1

Init ==
    /\ dom = [d \in Domains |-> None]
    /\ app = [x \in Apps |-> [there |-> TRUE, web |-> TRUE, url |-> None]]
    /\ ing = [d \in Domains |-> None]
    /\ cert = {}
    /\ dcache = dom /\ icache = ing /\ behind = {}
    /\ dirty = {}
    /\ pc = "idle" /\ key = None /\ b = None /\ base = None /\ seen = None
    /\ bFresh = FALSE /\ seenFresh = FALSE
    /\ born = 0 /\ clock = 0
    /\ deletes = 0 /\ faults = 0

(***************************************************************************)
(* Users, cert-manager, the garbage collector and the informers.           *)
(***************************************************************************)

CreateDomain(d, h, x) ==
    /\ dom[d] = None /\ born < MaxBorn
    /\ born' = born + 1
    /\ clock' = clock \/ (born > 0 /\ clock' = clock + 1)   \* in the second of the last one, or later
    /\ dom' = [dom EXCEPT ![d] = [uid |-> born + 1, host |-> h, app |-> x,
                                  stamp |-> clock', meta |-> "bare", ready |-> "unset"]]
    /\ behind' = behind \cup {d}
    /\ UNCHANGED <<app, ing, cert, dcache, icache, dirty, local, deletes, faults>>

DeleteDomain(d) ==
    /\ dom[d] # None /\ deletes < MaxDeletes /\ deletes' = deletes + 1
    /\ \/ /\ dom[d].meta = "finalizer"
          /\ dom' = [dom EXCEPT ![d].meta = "deleting"]
       \/ /\ dom[d].meta = "bare"                   \* nothing holds it: gone at once
          /\ dom' = [dom EXCEPT ![d] = None]
    /\ behind' = behind \cup {d}
    /\ bFresh' = (bFresh /\ key # d)
    /\ UNCHANGED <<app, ing, cert, dcache, icache, dirty, pc, key, b, base, seen, seenFresh,
                   born, clock, faults>>

\* mapAppToDomains: the Domains the cache shows for a changed App.
AppDomains(x) == {d \in Domains : dcache[d] # None /\ dcache[d].app = x}

\* An App is deleted, created, changes its type, or has its status written by
\* the App controller.
ChangeApp(x) ==
    /\ Fault
    /\ \/ app' = [app EXCEPT ![x].there = ~@, ![x].url = None]
       \/ app[x].there /\ app' = [app EXCEPT ![x].web = ~@]
       \/ seenFresh /\ app[x].there /\ UNCHANGED app
    /\ dirty' = dirty \cup AppDomains(x)
    /\ seenFresh' = FALSE
    /\ UNCHANGED <<dom, ing, cert, caches, pc, key, b, base, seen, bFresh, born, clock, deletes>>

\* ingress-shim and cert-manager: a Certificate becomes ready, or is lost.
ChangeCert(d) ==
    /\ Fault
    /\ \/ ing[d] \in Uids /\ d \notin cert /\ cert' = cert \cup {d}
       \/ d \in cert /\ cert' = cert \ {d}
    /\ dirty' = dirty \cup {d}               \* mapCertificateToDomain
    /\ UNCHANGED <<dom, app, ing, caches, local, born, clock, deletes>>

\* Somebody else's Ingress takes the name of a Domain's.
CreateForeign(d) ==
    /\ Fault
    /\ ing[d] = None /\ ing' = [ing EXCEPT ![d] = Foreign]
    /\ UNCHANGED <<dom, app, cert, caches, dirty, local, born, clock, deletes>>

CollectGarbage(d) ==
    /\ ing[d] \in Uids /\ \A e \in Domains : dom[e] # None => dom[e].uid # ing[d]
    /\ ing' = [ing EXCEPT ![d] = None]
    /\ UNCHANGED <<dom, app, cert, caches, dirty, local, born, clock, deletes, faults>>

HostsOf(x) == IF x = None THEN {} ELSE {x.host}

\* Mutant of HostPeers: no Domain learns of another one's events.
HostPeers_None(old, new) == {}

\* mapDomainToHostPeers: the other Domains the cache shows for a changed host.
HostPeers(old, new) ==
    {e \in Domains : new[e] # None /\ \E d \in behind \ {e} : new[e].host \in HostsOf(old[d]) \cup HostsOf(new[d])}

SyncDomains ==
    /\ behind # {}
    /\ dcache' = dom /\ behind' = {}
    /\ dirty' = dirty \cup behind \cup HostPeers(dcache, dom)
    /\ UNCHANGED <<objects, icache, local, born, clock, deletes, faults>>

\* Owns: an event of an Ingress that has an owner enqueues the Domain.
SyncIngresses ==
    /\ icache # ing
    /\ icache' = ing
    /\ dirty' = dirty \cup {d \in Domains : icache[d] # ing[d] /\ {icache[d], ing[d]} \cap Uids # {}}
    /\ UNCHANGED <<objects, dcache, behind, local, born, clock, deletes, faults>>

\* Mutant of NoReconcile: the copy of the Domain is kept.
NoReconcile_KeepsCopy ==
    /\ pc' = "idle" /\ key' = None /\ base' = None /\ seen' = None
    /\ bFresh' = FALSE /\ seenFresh' = FALSE /\ UNCHANGED b

\* No reconcile is under way.
NoReconcile ==
    /\ pc' = "idle" /\ key' = None /\ b' = None /\ base' = None /\ seen' = None
    /\ bFresh' = FALSE /\ seenFresh' = FALSE

Restart ==
    /\ Fault /\ NoReconcile
    /\ dcache' = dom /\ icache' = ing /\ behind' = {}
    /\ dirty' = {d \in Domains : dom[d] # None}
    /\ UNCHANGED <<objects, born, clock, deletes>>

(***************************************************************************)
(* Reconcile.                                                              *)
(***************************************************************************)

Goto(label) == pc' = label

Finish(err) == NoReconcile /\ dirty' = IF err THEN dirty \cup {key} ELSE dirty

\* updateAppURL reads the live App first.
AfterURL(x) == IF x.meta = "deleting" THEN "unfinalize" ELSE "status"
ReadApp(x) ==
    /\ seen' = app[x.app] /\ seenFresh' = TRUE
    /\ Goto(IF app[x.app].there THEN "url" ELSE AfterURL(x))

Get(d) ==
    /\ pc = "idle" /\ d \in dirty /\ dirty' = dirty \ {d}
    /\ IF dcache[d] = None
       THEN UNCHANGED local
       ELSE /\ key' = d /\ b' = dcache[d] /\ base' = dcache[d].ready /\ bFresh' = (d \notin behind)
            /\ IF dcache[d].meta = "deleting"
               THEN ReadApp(dcache[d])
               ELSE Goto("finalizer") /\ UNCHANGED <<seen, seenFresh>>
    /\ UNCHANGED <<objects, caches, born, clock, deletes, faults>>

\* A write of the Domain: the API server refuses it unless the copy is the latest.
Write(x)       == bFresh /\ dom' = [dom EXCEPT ![key] = x] /\ behind' = behind \cup {key}
Refused        == ~bFresh /\ Finish(TRUE) /\ UNCHANGED <<dom, behind>>
WriteFinalizer == Write([b EXCEPT !.meta = "finalizer"])

\* Mutant of OlderDomain: the creationTimestamp is not looked at.
OlderDomain_ByName(ds, d, e) == NameRank[d] < NameRank[e]

\* olderDomain: creationTimestamp, then name.
OlderDomain(ds, d, e) ==
    IF ds[d].stamp # ds[e].stamp THEN ds[d].stamp < ds[e].stamp ELSE NameRank[d] < NameRank[e]
IsOldest(ds, d, S) == d \in S /\ \A e \in S \ {d} : OlderDomain(ds, d, e)

\* hostWinner: the oldest Domain of the host that is not being deleted.
Live(ds) == {d \in Domains : ds[d] # None /\ ds[d].meta # "deleting"}
HostWinner(ds, d, h) == IsOldest(ds, d, {e \in Live(ds) : ds[e].host = h})

Contest(ds) == Goto(IF HostWinner(ds, key, b.host) THEN "ingress" ELSE "yield")

AddFinalizer ==
    /\ pc = "finalizer"
    /\ \/ /\ b.meta # "bare"
          /\ Contest(dcache)
          /\ UNCHANGED <<dom, behind, b, key, base, seen, bFresh, seenFresh, dirty>>
       \/ /\ b.meta = "bare" /\ WriteFinalizer /\ b' = dom'[key]
          /\ Contest(dcache)
          /\ UNCHANGED <<key, base, seen, bFresh, seenFresh, dirty>>
       \/ b.meta = "bare" /\ Refused
    /\ UNCHANGED <<app, ing, cert, dcache, icache, born, clock, deletes, faults>>

\* deleteOwnIngress decides on the cached Ingress and deletes by name.
DeleteOwnIngress == ing' = IF icache[key] = b.uid THEN [ing EXCEPT ![key] = None] ELSE ing

Yield ==
    /\ pc = "yield"
    /\ DeleteOwnIngress
    /\ b' = [b EXCEPT !.ready = "conflict"]
    /\ ReadApp(b)
    /\ UNCHANGED <<dom, app, cert, caches, dirty, key, base, bFresh, born, clock, deletes, faults>>

\* failReady: the reason goes into the status; App.status.url is left alone.
FailReady ==
    /\ b' = [b EXCEPT !.ready = "failed"]
    /\ Goto("status")

CreateIngress == icache[key] = None /\ ing[key] = None /\ ing' = [ing EXCEPT ![key] = b.uid]

\* CreateOrUpdate: an Ingress without an owner, of another owner, or that the
\* cache does not show is refused.
EnsureIngress ==
    /\ pc = "ingress"
    /\ \/ CreateIngress /\ Goto("observe") /\ UNCHANGED b
       \/ icache[key] = b.uid /\ Goto("observe") /\ UNCHANGED <<ing, b>>
       \/ icache[key] # b.uid /\ ~(icache[key] = None /\ ing[key] = None) /\ FailReady /\ UNCHANGED ing
    /\ UNCHANGED <<dom, app, cert, caches, dirty, key, base, seen, bFresh, seenFresh, born, clock, deletes, faults>>

\* observeCertificate mirrors the Ready condition of the Certificate.
CertReady == key \in cert

\* The Ready condition, from the App and the Certificate.
Observe ==
    /\ pc = "observe"
    /\ LET x == app[b.app] IN
       b' = [b EXCEPT !.ready = IF x.there /\ x.web /\ CertReady THEN "ready" ELSE "waiting"]
    /\ ReadApp(b)
    /\ UNCHANGED <<objects, caches, dirty, key, base, bFresh, born, clock, deletes, faults>>

\* The URL from the cached Domains, which is written if it differs.
URLFrom(ds, S) == IF S = {} THEN None ELSE ds[CHOOSE d \in S : IsOldest(ds, d, S)].host
URL(ds, x, web) ==
    IF web THEN URLFrom(ds, {d \in Live(ds) : ds[d].app = x /\ HostWinner(ds, d, ds[d].host)}) ELSE None

\* Mutant of Derived: Domains being deleted still count.
Derived_Deleting ==
    IF seen.web THEN URLFrom(dcache, {e \in Domains : dcache[e] # None /\ dcache[e].app = b.app}) ELSE None

Derived  == URL(dcache, b.app, seen.web)
WriteURL == seenFresh /\ app' = [app EXCEPT ![b.app].url = Derived]

UpdateAppURL ==
    /\ pc = "url"
    /\ \/ /\ IF seen.url = Derived THEN UNCHANGED <<app, dirty>>
                                  ELSE WriteURL /\ dirty' = dirty \cup AppDomains(b.app)
          /\ IF b.meta # "deleting" /\ b.ready = base
             THEN NoReconcile                   \* updateStatus has nothing to write
             ELSE /\ Goto(AfterURL(b)) /\ seen' = None /\ seenFresh' = FALSE
                  /\ UNCHANGED <<key, b, base, bFresh>>
       \/ seen.url # Derived /\ ~seenFresh /\ Finish(TRUE) /\ UNCHANGED app
    /\ UNCHANGED <<dom, ing, cert, caches, born, clock, deletes, faults>>

RemoveFinalizer ==
    /\ pc = "unfinalize"
    /\ (Write(None) /\ Finish(FALSE)) \/ Refused
    /\ UNCHANGED <<app, ing, cert, dcache, icache, born, clock, deletes, faults>>

UpdateStatus ==
    /\ pc = "status"
    /\ \/ b.ready = base /\ Finish(b.ready = "failed") /\ UNCHANGED <<dom, behind>>
       \/ b.ready # base /\ Write(b) /\ Finish(b.ready = "failed")
       \/ b.ready # base /\ Refused
    /\ UNCHANGED <<app, ing, cert, dcache, icache, born, clock, deletes, faults>>

\* A call fails, without an effect or after it.
CallError ==
    /\ pc # "idle" /\ Fault
    /\ \/ UNCHANGED <<dom, behind, app, ing>>
       \/ pc = "finalizer" /\ b.meta = "bare" /\ WriteFinalizer /\ UNCHANGED <<app, ing>>
       \/ pc = "yield" /\ DeleteOwnIngress /\ UNCHANGED <<dom, behind, app>>
       \/ pc = "ingress" /\ CreateIngress /\ UNCHANGED <<dom, behind, app>>
       \/ pc = "url" /\ seen.url # Derived /\ WriteURL /\ UNCHANGED <<dom, behind, ing>>
       \/ pc = "unfinalize" /\ Write(None) /\ UNCHANGED <<app, ing>>
       \/ pc = "status" /\ b.ready # base /\ Write(b) /\ UNCHANGED <<app, ing>>
    /\ IF pc \in {"yield", "ingress", "observe"}
       THEN FailReady /\ UNCHANGED <<key, base, seen, bFresh, seenFresh, dirty>>
       ELSE NoReconcile /\ dirty' = dirty \cup {key} \cup IF app' # app THEN AppDomains(b.app) ELSE {}
    /\ UNCHANGED <<cert, dcache, icache, born, clock, deletes>>

Reconcile ==
    \/ \E d \in Domains : Get(d)
    \/ AddFinalizer \/ Yield \/ EnsureIngress \/ Observe
    \/ UpdateAppURL \/ RemoveFinalizer \/ UpdateStatus

Next ==
    \/ \E d \in Domains, h \in Hosts, x \in Apps : CreateDomain(d, h, x)
    \/ \E d \in Domains : DeleteDomain(d) \/ ChangeCert(d) \/ CreateForeign(d) \/ CollectGarbage(d)
    \/ \E x \in Apps : ChangeApp(x)
    \/ SyncDomains \/ SyncIngresses \/ Restart
    \/ Reconcile \/ CallError

Spec == Init /\ [][Next]_vars

(***************************************************************************)
(* Properties.                                                             *)
(***************************************************************************)

\* Every variable keeps its type; the worker holds a Domain's copy from its
\* Get to its return.
TypeOK ==
    /\ dom \in [Domains -> DomainRecords \cup {None}] /\ dcache \in [Domains -> DomainRecords \cup {None}]
    /\ app \in [Apps -> AppRecords]
    /\ ing \in [Domains -> Uids \cup {Foreign, None}] /\ icache \in [Domains -> Uids \cup {Foreign, None}]
    /\ cert \subseteq Domains
    /\ dirty \subseteq Domains
    /\ pc \in {"idle", "finalizer", "yield", "ingress", "observe",
               "url", "unfinalize", "status"}
    /\ IF pc = "idle" THEN key = None /\ b = None ELSE key \in Domains /\ b \in DomainRecords /\ base \in Readys
    /\ seen \in AppRecords \cup {None} /\ (pc = "url" => seen # None)
    /\ bFresh \in BOOLEAN /\ seenFresh \in BOOLEAN /\ behind \subseteq Domains
    /\ born \in 0..MaxBorn /\ clock \in Nat /\ deletes \in 0..MaxDeletes /\ faults \in 0..MaxFaults

\* A host is given to a Domain only if no Domain of an earlier second claims it
\* ("oldest creationTimestamp wins deterministically"), although the contest is
\* decided on a cache and the Ingress is created steps later.
HostGoesToOldest ==
    [][\A d \in Domains : ing'[d] \in Uids /\ ing'[d] # ing[d] =>
          ~\E e \in Live(dom) \ {d} : dom[e].host = b.host /\ dom[e].stamp < b.stamp]_vars

(***************************************************************************)
(* Liveness: the work queue, the informers, cert-manager and the garbage   *)
(* collector are fair; a Domain is reconciled only when an event or an     *)
(* error has enqueued it.                                                  *)
(***************************************************************************)

Fairness ==
    /\ WF_vars(Reconcile)
    /\ \A d \in Domains : SF_vars(Get(d))
    /\ WF_vars(SyncDomains) /\ WF_vars(SyncIngresses)
    /\ WF_vars(\E d \in Domains : CollectGarbage(d))

FairSpec == Spec /\ Fairness

Routed(d) ==
    /\ ing[d] = dom[d].uid
    /\ dom[d].ready = IF app[dom[d].app].there /\ app[dom[d].app].web /\ d \in cert THEN "ready" ELSE "waiting"

Denied(d) == ing[d] # dom[d].uid /\ dom[d].ready = "conflict"

\* In the end the oldest Domain of every host has the Ingress and says so, and
\* every other one has none and reports the conflict: a winner's deletion
\* "promotes the oldest loser without polling".
HostsSettle ==
    <>[]\A d \in Live(dom) :
           IF HostWinner(dom, d, dom[d].host) THEN Routed(d) \/ ing[d] = Foreign ELSE Denied(d)

\* In the end the URL of an App is the host of the oldest winning Domain that
\* points at it, or none ("the finalizer exists only to recompute App.status.url
\* after a Domain disappears").
URLsSettle ==
    <>[]\A x \in Apps : app[x].there /\ (\A d \in Live(dom) : ing[d] # Foreign) => app[x].url = URL(dom, x, app[x].web)

\* In the end the Ingresses, the Ready conditions and the Apps' URLs agree with the
\* Domains that are left.
RoutingSettles == HostsSettle /\ URLsSettle
=============================================================================
