---------------------------- MODULE ContestProofs ----------------------------
(***************************************************************************)
(* Who gets a contested name: a host that several Domains ask for, and the *)
(* name that a PostgresDatabase and a MongoDatabase share.                 *)
(***************************************************************************)
EXTENDS DomainController, DatabaseController, WellFoundedInduction, TLAPS

-----------------------------------------------------------------------------

(***************************************************************************)
(* HostGoesToOldest and the types, for every set of Domains, hosts and Apps. *)
(*                                                                         *)
(* The contest is decided on the cache and acted on steps later, with a    *)
(* copy of the Domain that may be older than both.  What makes it right is *)
(* that the seconds in which Domains are created never go back: a Domain   *)
(* the cache does not show yet is not older than any it shows (Unseen),    *)
(* and the copy is not younger than its Domain (CopyNotAhead), so who wins *)
(* against the cache wins against the API server, and keeps winning while  *)
(* Domains are created (StillOldest).  The types need that the Domains an  *)
(* App's URL is taken from have an oldest one, for which seconds and ranks *)
(* of names are compared as pairs.                                         *)
(***************************************************************************)

Types ==
    /\ dom \in [Domains -> DomainRecords \cup {None}]
    /\ dcache \in [Domains -> DomainRecords \cup {None}]
    /\ ing \in [Domains -> Uids \cup {Foreign, None}]
    /\ clock \in Nat /\ born \in Nat /\ bFresh \in BOOLEAN
    /\ pc # "idle" => key \in Domains /\ b \in DomainRecords
    /\ pc = "idle" => ~bFresh

\* No stamp is of the future.
Past ==
    /\ \A d \in Domains : dom[d] # None => dom[d].stamp <= clock
    /\ \A d \in Domains : dcache[d] # None => dcache[d].stamp <= clock
    /\ pc # "idle" => b.stamp <= clock

\* The cache shows the Domain as it is, up to changes since then.
Shown(x, y) == x # None /\ x.stamp = y.stamp /\ x.host = y.host /\ (x.meta = "deleting" => y.meta = "deleting")

\* A Domain the cache does not show is of the cache's last second or later.
Unseen ==
    \A e \in Domains : dom[e] # None =>
        \/ Shown(dcache[e], dom[e])
        \/ /\ \A d \in Domains : dcache[d] # None => dcache[d].stamp <= dom[e].stamp
           /\ pc # "idle" => b.stamp <= dom[e].stamp

CacheCurrent == \A d \in Domains : d \notin behind => dcache[d] = dom[d]

\* What is stored or shown under the copy's name is not older than the copy.
CopyNotAhead ==
    pc # "idle" =>
        /\ dom[key] # None => b.stamp <= dom[key].stamp
        /\ dcache[key] # None => b.stamp <= dcache[key].stamp

CopyFresh ==
    bFresh => /\ dom[key] # None
              /\ dom[key].stamp = b.stamp /\ dom[key].host = b.host /\ dom[key].meta = b.meta

StillOldest ==
    pc = "ingress" => \A e \in Live(dom) \ {key} : dom[e].host = b.host => b.stamp <= dom[e].stamp

IInv == Types /\ Past /\ Unseen /\ CacheCurrent /\ CopyNotAhead /\ CopyFresh /\ StillOldest

(***************************************************************************)
(* Three kinds of steps that leave the Domains and the cache alone, or     *)
(* write one Domain.                                                       *)
(***************************************************************************)

\* A step that changes neither Domains nor cache nor the reconcile under way.
LEMMA Aside ==
    ASSUME IInv, ing' \in [Domains -> Uids \cup {Foreign, None}],
           UNCHANGED <<dom, dcache, behind, clock, born, pc, key, b, bFresh>>
    PROVE  IInv'
BY Zenon DEF IInv, Types, Past, Unseen, Shown, CacheCurrent, CopyNotAhead, CopyFresh, StillOldest, Live

\* A step of the reconcile that only sets the copy's Ready condition.
LEMMA Onward ==
    ASSUME IInv, ing' \in [Domains -> Uids \cup {Foreign, None}], pc # "idle", pc' \notin {"idle", "ingress"},
           UNCHANGED <<dom, dcache, behind, clock, born, key, bFresh>>,
           b' \in DomainRecords, b'.stamp = b.stamp, b'.host = b.host, b'.meta = b.meta
    PROVE  IInv'
BY Zenon DEF IInv, Types, Past, Unseen, Shown, CacheCurrent, CopyNotAhead, CopyFresh, StillOldest

\* The reconcile returns and nothing else changes.
LEMMA Returns ==
    ASSUME IInv, ing' \in [Domains -> Uids \cup {Foreign, None}], NoReconcile,
           UNCHANGED <<dom, dcache, behind, clock, born>>
    PROVE  IInv'
BY Zenon DEF IInv, Types, Past, Unseen, Shown, CacheCurrent, CopyNotAhead, CopyFresh, StillOldest, NoReconcile

\* What the reconcile writes: the Domain goes, or keeps its stamp and host.
Written(x) ==
    \/ x = None
    \/ /\ x \in DomainRecords /\ x.stamp = b.stamp /\ x.host = b.host
       /\ x.meta = b.meta \/ (b.meta = "bare" /\ x.meta = "finalizer")

\* The reconcile writes the Domain and returns.
LEMMA WritesAndReturns ==
    ASSUME IInv, ing' \in [Domains -> Uids \cup {Foreign, None}], NoReconcile, pc # "idle",
           NEW x, Write(x), Written(x), UNCHANGED <<dcache, clock, born>>
    PROVE  IInv'
<1>1. key \in Domains /\ b \in DomainRecords /\ dom' = [dom EXCEPT ![key] = x] /\ bFresh
  BY Zenon DEF IInv, Types, Write
<1>2. Types'
  BY <1>1, Zenon DEF IInv, Types, Written, NoReconcile
<1>3. Past'
  BY <1>1, Zenon DEF IInv, Types, Past, Written, NoReconcile
<1>4. Unseen'
  BY <1>1, Zenon DEF IInv, Types, Unseen, Shown, CopyFresh, Written, NoReconcile
<1>5. CacheCurrent'
  BY <1>1, Zenon DEF IInv, Types, CacheCurrent, Write
<1>6. QED
  BY <1>2, <1>3, <1>4, <1>5, Zenon DEF IInv, CopyNotAhead, CopyFresh, StillOldest, NoReconcile

\* What deciding the contest on the cache shows about the API server.
LEMMA ContestWon ==
    ASSUME IInv, pc # "idle", HostWinner(dcache, key, b.host)
    PROVE  \A e \in Live(dom) \ {key} : dom[e].host = b.host => b.stamp <= dom[e].stamp
<1> SUFFICES ASSUME NEW e \in Domains, e # key, dom[e] # None, dom[e].meta # "deleting", dom[e].host = b.host
             PROVE  b.stamp <= dom[e].stamp
  BY Zenon DEF Live
<1>1. CASE Shown(dcache[e], dom[e])
  <2>1. key \in Live(dcache) /\ e \in Live(dcache) /\ dcache[e].host = b.host
    BY <1>1, Zenon DEF HostWinner, IsOldest, Live, Shown
  <2>2. OlderDomain(dcache, key, e)
    BY <2>1, Zenon DEF HostWinner, IsOldest
  <2>3. dcache[key] \in DomainRecords /\ dcache[e] \in DomainRecords /\ b \in DomainRecords
    BY <2>1, Zenon DEF IInv, Types, Live
  <2>4. dcache[key].stamp <= dcache[e].stamp
    BY <2>2, <2>3 DEF OlderDomain, DomainRecords
  <2>5. b.stamp <= dcache[key].stamp
    BY <2>1, Zenon DEF IInv, CopyNotAhead, Live
  <2>6. QED
    BY <1>1, <2>3, <2>4, <2>5 DEF Shown, DomainRecords
<1>2. CASE ~Shown(dcache[e], dom[e])
  BY <1>2, Zenon DEF IInv, Unseen
<1>3. QED
  BY <1>1, <1>2, Zenon

(***************************************************************************)
(* The steps.                                                              *)
(***************************************************************************)

\* Owners: what an Ingress can become in a step.
LEMMA IngressTypes ==
    ASSUME IInv, [Next]_vars
    PROVE  ing' \in [Domains -> Uids \cup {Foreign, None}]
<1>1. ASSUME NEW d \in Domains, NEW o \in {Foreign, None}, ing' = [ing EXCEPT ![d] = o]
      PROVE  ing' \in [Domains -> Uids \cup {Foreign, None}]
  BY <1>1, Zenon DEF IInv, Types
<1>2. ASSUME pc # "idle", CreateIngress \/ DeleteOwnIngress
      PROVE  ing' \in [Domains -> Uids \cup {Foreign, None}]
  BY <1>2, Zenon DEF IInv, Types, CreateIngress, DeleteOwnIngress, DomainRecords
<1>3. ASSUME UNCHANGED ing
      PROVE  ing' \in [Domains -> Uids \cup {Foreign, None}]
  BY <1>3, Zenon DEF IInv, Types
<1>4. CASE UNCHANGED vars
  BY <1>4, <1>3, Zenon DEF vars, objects
<1>5. CASE Next
  <2>1. ASSUME NEW d \in Domains, NEW h \in Hosts, NEW x \in Apps, CreateDomain(d, h, x)
        PROVE  UNCHANGED ing
    BY <2>1, Zenon DEF CreateDomain
  <2>2. ASSUME NEW d \in Domains, DeleteDomain(d) \/ ChangeCert(d) \/ Get(d)
        PROVE  UNCHANGED ing
    BY <2>2, Zenon DEF DeleteDomain, ChangeCert, Get, objects
  <2>3. ASSUME NEW d \in Domains, CreateForeign(d) \/ CollectGarbage(d)
        PROVE  ing' \in [Domains -> Uids \cup {Foreign, None}]
    BY <2>3, <1>1, Zenon DEF CreateForeign, CollectGarbage
  <2>4. ASSUME NEW x \in Apps, ChangeApp(x)
        PROVE  UNCHANGED ing
    BY <2>4, Zenon DEF ChangeApp
  <2>5. CASE SyncDomains \/ SyncIngresses \/ Restart \/ AddFinalizer \/ Observe \/ UpdateAppURL
             \/ RemoveFinalizer \/ UpdateStatus
    BY <2>5, <1>3, Zenon DEF SyncDomains, SyncIngresses, Restart, AddFinalizer, Observe, UpdateAppURL,
                      RemoveFinalizer, UpdateStatus, objects
  <2>6. CASE Yield \/ EnsureIngress \/ CallError
    BY <2>6, <1>2, <1>3, Zenon DEF Yield, EnsureIngress, CallError
  <2>7. QED
    BY <1>5, <1>3, <2>1, <2>2, <2>3, <2>4, <2>5, <2>6, Zenon DEF Next, Reconcile
<1>6. QED
  BY <1>4, <1>5, Zenon

\* A new Domain is of the newest second.
LEMMA CreateKeeps ==
    ASSUME IInv, NEW d \in Domains, NEW h \in Hosts, NEW x \in Apps, CreateDomain(d, h, x)
    PROVE  IInv'
<1> DEFINE r == [uid |-> born + 1, host |-> h, app |-> x, stamp |-> clock', meta |-> "bare", ready |-> "unset"]
<1>1. /\ dom' = [dom EXCEPT ![d] = r] /\ dom[d] = None
      /\ clock' \in Nat /\ clock <= clock' /\ born' \in Nat /\ born + 1 \in Uids
      /\ behind' = behind \cup {d}
      /\ UNCHANGED <<ing, dcache, pc, key, b, bFresh>>
  BY DomainConstants DEF CreateDomain, IInv, Types, local, Uids
<1>2. r \in DomainRecords /\ r.stamp = clock' /\ r # None
  BY <1>1, DomainConstants DEF DomainRecords, Readys
<1> HIDE DEF r
<1>3. Types' /\ CacheCurrent'
  BY <1>1, <1>2, Zenon DEF IInv, Types, CacheCurrent
<1>4. Past'
  BY <1>1, <1>2 DEF IInv, Types, Past, DomainRecords
<1>5. Unseen'
  BY <1>1, <1>2 DEF IInv, Types, Past, Unseen, Shown, DomainRecords
<1>6. CopyNotAhead' /\ CopyFresh'
  BY <1>1, <1>2 DEF IInv, Types, Past, CopyNotAhead, CopyFresh, DomainRecords
<1>7. StillOldest'
  BY <1>1, <1>2 DEF IInv, Types, Past, StillOldest, Live, DomainRecords
<1>8. QED
  BY <1>3, <1>4, <1>5, <1>6, <1>7, Zenon DEF IInv

\* A deleted Domain is marked, or gone.
LEMMA DeleteKeeps ==
    ASSUME IInv, NEW d \in Domains, DeleteDomain(d)
    PROVE  IInv'
<1>1. PICK r \in DomainRecords \cup {None} :
        /\ dom' = [dom EXCEPT ![d] = r]
        /\ r # None => r.stamp = dom[d].stamp /\ r.host = dom[d].host /\ r.meta = "deleting"
  <2>1. dom[d] \in DomainRecords
    BY Zenon DEF DeleteDomain, IInv, Types
  <2> DEFINE r == [dom[d] EXCEPT !.meta = "deleting"]
  <2>2. r \in DomainRecords /\ r.stamp = dom[d].stamp /\ r.host = dom[d].host /\ r.meta = "deleting"
    BY <2>1, Zenon DEF DomainRecords
  <2>3. CASE dom' = [dom EXCEPT ![d].meta = "deleting"]
    <3>1. dom' = [dom EXCEPT ![d] = r]
      BY <2>3, Zenon
    <3>2. QED
      BY <2>2, <3>1, Zenon
  <2>4. CASE dom' = [dom EXCEPT ![d] = None]
    BY <2>4, Zenon
  <2>5. QED
    BY <2>3, <2>4, Zenon DEF DeleteDomain
<1>2. /\ dom[d] # None /\ dom[d] \in DomainRecords
      /\ behind' = behind \cup {d} /\ bFresh' = (bFresh /\ key # d)
      /\ UNCHANGED <<ing, dcache, pc, key, b, clock, born>>
  BY Zenon DEF DeleteDomain, IInv, Types
<1>3. Types' /\ CacheCurrent'
  BY <1>1, <1>2, Zenon DEF IInv, Types, CacheCurrent
<1>4. Past'
  BY <1>1, <1>2, Zenon DEF IInv, Types, Past
<1>5. Unseen'
  BY <1>1, <1>2, Zenon DEF IInv, Types, Unseen, Shown
<1>6. CopyNotAhead' /\ CopyFresh'
  BY <1>1, <1>2, Zenon DEF IInv, Types, CopyNotAhead, CopyFresh
<1>7. StillOldest'
  BY <1>1, <1>2, Zenon DEF IInv, Types, StillOldest, Live
<1>8. QED
  BY <1>3, <1>4, <1>5, <1>6, <1>7, Zenon DEF IInv

\* The cache catches up, and with Restart the reconcile is lost.
LEMMA SyncKeeps ==
    ASSUME IInv, SyncDomains \/ Restart
    PROVE  IInv'
<1>1. dcache' = dom /\ behind' = {} /\ UNCHANGED <<dom, ing, clock, born>>
  BY Zenon DEF SyncDomains, Restart, objects
<1>2. CacheCurrent'
  BY <1>1, Zenon DEF CacheCurrent
<1>3. CASE UNCHANGED <<pc, key, b, bFresh>>
  <2>1. Types' /\ Past' /\ CopyNotAhead' /\ CopyFresh'
    BY <1>1, <1>3, Zenon DEF IInv, Types, Past, CopyNotAhead, CopyFresh
  <2>2. Unseen' /\ StillOldest'
    BY <1>1, <1>3, Zenon DEF IInv, Types, Unseen, Shown, StillOldest, Live
  <2>3. QED
    BY <1>2, <2>1, <2>2, Zenon DEF IInv
<1>4. CASE NoReconcile
  <2>1. pc' = "idle" /\ bFresh' = FALSE
    BY <1>4, Zenon DEF NoReconcile
  <2>2. Types' /\ Past' /\ CopyNotAhead' /\ CopyFresh'
    BY <1>1, <2>1, Zenon DEF IInv, Types, Past, CopyNotAhead, CopyFresh
  <2>3. Unseen' /\ StillOldest'
    BY <1>1, <2>1, Zenon DEF IInv, Types, Unseen, Shown, StillOldest
  <2>4. QED
    BY <1>2, <2>2, <2>3, Zenon DEF IInv
<1>5. QED
  BY <1>3, <1>4, Zenon DEF SyncDomains, Restart, local

LEMMA GetKeeps ==
    ASSUME IInv, NEW d \in Domains, Get(d)
    PROVE  IInv'
<1>1. UNCHANGED <<dom, dcache, behind, ing, clock, born>>
  BY Zenon DEF Get, objects, caches
<1>2. CASE dcache[d] = None
  BY <1>1, <1>2, Aside, IngressTypes, Zenon DEF Get, local, IInv, Types
<1>3. CASE dcache[d] # None
  <2>1. /\ key' = d /\ b' = dcache[d] /\ b' \in DomainRecords
        /\ bFresh' = (d \notin behind) /\ pc' \notin {"idle", "ingress"}
    BY <1>3, Zenon DEF Get, ReadApp, AfterURL, Goto, IInv, Types
  <2>2. Types' /\ CacheCurrent' /\ StillOldest'
    BY <1>1, <2>1, Zenon DEF IInv, Types, CacheCurrent, StillOldest
  <2>3. Past' /\ CopyFresh'
    BY <1>1, <1>3, <2>1, Zenon DEF IInv, Types, Past, CacheCurrent, CopyFresh
  <2>4. Unseen'
    BY <1>1, <1>3, <2>1, Zenon DEF IInv, Types, Unseen, Shown
  <2>5. CopyNotAhead'
    BY <1>1, <1>3, <2>1 DEF IInv, Types, Unseen, Shown, CopyNotAhead, DomainRecords
  <2>6. QED
    BY <2>2, <2>3, <2>4, <2>5, Zenon DEF IInv
<1>4. QED
  BY <1>2, <1>3, Zenon

\* The finalizer is added and the contest decided.
LEMMA AddFinalizerKeeps ==
    ASSUME IInv, AddFinalizer
    PROVE  IInv'
<1>1. /\ UNCHANGED <<ing, dcache, clock, born>> /\ pc = "finalizer"
      /\ key \in Domains /\ b \in DomainRecords
      /\ ing' \in [Domains -> Uids \cup {Foreign, None}]
  BY Zenon DEF AddFinalizer, IInv, Types
<1>2. ASSUME Contest(dcache)
      PROVE  pc' \in {"ingress", "yield"} /\ (pc' = "ingress" => HostWinner(dcache, key, b.host))
  BY <1>2, Zenon DEF Contest, Goto
<1>3. CASE b.meta # "bare"
  <2>1. Contest(dcache) /\ UNCHANGED <<dom, behind, key, b, bFresh>>
    BY <1>3, Zenon DEF AddFinalizer
  <2>2. Types' /\ Past' /\ Unseen' /\ CacheCurrent' /\ CopyNotAhead' /\ CopyFresh'
    BY <1>1, <1>2, <2>1, Zenon DEF IInv, Types, Past, Unseen, Shown, CacheCurrent, CopyNotAhead, CopyFresh
  <2>3. StillOldest'
    BY <1>1, <1>2, <2>1, ContestWon, Zenon DEF StillOldest, Live
  <2>4. QED
    BY <2>2, <2>3, Zenon DEF IInv
<1>4. CASE b.meta = "bare" /\ WriteFinalizer /\ b' = dom'[key] /\ Contest(dcache) /\ UNCHANGED <<key, bFresh>>
  <2> DEFINE x == [b EXCEPT !.meta = "finalizer"]
  <2>1. /\ dom' = [dom EXCEPT ![key] = x] /\ bFresh /\ behind' = behind \cup {key}
        /\ x \in DomainRecords /\ x.stamp = b.stamp /\ x.host = b.host /\ x.meta = "finalizer" /\ x # None
    BY <1>1, <1>4, DomainConstants, Zenon DEF WriteFinalizer, Write, DomainRecords
  <2> HIDE DEF x
  <2>2. b' = x /\ key' = key /\ bFresh' = bFresh
    BY <1>1, <1>4, <2>1, Zenon DEF IInv, Types
  <2>3. Types' /\ CacheCurrent'
    BY <1>1, <1>2, <1>4, <2>1, <2>2, Zenon DEF IInv, Types, CacheCurrent
  <2>4. Past' /\ CopyNotAhead' /\ CopyFresh'
    BY <1>1, <2>1, <2>2, Zenon DEF IInv, Types, Past, CopyNotAhead, CopyFresh, DomainRecords
  <2>5. Unseen'
    BY <1>1, <1>4, <2>1, <2>2, Zenon DEF IInv, Types, Unseen, Shown, CopyFresh
  <2>6. StillOldest'
    BY <1>1, <1>2, <1>4, <2>1, <2>2, ContestWon, Zenon DEF IInv, Types, StillOldest, Live
  <2>7. QED
    BY <2>3, <2>4, <2>5, <2>6, Zenon DEF IInv
<1>5. CASE b.meta = "bare" /\ Refused
  BY <1>1, <1>5, Returns, Zenon DEF Refused, Finish
<1>6. QED
  BY <1>3, <1>4, <1>5, Zenon DEF AddFinalizer

\* The steps that set the Ready condition.
LEMMA ReadyKeeps ==
    ASSUME IInv, ing' \in [Domains -> Uids \cup {Foreign, None}], Yield \/ EnsureIngress \/ Observe
    PROVE  IInv'
<1>1. /\ UNCHANGED <<dom, dcache, behind, clock, born, key, bFresh>>
      /\ pc # "idle" /\ pc' \notin {"idle", "ingress"}
      /\ b' = b \/ \E r \in Readys : b' = [b EXCEPT !.ready = r]
  BY Zenon DEF Yield, EnsureIngress, Observe, FailReady, ReadApp, AfterURL, Goto, caches, objects, Readys
<1>2. b \in DomainRecords
  BY <1>1, Zenon DEF IInv, Types
<1>3. b' \in DomainRecords /\ b'.stamp = b.stamp /\ b'.host = b.host /\ b'.meta = b.meta
  BY <1>1, <1>2, Zenon DEF DomainRecords
<1>4. QED
  BY <1>1, <1>3, Onward, Zenon

LEMMA UpdateAppURLKeeps ==
    ASSUME IInv, UpdateAppURL
    PROVE  IInv'
<1>1. /\ UNCHANGED <<dom, dcache, behind, ing, clock, born>> /\ pc = "url"
      /\ ing' \in [Domains -> Uids \cup {Foreign, None}]
      /\ NoReconcile \/ (UNCHANGED <<key, b, bFresh>> /\ pc' = AfterURL(b))
  BY Zenon DEF UpdateAppURL, Finish, Goto, caches, IInv, Types
<1>2. b \in DomainRecords /\ AfterURL(b) \notin {"idle", "ingress"}
  BY <1>1, Zenon DEF IInv, Types, AfterURL
<1>3. QED
  BY <1>1, <1>2, Onward, Returns, Zenon

\* The steps that end with a write of the Domain.
LEMMA LastWriteKeeps ==
    ASSUME IInv, RemoveFinalizer \/ UpdateStatus
    PROVE  IInv'
<1>1. /\ UNCHANGED <<ing, dcache, clock, born>> /\ pc # "idle"
      /\ ing' \in [Domains -> Uids \cup {Foreign, None}]
  BY Zenon DEF RemoveFinalizer, UpdateStatus, IInv, Types
<1>2. Written(None) /\ Written(b)
  BY <1>1, Zenon DEF Written, IInv, Types
<1>3. CASE NoReconcile /\ UNCHANGED <<dom, behind>>
  BY <1>1, <1>3, Returns, Zenon
<1>4. CASE NoReconcile /\ (Write(None) \/ Write(b))
  BY <1>1, <1>2, <1>4, WritesAndReturns, Zenon
<1>5. QED
  BY <1>3, <1>4, Zenon DEF RemoveFinalizer, UpdateStatus, Refused, Finish

\* A call fails, before or after its effect.
LEMMA CallErrorKeeps ==
    ASSUME IInv, ing' \in [Domains -> Uids \cup {Foreign, None}], CallError
    PROVE  IInv'
<1>1. UNCHANGED <<dcache, clock, born>> /\ pc # "idle" /\ b \in DomainRecords
  BY Zenon DEF CallError, IInv, Types
<1>2. CASE pc \in {"yield", "ingress", "observe"}
  <2>1. b' = [b EXCEPT !.ready = "failed"] /\ pc' = "status" /\ UNCHANGED <<dom, behind, key, bFresh>>
    BY <1>2, Zenon DEF CallError, FailReady, Goto
  <2>2. b' \in DomainRecords /\ b'.stamp = b.stamp /\ b'.host = b.host /\ b'.meta = b.meta
    BY <1>1, <2>1, Zenon DEF DomainRecords, Readys
  <2>3. QED
    BY <1>1, <2>1, <2>2, Onward, Zenon
<1>3. CASE pc \notin {"yield", "ingress", "observe"}
  <2>1. NoReconcile
    BY <1>3, Zenon DEF CallError
  <2>2. CASE UNCHANGED <<dom, behind>>
    BY <1>1, <2>1, <2>2, Returns, Zenon
  <2>3. CASE b.meta = "bare" /\ WriteFinalizer
    <3>1. Written([b EXCEPT !.meta = "finalizer"])
      BY <1>1, <2>3, Zenon DEF Written, DomainRecords
    <3>2. QED
      BY <1>1, <2>1, <2>3, <3>1, WritesAndReturns, Zenon DEF WriteFinalizer
  <2>4. CASE Write(None) \/ Write(b)
    <3>1. Written(None) /\ Written(b)
      BY <1>1, Zenon DEF Written
    <3>2. QED
      BY <1>1, <2>1, <2>4, <3>1, WritesAndReturns, Zenon
  <2>5. QED
    BY <2>2, <2>3, <2>4, Zenon DEF CallError
<1>4. QED
  BY <1>2, <1>3, Zenon

LEMMA StepKeeps ==
    ASSUME IInv, [Next]_vars
    PROVE  IInv'
<1>1. ing' \in [Domains -> Uids \cup {Foreign, None}]
  BY IngressTypes, Zenon
<1>2. CASE UNCHANGED vars
  BY <1>1, <1>2, Aside, Zenon DEF vars, objects, caches, local
<1>3. ASSUME NEW d \in Domains, ChangeCert(d) \/ CreateForeign(d) \/ CollectGarbage(d)
      PROVE  IInv'
  BY <1>1, <1>3, Aside, Zenon DEF ChangeCert, CreateForeign, CollectGarbage, caches, local
<1>4. ASSUME NEW x \in Apps, ChangeApp(x)
      PROVE  IInv'
  BY <1>1, <1>4, Aside, Zenon DEF ChangeApp, caches
<1>5. CASE SyncIngresses
  BY <1>1, <1>5, Aside, Zenon DEF SyncIngresses, objects, local
<1>6. CASE Next
  BY <1>1, <1>3, <1>4, <1>5, <1>6, CreateKeeps, DeleteKeeps, SyncKeeps, GetKeeps, AddFinalizerKeeps,
     ReadyKeeps, UpdateAppURLKeeps, LastWriteKeeps, CallErrorKeeps, Zenon DEF Next, Reconcile
<1>7. QED
  BY <1>2, <1>6, Zenon

\* Only the reconcile of the Domain itself gives it an Ingress, and only after
\* the contest.
LEMMA OnlyWinnersGetIngress ==
    ASSUME IInv, [Next]_vars, NEW d \in Domains, ing'[d] \in Uids, ing'[d] # ing[d]
    PROVE  d = key /\ pc = "ingress"
<1>1. None \notin Uids /\ Foreign \notin Uids /\ ing \in [Domains -> Uids \cup {Foreign, None}]
  BY DomainConstants DEF Uids, Foreign, IInv, Types
<1>2. ing' # ing
  BY Zenon
<1>3. ~\E e \in Domains : CreateForeign(e) \/ CollectGarbage(e)
  BY <1>1, Zenon DEF CreateForeign, CollectGarbage
<1>4. ~DeleteOwnIngress
  BY <1>1, Zenon DEF DeleteOwnIngress
<1>5. CASE CreateIngress /\ pc = "ingress"
  BY <1>1, <1>5, Zenon DEF CreateIngress, IInv, Types
<1>6. CASE Next
  <2>1. EnsureIngress \/ CallError
    BY <1>2, <1>3, <1>4, <1>6, Zenon DEF Next, Reconcile, CreateDomain, DeleteDomain, ChangeApp, ChangeCert, SyncDomains,
       SyncIngresses, Restart, Get, AddFinalizer, Yield, Observe, UpdateAppURL, RemoveFinalizer, UpdateStatus, objects
  <2>2. QED
    BY <1>2, <1>4, <1>5, <2>1, Zenon DEF EnsureIngress, CallError
<1>7. QED
  BY <1>2, <1>6, Zenon DEF vars, objects

LEMMA InitKeeps == Init => IInv
<1> SUFFICES ASSUME Init PROVE IInv
  BY Zenon
<1>1. /\ \A d \in Domains : dom[d] = None /\ dcache[d] = None
      /\ pc = "idle" /\ bFresh = FALSE
  BY Zenon DEF Init
<1>2. Types
  BY <1>1, Zenon DEF Init, Types
<1>3. Past /\ Unseen /\ CacheCurrent /\ CopyNotAhead /\ CopyFresh /\ StillOldest
  BY <1>1, Zenon DEF Past, Unseen, CacheCurrent, CopyNotAhead, CopyFresh, StillOldest
<1>4. QED
  BY <1>2, <1>3, Zenon DEF IInv

\* A host is given to a Domain only if no Domain of an earlier second claims it,
\* although hostWinner decides on a cache and the Ingress is created steps later:
\* for every set of Domains, and whatever calls fail.
THEOREM OldestGetsHost == Spec => HostGoesToOldest
<1>1. Init => IInv
  BY InitKeeps, Zenon
<1>2. IInv /\ [Next]_vars => IInv'
  BY StepKeeps, Zenon
<1>3. IInv /\ [Next]_vars =>
      [\A d \in Domains : ing'[d] \in Uids /\ ing'[d] # ing[d] =>
          ~\E e \in Live(dom) \ {d} : dom[e].host = b.host /\ dom[e].stamp < b.stamp]_vars
  <2> SUFFICES ASSUME IInv, [Next]_vars, NEW d \in Domains, ing'[d] \in Uids, ing'[d] # ing[d],
                      NEW e \in Live(dom) \ {d}, dom[e].host = b.host, dom[e].stamp < b.stamp
               PROVE  FALSE
    BY Zenon
  <2>1. d = key /\ pc = "ingress"
    BY OnlyWinnersGetIngress, Zenon
  <2>2. b.stamp <= dom[e].stamp
    BY <2>1, Zenon DEF IInv, StillOldest
  <2>3. b.stamp \in Nat /\ dom[e].stamp \in Nat
    BY <2>1, Zenon DEF IInv, Types, Live, DomainRecords
  <2>4. QED
    BY <2>2, <2>3
<1>4. QED
  BY <1>1, <1>2, <1>3, PTL DEF Spec, HostGoesToOldest
(***************************************************************************)
(* Types.  That the URL of an App is a host or none rests on the order of  *)
(* the Domains being total: some Domain is the oldest of any that are left.*)
(***************************************************************************)

LEMMA Smallest ==
    ASSUME NEW S \in SUBSET Nat, S # {}
    PROVE  \E x \in S : \A y \in S : x <= y
<1> DEFINE R == OpToRel(<, Nat)
<1>1. PICK x \in S : \A y \in S : ~(<<y, x>> \in R)
  <2>1. IsWellFoundedOn(R, Nat)
    BY NatLessThanWellFounded, Zenon
  <2> HIDE DEF R
  <2>2. QED
    BY <2>1, WFMin, Zenon
<1>2. \A y \in S : ~(y < x)
  BY <1>1, Zenon DEF OpToRel
<1>3. \A y \in S : x <= y
  BY <1>2
<1>4. QED
  BY <1>3, Zenon

\* Of any Domains one is the oldest, by its second and then by its name.
LEMMA SomeOldest ==
    ASSUME NEW ds \in [Domains -> DomainRecords \cup {None}], NEW S \in SUBSET Live(ds), S # {}
    PROVE  \E d \in S : IsOldest(ds, d, S)
<1>1. \A d \in S : d \in Domains /\ ds[d] \in DomainRecords /\ ds[d].stamp \in Nat /\ NameRank[d] \in Nat
  BY DomainConstants, Zenon DEF Live, DomainRecords
<1> DEFINE stamps == {ds[d].stamp : d \in S}
<1>2. PICK s \in stamps : \A t \in stamps : s <= t
  <2>1. stamps \in SUBSET Nat /\ stamps # {}
    BY <1>1, Zenon
  <2> HIDE DEF stamps
  <2>2. QED
    BY <2>1, Smallest, Zenon
<1> DEFINE first == {d \in S : ds[d].stamp = s}
           ranks == {NameRank[d] : d \in first}
<1>3. PICK r \in ranks : \A t \in ranks : r <= t
  <2>1. ranks \in SUBSET Nat /\ ranks # {}
    BY <1>1, Zenon
  <2> HIDE DEF ranks
  <2>2. QED
    BY <2>1, Smallest, Zenon
<1>4. PICK d \in S : ds[d].stamp = s /\ NameRank[d] = r
  BY Zenon
<1>5. ASSUME NEW e \in S \ {d}
      PROVE  OlderDomain(ds, d, e)
  <2>1. s \in Nat /\ ds[e].stamp \in Nat /\ s <= ds[e].stamp /\ NameRank[e] \in Nat /\ r \in Nat
    BY <1>1, <1>2, <1>4, Zenon
  <2>2. CASE ds[e].stamp = s
    <3>1. r <= NameRank[e] /\ NameRank[e] # r
      BY <1>1, <1>3, <1>4, <2>2, DomainConstants
    <3>2. QED
      BY <1>4, <2>1, <2>2, <3>1 DEF OlderDomain
  <2>3. CASE ds[e].stamp # s
    BY <1>4, <2>1, <2>3 DEF OlderDomain
  <2>4. QED
    BY <2>2, <2>3, Zenon
<1>6. QED
  BY <1>5, Zenon DEF IsOldest

LEMMA DerivedIsHost ==
    ASSUME IInv
    PROVE  Derived \in Hosts \cup {None}
<1> DEFINE S == {d \in Live(dcache) : dcache[d].app = b.app /\ HostWinner(dcache, d, dcache[d].host)}
<1>1. Derived \in {None, URLFrom(dcache, S)}
  BY Zenon DEF Derived, URL
<1>2. CASE S = {}
  BY <1>1, <1>2, Zenon DEF URLFrom
<1>3. CASE S # {}
  <2> DEFINE c == CHOOSE d \in S : IsOldest(dcache, d, S)
  <2>1. S \in SUBSET Live(dcache) /\ dcache \in [Domains -> DomainRecords \cup {None}]
    BY Zenon DEF IInv, Types
  <2>2. URLFrom(dcache, S) = dcache[c].host
    BY <1>3, Zenon DEF URLFrom
  <2> HIDE DEF S
  <2>3. \E d \in S : IsOldest(dcache, d, S)
    BY <1>3, <2>1, SomeOldest, Zenon
  <2>4. c \in S
    BY <2>3, Zenon
  <2> HIDE DEF c
  <2>5. dcache[c].host \in Hosts
    BY <2>1, <2>4, Zenon DEF Live, DomainRecords
  <2>6. QED
    BY <1>1, <2>2, <2>5, Zenon
<1>4. QED
  BY <1>2, <1>3, Zenon

\* The URL is written, or an App changes: it stays an App.
LEMMA AppTypes ==
    ASSUME IInv, TypeOK, [Next]_vars
    PROVE  app' \in [Apps -> AppRecords]
<1>1. ASSUME UNCHANGED app
      PROVE  app' \in [Apps -> AppRecords]
  BY <1>1, Zenon DEF TypeOK
<1>2. ASSUME pc = "url", WriteURL
      PROVE  app' \in [Apps -> AppRecords]
  <2>1. b.app \in Apps /\ app[b.app] \in AppRecords
    BY <1>2, Zenon DEF TypeOK, DomainRecords
  <2>2. [app[b.app] EXCEPT !.url = Derived] \in AppRecords
    BY <2>1, DerivedIsHost, Zenon DEF AppRecords
  <2>3. app' = [app EXCEPT ![b.app] = [app[b.app] EXCEPT !.url = Derived]]
    BY <1>2, Zenon DEF WriteURL
  <2>4. QED
    BY <2>1, <2>2, <2>3, Zenon DEF TypeOK
<1>3. ASSUME NEW x \in Apps, ChangeApp(x)
      PROVE  app' \in [Apps -> AppRecords]
  <2>1. app \in [Apps -> AppRecords] /\ app[x] \in AppRecords
    BY Zenon DEF TypeOK
  <2> DEFINE y == [app[x] EXCEPT !.there = ~@, !.url = None]
             z == [app[x] EXCEPT !.web = ~@]
  <2>2. y \in AppRecords /\ z \in AppRecords
    BY <2>1 DEF AppRecords
  <2>3. app' = [app EXCEPT ![x] = y] \/ app' = [app EXCEPT ![x] = z] \/ UNCHANGED app
    <3>1. CASE app' = [app EXCEPT ![x].there = ~@, ![x].url = None]
      BY <2>1, <3>1 DEF AppRecords
    <3>2. QED
      BY <1>3, <3>1, Zenon DEF ChangeApp
  <2> HIDE DEF y, z
  <2>4. QED
    BY <2>1, <2>2, <2>3, Zenon
<1>4. ASSUME NEW d \in Domains, DeleteDomain(d) \/ ChangeCert(d) \/ CreateForeign(d) \/ CollectGarbage(d) \/ Get(d)
      PROVE  UNCHANGED app
  BY <1>4, Zenon DEF DeleteDomain, ChangeCert, CreateForeign, CollectGarbage, Get, objects
<1>5. ASSUME NEW d \in Domains, NEW h \in Hosts, NEW x \in Apps, CreateDomain(d, h, x)
      PROVE  UNCHANGED app
  BY <1>5, Zenon DEF CreateDomain
<1>6. ASSUME \/ SyncDomains \/ SyncIngresses \/ Restart \/ AddFinalizer \/ Yield \/ EnsureIngress \/ Observe
             \/ RemoveFinalizer \/ UpdateStatus
      PROVE  UNCHANGED app
  BY <1>6, Zenon DEF SyncDomains, SyncIngresses, Restart, AddFinalizer, Yield, EnsureIngress, Observe,
                     RemoveFinalizer, UpdateStatus, objects
<1>7. ASSUME UpdateAppURL \/ CallError
      PROVE  UNCHANGED app \/ (pc = "url" /\ WriteURL)
  BY <1>7, Zenon DEF UpdateAppURL, CallError
<1>8. CASE Next
  BY <1>1, <1>2, <1>3, <1>4, <1>5, <1>6, <1>7, <1>8, Zenon DEF Next, Reconcile
<1>9. QED
  BY <1>1, <1>8, Zenon DEF vars, objects

\* Caches, Certificates and the work queue name Domains.
LEMMA QueueTypes ==
    ASSUME TypeOK, [Next]_vars
    PROVE  /\ icache' \in [Domains -> Uids \cup {Foreign, None}]
           /\ cert' \subseteq Domains /\ behind' \subseteq Domains /\ dirty' \subseteq Domains
<1> DEFINE Goal == /\ icache' \in [Domains -> Uids \cup {Foreign, None}]
                   /\ cert' \subseteq Domains /\ behind' \subseteq Domains /\ dirty' \subseteq Domains
<1> SUFFICES Goal
  BY Zenon
<1>0. /\ icache \in [Domains -> Uids \cup {Foreign, None}] /\ ing \in [Domains -> Uids \cup {Foreign, None}]
      /\ cert \subseteq Domains /\ behind \subseteq Domains /\ dirty \subseteq Domains
      /\ pc # "idle" => key \in Domains
      /\ \A x \in Apps : AppDomains(x) \subseteq Domains
      /\ HostPeers(dcache, dom) \subseteq Domains
      /\ pc # "idle" => b.app \in Apps
  BY Zenon DEF TypeOK, AppDomains, HostPeers, DomainRecords
<1>1. CASE UNCHANGED vars
  BY <1>0, <1>1, Zenon DEF vars, objects, caches
<1>2. ASSUME NEW d \in Domains, NEW h \in Hosts, NEW x \in Apps, CreateDomain(d, h, x)
      PROVE  Goal
  BY <1>0, <1>2, Zenon DEF CreateDomain
<1>3. ASSUME NEW d \in Domains, DeleteDomain(d) \/ ChangeCert(d) \/ CreateForeign(d) \/ CollectGarbage(d) \/ Get(d)
      PROVE  Goal
  BY <1>0, <1>3, Zenon DEF DeleteDomain, ChangeCert, CreateForeign, CollectGarbage, Get, objects, caches
<1>4. ASSUME NEW x \in Apps, ChangeApp(x)
      PROVE  Goal
  BY <1>0, <1>4, Zenon DEF ChangeApp, caches
<1>5. CASE SyncDomains \/ SyncIngresses \/ Restart
  BY <1>0, <1>5, Zenon DEF SyncDomains, SyncIngresses, Restart, objects
<1>6. CASE AddFinalizer
  BY <1>0, <1>6, Zenon DEF AddFinalizer, WriteFinalizer, Write, Refused, Finish
<1>7. CASE Yield \/ EnsureIngress \/ Observe
  BY <1>0, <1>7, Zenon DEF Yield, EnsureIngress, Observe, caches, objects
<1>8. CASE UpdateAppURL
  BY <1>0, <1>8, Zenon DEF UpdateAppURL, Finish, caches
<1>9. CASE RemoveFinalizer \/ UpdateStatus
  BY <1>0, <1>9, Zenon DEF RemoveFinalizer, UpdateStatus, Write, Refused, Finish
<1>10. CASE CallError
  <2>1. pc # "idle" /\ UNCHANGED <<icache, cert>>
    BY <1>10, Zenon DEF CallError
  <2>2. behind' \in {behind, behind \cup {key}}
    BY <1>10, Zenon DEF CallError, WriteFinalizer, Write
  <2>3. dirty' \subseteq dirty \cup {key} \cup AppDomains(b.app)
    BY <1>10, Zenon DEF CallError
  <2>4. QED
    BY <1>0, <2>1, <2>2, <2>3, Zenon
<1>11. CASE Next
  BY <1>2, <1>3, <1>4, <1>5, <1>6, <1>7, <1>8, <1>9, <1>10, <1>11, Zenon DEF Next, Reconcile
<1>12. QED
  BY <1>1, <1>11, Zenon

\* The reconcile under way.
Local ==
    /\ pc \in {"idle", "finalizer", "yield", "ingress", "observe", "url", "unfinalize", "status"}
    /\ IF pc = "idle" THEN key = None /\ b = None ELSE key \in Domains /\ b \in DomainRecords /\ base \in Readys
    /\ seen \in AppRecords \cup {None} /\ (pc = "url" => seen # None)
    /\ bFresh \in BOOLEAN /\ seenFresh \in BOOLEAN

LEMMA LocalTypes ==
    ASSUME IInv, TypeOK, [Next]_vars, IInv'
    PROVE  Local'
<1>0. /\ Local
      /\ pc' # "idle" => key' \in Domains /\ b' \in DomainRecords
      /\ bFresh' \in BOOLEAN
  BY Zenon DEF TypeOK, Local, IInv, Types
<1>1. ASSUME UNCHANGED local
      PROVE  Local'
  BY <1>0, <1>1, Zenon DEF Local, local
<1>2. ASSUME NoReconcile
      PROVE  Local'
  BY <1>2, Zenon DEF NoReconcile, Local
<1>3. ASSUME NEW x \in DomainRecords, ReadApp(x)
      PROVE  /\ seen' \in AppRecords /\ seen' # None /\ seenFresh' = TRUE
             /\ pc' \in {"url", "unfinalize", "status"}
  <2>1. x.app \in Apps /\ app[x.app] \in AppRecords
    BY Zenon DEF TypeOK, DomainRecords
  <2>2. None \notin AppRecords
    BY DomainConstants, Zenon
  <2>3. QED
    BY <1>3, <2>1, <2>2, Zenon DEF ReadApp, AfterURL, Goto
<1>4. ASSUME UNCHANGED <<pc, key, b, base, seen>>, seenFresh' \in BOOLEAN
      PROVE  Local'
  BY <1>0, <1>4, Zenon DEF Local
<1>5. ASSUME pc # "idle", pc' \in {"yield", "ingress", "observe", "unfinalize", "status"}, base' = base,
             seen' \in {seen, None}, seenFresh' \in {seenFresh, FALSE}
      PROVE  Local'
  BY <1>0, <1>5, Zenon DEF Local
<1>6. ASSUME pc # "idle", NEW x \in DomainRecords, ReadApp(x), base' = base
      PROVE  Local'
  BY <1>0, <1>3, <1>6, Zenon DEF Local
<1>7. ASSUME NEW d \in Domains, Get(d)
      PROVE  Local'
  <2>1. CASE dcache[d] = None
    BY <1>1, <1>7, <2>1, Zenon DEF Get
  <2>2. CASE dcache[d] # None
    <3>1. dcache[d] \in DomainRecords /\ base' = dcache[d].ready /\ base' \in Readys
      BY <1>7, <2>2, Zenon DEF Get, TypeOK, DomainRecords
    <3>2. CASE dcache[d].meta = "deleting"
      BY <1>0, <1>3, <1>7, <2>2, <3>1, <3>2, Zenon DEF Get, Local
    <3>3. CASE dcache[d].meta # "deleting"
      BY <1>0, <1>7, <2>2, <3>1, <3>3, Zenon DEF Get, Goto, Local
    <3>4. QED
      BY <3>2, <3>3, Zenon
  <2>3. QED
    BY <2>1, <2>2, Zenon
<1>8. CASE AddFinalizer
  BY <1>0, <1>2, <1>5, <1>8, Zenon DEF AddFinalizer, Contest, Goto, Refused, Finish, Local
<1>9. CASE Yield \/ Observe
  <2>1. pc # "idle" /\ b \in DomainRecords /\ ReadApp(b) /\ base' = base
    BY <1>0, <1>9, Zenon DEF Yield, Observe, Local
  <2>2. QED
    BY <1>6, <2>1, Zenon
<1>10. CASE EnsureIngress
  BY <1>0, <1>5, <1>10, Zenon DEF EnsureIngress, FailReady, Goto, Local
<1>11. CASE UpdateAppURL
  BY <1>0, <1>2, <1>5, <1>11, Zenon DEF UpdateAppURL, AfterURL, Goto, Finish, Local
<1>12. CASE RemoveFinalizer \/ UpdateStatus
  BY <1>2, <1>12, Zenon DEF RemoveFinalizer, UpdateStatus, Refused, Finish
<1>13. CASE CallError
  BY <1>0, <1>2, <1>5, <1>13, Zenon DEF CallError, FailReady, Goto, Local
<1>14. ASSUME NEW d \in Domains, DeleteDomain(d) \/ ChangeCert(d) \/ CreateForeign(d) \/ CollectGarbage(d)
       PROVE  Local'
  BY <1>0, <1>1, <1>4, <1>14, Zenon DEF DeleteDomain, ChangeCert, CreateForeign, CollectGarbage, Local
<1>15. ASSUME NEW d \in Domains, NEW h \in Hosts, NEW x \in Apps, CreateDomain(d, h, x)
       PROVE  Local'
  BY <1>1, <1>15, Zenon DEF CreateDomain
<1>16. ASSUME NEW x \in Apps, ChangeApp(x)
       PROVE  Local'
  BY <1>4, <1>16, Zenon DEF ChangeApp
<1>17. CASE SyncDomains \/ SyncIngresses \/ Restart
  BY <1>1, <1>2, <1>17, Zenon DEF SyncDomains, SyncIngresses, Restart
<1>18. CASE Next
  BY <1>7, <1>8, <1>9, <1>10, <1>11, <1>12, <1>13, <1>14, <1>15, <1>16, <1>17, <1>18, Zenon DEF Next, Reconcile
<1>19. QED
  BY <1>1, <1>18, Zenon DEF vars

LEMMA CounterTypes ==
    ASSUME TypeOK, [Next]_vars
    PROVE  born' \in 0..MaxBorn /\ deletes' \in 0..MaxDeletes /\ faults' \in 0..MaxFaults
<1>0. /\ born \in 0..MaxBorn /\ deletes \in 0..MaxDeletes /\ faults \in 0..MaxFaults
      /\ MaxBorn \in Nat /\ MaxDeletes \in Nat /\ MaxFaults \in Nat
  BY DomainConstants, Zenon DEF TypeOK
<1>1. /\ born' = born \/ (born < MaxBorn /\ born' = born + 1)
      /\ deletes' = deletes \/ (deletes < MaxDeletes /\ deletes' = deletes + 1)
      /\ faults' = faults \/ Fault
  BY Zenon DEF Next, Reconcile, CreateDomain, DeleteDomain, ChangeApp, ChangeCert, CreateForeign, CollectGarbage,
     SyncDomains, SyncIngresses, Restart, Get, AddFinalizer, Yield, EnsureIngress, Observe, UpdateAppURL,
     RemoveFinalizer, UpdateStatus, CallError, vars
<1>2. QED
  BY <1>0, <1>1 DEF Fault

\* Every variable keeps its type, and the worker holds the copy of a Domain from
\* its Get to its return, whatever fails in between; what updateAppURL writes is
\* the host of a Domain or none.
THEOREM TypeCorrect == Spec => []TypeOK
<1>1. Init => IInv /\ TypeOK
  <2> SUFFICES ASSUME Init PROVE TypeOK
    BY InitKeeps, Zenon
  <2>1. None \in Hosts \cup {None} /\ 0 \in 0..MaxBorn /\ 0 \in 0..MaxDeletes /\ 0 \in 0..MaxFaults /\ 0 \in Nat
    BY DomainConstants
  <2>2. app \in [Apps -> AppRecords]
    BY <2>1 DEF Init, AppRecords
  <2>3. QED
    BY <2>1, <2>2, Zenon DEF Init, TypeOK
<1>2. IInv /\ TypeOK /\ [Next]_vars => (IInv /\ TypeOK)'
  <2> SUFFICES ASSUME IInv, TypeOK, [Next]_vars PROVE IInv' /\ TypeOK'
    BY Zenon
  <2>1. IInv'
    BY StepKeeps, Zenon
  <2>2. QED
    BY <2>1, AppTypes, QueueTypes, LocalTypes, CounterTypes, Zenon DEF TypeOK, Local, IInv, Types
<1>3. QED
  BY <1>1, <1>2, PTL DEF Spec

-----------------------------------------------------------------------------

(***************************************************************************)
(* For every set of sizes and any number of events: a database that has an *)
(* initialised volume has the Secret that opens it, and no reconcile takes *)
(* over another controller's Secret or shrinks a volume.                   *)
(*                                                                         *)
(* What makes the passwords right is the order of a reconcile, Secret      *)
(* before StatefulSet, together with uids: a database that is gone never   *)
(* comes back under its uid (Born), so the Secret that a live database's   *)
(* reconcile has secured stays its own until the database goes (Secured),  *)
(* and the volume of a live database's set is initialised from it.         *)
(***************************************************************************)

Works == [pc : {"idle", "write", "provision"}, b : Databases \cup {Null}, sec : Secrets \cup {Null}]

DatabaseTypes ==
    /\ db \in [Kinds -> Databases \cup {Null}] /\ dbc \in [Kinds -> Databases \cup {Null}]
    /\ secret \in Secrets \cup {Null}
    /\ sts \in Sets \cup {Null} /\ pvc \in Claims \cup {Null}
    /\ ui \in [Kinds -> Owners \cup {Null}] /\ session \in Owners \cup {Null}
    /\ work \in [Kinds -> Works]
    /\ \A k \in Kinds : work[k].pc # "idle" <=> work[k].b # Null
    /\ queue \subseteq Kinds
    /\ events \in 0..MaxEvents

(***************************************************************************)
(* Facts about the values.                                                 *)
(***************************************************************************)

\* Null is no object, and neither an ExternalSecret nor nobody is a database.
LEMMA Apart ==
    /\ Null \notin Databases /\ Null \notin Secrets /\ Null \notin Sets /\ Null \notin Claims /\ Null \notin Owners
    /\ Eso \notin Owners /\ Nobody \notin Owners /\ Eso # Nobody
<1>1. Eso \notin Owners /\ Nobody \notin Owners /\ Eso # Nobody
  BY DEF Owners, Eso, Nobody
<1>2. QED
  BY <1>1, DatabaseConstants, Zenon

\* There is always a password that nobody holds: at most four are held.
LEMMA FreshExists ==
    ASSUME DatabaseTypes
    PROVE  Fresh \in Passwords /\ Fresh # 0
<1> DEFINE P(p) == /\ \A s \in {secret, pvc} : s # Null => s.pw # p
                   /\ \A j \in Kinds : work[j].sec # Null => work[j].sec.pw # p
<1>1. \E p \in Passwords \ {0} : P(p)
  <2> DEFINE a == secret.pw
             c == pvc.pw
             m == work["mongo"].sec.pw
             n == work["postgres"].sec.pw
  <2>1. ASSUME NEW p, p # a, p # c, p # m, p # n
        PROVE  P(p)
    BY <2>1, Zenon DEF Kinds
  <2> HIDE DEF P, a, c, m, n
  <2>2. \E p \in 1..5 : p # a /\ p # c /\ p # m /\ p # n
    OBVIOUS
  <2>3. PICK p \in 1..5 : p # a /\ p # c /\ p # m /\ p # n
    BY <2>2, Zenon
  <2>4. p \in Passwords \ {0}
    BY DEF Passwords
  <2>5. QED
    BY <2>1, <2>3, <2>4, Zenon
<1>2. Fresh = CHOOSE p \in Passwords \ {0} : P(p)
  BY Zenon DEF Fresh
<1> HIDE DEF P
<1>3. Fresh \in Passwords \ {0}
  BY <1>1, <1>2, Zenon
<1>4. QED
  BY <1>3, Zenon

LEMMA PasswordGiven ==
    ASSUME DatabaseTypes, NEW s \in Secrets \cup {Null}
    PROVE  /\ Password(s) \in Passwords /\ Password(s) # 0
           /\ s # Null /\ s.pw # 0 => Password(s) = s.pw
<1>1. s # Null => s.pw \in Passwords
  BY Zenon DEF Secrets
<1>2. QED
  BY <1>1, FreshExists, Zenon DEF Password

\* The database a reconcile is about.
LEMMA AtWork ==
    ASSUME DatabaseTypes, NEW k \in Kinds, work[k].pc # "idle"
    PROVE  /\ work[k].b \in Databases /\ Uid(k) \in Owners /\ work[k].b.size \in Sizes
           /\ work[k].sec \in Secrets \cup {Null} /\ work[k] \in Works
<1>1. work[k] \in Works /\ work[k].b # Null
  BY Zenon DEF DatabaseTypes
<1>2. work[k].b \in Databases /\ work[k].sec \in Secrets \cup {Null}
  BY <1>1, Zenon DEF Works
<1>3. QED
  BY <1>1, <1>2, Zenon DEF Uid, Databases

(***************************************************************************)
(* DatabaseTypes.                                                                  *)
(***************************************************************************)

\* The status of a database is written, or the write is refused.
LEMMA StatusTypes ==
    ASSUME DatabaseTypes, NEW k \in Kinds, NEW c, NEW r \in {"pending", "ready", "refused"}, UpdateDatabaseStatus(k, c, r), c # Null
    PROVE  /\ db' \in [Kinds -> Databases \cup {Null}]
           /\ \A j \in Kinds : db'[j] # db[j] =>
                 /\ db[j] \in Databases /\ db'[j] \in Databases
                 /\ db'[j].owner = db[j].owner /\ db'[j].deleting = db[j].deleting
<1>1. CASE db[k] = c
  <2> DEFINE d == [db[k] EXCEPT !.ready = r]
  <2>1. db[k] \in Databases /\ db' = [db EXCEPT ![k] = d]
    BY <1>1, Zenon DEF DatabaseTypes, UpdateDatabaseStatus
  <2>2. d \in Databases /\ d.owner = db[k].owner /\ d.deleting = db[k].deleting
    BY <2>1, Zenon DEF Databases
  <2> HIDE DEF d
  <2>3. QED
    BY <2>1, <2>2, Zenon DEF DatabaseTypes
<1>2. CASE db[k] # c
  BY <1>2, Zenon DEF DatabaseTypes, UpdateDatabaseStatus
<1>3. QED
  BY <1>1, <1>2, Zenon

\* A reconcile that is put at another step has its types.
LEMMA WorkTypes ==
    ASSUME DatabaseTypes, NEW k \in Kinds, NEW w \in Works, w.pc # "idle" <=> w.b # Null, work' = [work EXCEPT ![k] = w]
    PROVE  work' \in [Kinds -> Works] /\ \A j \in Kinds : work'[j].pc # "idle" <=> work'[j].b # Null
<1>1. work' \in [Kinds -> Works] /\ work'[k] = w /\ \A j \in Kinds \ {k} : work'[j] = work[j]
  BY Zenon DEF DatabaseTypes
<1>2. QED
  BY <1>1, Zenon DEF DatabaseTypes

LEMMA IdleTypes == Idle \in Works /\ (Idle.pc # "idle" <=> Idle.b # Null)
BY Zenon DEF Idle, Works

LEMMA EventTypes ==
    ASSUME DatabaseTypes, Event
    PROVE  events' \in 0..MaxEvents /\ events + 1 \in 1..MaxEvents /\ events' = events + 1
BY DatabaseConstants DEF DatabaseTypes, Event

\* What users do to a database.
LEMMA UserSteps ==
    ASSUME DatabaseTypes, NEW k \in Kinds,
           Delete(k) \/ ToggleUI(k) \/ (\E n \in NewSizes : Create(k, n)) \/ (\E n \in Sizes : Resize(k, n))
    PROVE  \E d \in Databases \cup {Null} :
              /\ Event /\ db' = [db EXCEPT ![k] = d]
              /\ d # Null => \/ db[k] # Null /\ db[k] \in Databases /\ d.owner = db[k].owner
                                /\ (db[k].deleting => d.deleting)
                             \/ db[k] = Null /\ d.owner = <<k, events + 1>>
<1>1. ASSUME Delete(k) \/ ToggleUI(k) \/ (\E n \in Sizes : Resize(k, n))
      PROVE  db[k] \in Databases /\ ~db[k].deleting
  BY <1>1, Zenon DEF Delete, ToggleUI, Resize, DatabaseTypes
<1>2. CASE Delete(k)
  <2> DEFINE d == [db[k] EXCEPT !.deleting = TRUE]
  <2>1. d \in Databases /\ d.owner = db[k].owner /\ db[k] # Null
    BY <1>1, <1>2, Apart, Zenon DEF Databases
  <2>2. db' = [db EXCEPT ![k] = Null] \/ db' = [db EXCEPT ![k] = d]
    BY <1>2, Zenon DEF Delete
  <2> HIDE DEF d
  <2>3. QED
    BY <1>1, <1>2, <2>1, <2>2, Zenon DEF Delete
<1>3. CASE ToggleUI(k)
  <2> DEFINE d == [db[k] EXCEPT !.ui = ~@]
  <2>1. d \in Databases /\ d.owner = db[k].owner /\ db[k] # Null
    BY <1>1, <1>3, Apart, Zenon DEF Databases
  <2>2. db' = [db EXCEPT ![k] = d]
    BY <1>3, Zenon DEF ToggleUI
  <2> HIDE DEF d
  <2>3. QED
    BY <1>1, <1>3, <2>1, <2>2, Zenon DEF ToggleUI
<1>4. ASSUME NEW n \in Sizes, Resize(k, n)
      PROVE  \E d \in Databases : Event /\ db' = [db EXCEPT ![k] = d] /\ d.owner = db[k].owner /\ db[k] # Null
  <2> DEFINE d == [db[k] EXCEPT !.size = n]
  <2>1. d \in Databases /\ d.owner = db[k].owner /\ db[k] # Null
    BY <1>1, <1>4, Apart, Zenon DEF Databases
  <2>2. db' = [db EXCEPT ![k] = d]
    BY <1>4, Zenon DEF Resize
  <2> HIDE DEF d
  <2>3. QED
    BY <1>4, <2>1, <2>2, Zenon DEF Resize
<1>5. ASSUME NEW n \in NewSizes, Create(k, n)
      PROVE  \E d \in Databases : Event /\ db' = [db EXCEPT ![k] = d] /\ d.owner = <<k, events + 1>> /\ db[k] = Null
  <2> DEFINE d == [owner |-> <<k, events + 1>>, size |-> n, ui |-> FALSE, deleting |-> FALSE, ready |-> "pending"]
  <2>1. <<k, events + 1>> \in Owners /\ n \in Sizes
    BY <1>5, EventTypes, DatabaseConstants, Zenon DEF Create, Owners
  <2>2. d \in Databases /\ d.owner = <<k, events + 1>>
    BY <2>1, Zenon DEF Databases
  <2>3. db' = [db EXCEPT ![k] = d] /\ db[k] = Null /\ Event
    BY <1>5, Zenon DEF Create
  <2> HIDE DEF d
  <2>4. QED
    BY <2>2, <2>3, Zenon
<1>6. QED
  BY <1>1, <1>2, <1>3, <1>4, <1>5, Zenon

\* An owner's kind is one of the two.
LEMMA WatcherKinds ==
    ASSUME NEW o \in Owners \cup {Null}
    PROVE  Watchers(o) \subseteq Kinds
BY Zenon DEF Watchers, Owners

(***************************************************************************)
(* What a step does.                                                       *)
(***************************************************************************)

\* A database keeps its uid and does not come back from deletion; a new one has
\* a new uid.
DbStep ==
    /\ events' \in {events, events + 1}
    /\ \A j \in Kinds : db'[j] # Null =>
          \/ db[j] # Null /\ db'[j].owner = db[j].owner /\ (db[j].deleting => db'[j].deleting)
          \/ db'[j].owner = <<j, events + 1>> /\ events' = events + 1

\* Copies are of what was there; a reconcile gets past the Secret only when the
\* Secret is its database's.
CopyStep ==
    \A j \in Kinds :
        /\ dbc'[j] \in {dbc[j], db[j]} /\ work'[j].b \in {Null, work[j].b, dbc[j]}
        /\ work'[j].pc = "provision" =>
              /\ work[j].pc # "idle" /\ work'[j].b = work[j].b
              /\ work[j].pc = "provision" \/ OwnerOf(secret)' = Uid(j)

\* The Secret is collected, made by someone else, or ensured by a reconcile.
SecretStep ==
    /\ UNCHANGED <<sts, pvc>>
    /\ \/ Garbage(OwnerOf(secret)) /\ secret' = Null
       \/ secret = Null /\ secret' # Null /\ secret'.owner \notin Owners
       \/ \E k \in Kinds : /\ work[k].pc = "write" /\ Controllable(k, secret)
                           /\ secret' = [owner |-> Uid(k), pw |-> Password(secret)]

\* The set is collected, made by a reconcile or stays whose it is; its claim may
\* grow.
SetStep ==
    /\ UNCHANGED secret
    /\ \/ Garbage(OwnerOf(sts)) /\ sts' = Null
       \/ \E k \in Kinds : /\ work[k].pc = "provision" /\ sts = Null
                           /\ sts' # Null /\ sts'.owner = Uid(k)
       \/ OwnerOf(sts)' = OwnerOf(sts)
    /\ IF pvc = Null THEN pvc' = Null
       ELSE pvc' # Null /\ pvc'.set = pvc.set /\ pvc'.pw = pvc.pw /\ pvc'.size >= pvc.size

\* The claim is collected, made empty, or initialised with the Secret's password.
ClaimStep ==
    /\ UNCHANGED secret /\ OwnerOf(sts)' = OwnerOf(sts)
    /\ \/ pvc' = Null
       \/ pvc = Null /\ pvc' # Null /\ pvc'.pw = 0 /\ pvc'.set = OwnerOf(sts) /\ sts # Null
       \/ /\ pvc # Null /\ pvc' # Null /\ secret # Null
          /\ pvc.set = OwnerOf(sts) /\ pvc'.set = pvc.set /\ pvc'.size = pvc.size
          /\ pvc'.pw = (IF pvc.pw = 0 THEN secret.pw ELSE pvc.pw)

Step == DbStep /\ CopyStep /\ (SecretStep \/ SetStep \/ ClaimStep)

LEMMA ClaimSize ==
    ASSUME DatabaseTypes, pvc # Null
    PROVE  pvc \in Claims /\ pvc.size \in Nat /\ pvc.size >= pvc.size
<1>1. pvc \in Claims /\ pvc.size \in Nat
  BY DatabaseConstants, Zenon DEF DatabaseTypes, Claims
<1>2. QED
  BY <1>1

\* Nothing happens to the Secret, the set and the claim.
LEMMA Untouched ==
    ASSUME DatabaseTypes, UNCHANGED <<secret, sts, pvc>>
    PROVE  SetStep
BY ClaimSize, Zenon DEF SetStep, OwnerOf

\* No copy changes.
LEMMA SameCopies ==
    ASSUME UNCHANGED <<dbc, work>>
    PROVE  CopyStep
<1>1. \A j \in Kinds : work'[j].pc = "provision" => work[j].pc # "idle"
  OBVIOUS
<1>2. QED
  BY <1>1, Zenon DEF CopyStep

\* No database changes.
LEMMA SameDatabases ==
    ASSUME UNCHANGED db, events' \in {events, events + 1}
    PROVE  DbStep
BY Zenon DEF DbStep

LEMMA UsersStep ==
    ASSUME DatabaseTypes, Users
    PROVE  DatabaseTypes' /\ Step
<1>1. ASSUME NEW k \in Kinds, UNCHANGED <<secret, sts, pvc, ui, session, dbc, queue, work>>,
             Delete(k) \/ ToggleUI(k) \/ (\E n \in NewSizes : Create(k, n)) \/ (\E n \in Sizes : Resize(k, n))
      PROVE  DatabaseTypes' /\ Step
  <2>1. PICK d \in Databases \cup {Null} :
              /\ Event /\ db' = [db EXCEPT ![k] = d]
              /\ d # Null => \/ db[k] # Null /\ db[k] \in Databases /\ d.owner = db[k].owner
                                /\ (db[k].deleting => d.deleting)
                             \/ db[k] = Null /\ d.owner = <<k, events + 1>>
    BY <1>1, UserSteps, Zenon
  <2>2. events' \in 0..MaxEvents /\ events' = events + 1
    BY <2>1, EventTypes, Zenon
  <2>3. db' \in [Kinds -> Databases \cup {Null}] /\ db'[k] = d /\ \A j \in Kinds \ {k} : db'[j] = db[j]
    BY <2>1, Zenon DEF DatabaseTypes
  <2>4. DbStep
    BY <2>1, <2>2, <2>3, Zenon DEF DbStep
  <2>5. DatabaseTypes'
    BY <1>1, <2>2, <2>3, Zenon DEF DatabaseTypes
  <2>6. QED
    BY <1>1, <2>4, <2>5, Untouched, SameCopies, Zenon DEF Step
<1>2. CASE ForeignSecret
  <2>1. PICK o \in {Eso, Nobody} : secret' = [owner |-> o, pw |-> 0]
    BY <1>2, Zenon DEF ForeignSecret
  <2>2. 0 \in Passwords
    BY DEF Passwords
  <2>3. secret' \in Secrets /\ secret'.owner = o
    BY <2>1, <2>2, Zenon DEF Secrets
  <2>4. events' \in 0..MaxEvents /\ events' = events + 1
    BY <1>2, EventTypes, Zenon DEF ForeignSecret
  <2>5. SecretStep
    BY <1>2, <2>3, Apart, Zenon DEF ForeignSecret, SecretStep
  <2>6. DatabaseTypes'
    BY <1>2, <2>3, <2>4, Zenon DEF ForeignSecret, DatabaseTypes
  <2>7. QED
    BY <1>2, <2>4, <2>5, <2>6, SameCopies, SameDatabases, Zenon DEF ForeignSecret, Step
<1>3. QED
  BY <1>1, <1>2, Zenon DEF Users

\* What the garbage collector and the informers do.
LEMMA CollectStep ==
    ASSUME DatabaseTypes,
           \/ CollectSecret \/ CollectSet \/ CollectSession \/ CollectClaim
           \/ \E k \in Kinds : CollectUI(k) \/ CollectDatabase(k) \/ SyncDatabase(k)
    PROVE  DatabaseTypes' /\ Step
<1>1. CASE CollectSecret
  <2>1. DatabaseTypes' /\ SecretStep
    BY <1>1, Zenon DEF CollectSecret, DatabaseTypes, SecretStep
  <2>2. QED
    BY <1>1, <2>1, SameCopies, SameDatabases, Zenon DEF CollectSecret, Step
<1>2. CASE CollectSet
  <2>1. sts \in Sets /\ sts.owner \in Owners
    BY <1>2, Zenon DEF CollectSet, Garbage, OwnerOf, DatabaseTypes, Sets
  <2>2. queue' \subseteq Kinds
    BY <1>2, <2>1, WatcherKinds, Zenon DEF CollectSet, DatabaseTypes
  <2>3. DatabaseTypes'
    BY <1>2, <2>2, Zenon DEF CollectSet, DatabaseTypes
  <2>4. pvc # Null => pvc.size >= pvc.size
    BY ClaimSize, Zenon
  <2>5. SetStep
    BY <1>2, <2>4, Zenon DEF CollectSet, SetStep
  <2>6. QED
    BY <1>2, <2>3, <2>5, SameCopies, SameDatabases, Zenon DEF CollectSet, Step
<1>3. CASE CollectSession
  <2>1. DatabaseTypes'
    BY <1>3, Zenon DEF CollectSession, DatabaseTypes
  <2>2. QED
    BY <1>3, <2>1, Untouched, SameCopies, SameDatabases, Zenon DEF CollectSession, Step
<1>4. CASE CollectClaim
  <2>1. DatabaseTypes' /\ ClaimStep
    BY <1>4, Zenon DEF CollectClaim, DatabaseTypes, ClaimStep, OwnerOf
  <2>2. QED
    BY <1>4, <2>1, SameCopies, SameDatabases, Zenon DEF CollectClaim, Step
<1>5. ASSUME NEW k \in Kinds, CollectUI(k)
      PROVE  DatabaseTypes' /\ Step
  <2>1. queue' \subseteq Kinds
    BY <1>5, WatcherKinds, Zenon DEF CollectUI, DatabaseTypes
  <2>2. ui' \in [Kinds -> Owners \cup {Null}]
    BY <1>5, Zenon DEF CollectUI, DatabaseTypes
  <2>3. DatabaseTypes'
    BY <1>5, <2>1, <2>2, Zenon DEF CollectUI, DatabaseTypes
  <2>4. QED
    BY <1>5, <2>3, Untouched, SameCopies, SameDatabases, Zenon DEF CollectUI, Step
<1>6. ASSUME NEW k \in Kinds, CollectDatabase(k)
      PROVE  DatabaseTypes' /\ Step
  <2>1. db' \in [Kinds -> Databases \cup {Null}] /\ \A j \in Kinds : db'[j] # Null => db'[j] = db[j]
    BY <1>6, Zenon DEF CollectDatabase, DatabaseTypes
  <2>2. DatabaseTypes'
    BY <1>6, <2>1, Zenon DEF CollectDatabase, DatabaseTypes
  <2>3. DbStep
    BY <1>6, <2>1, Zenon DEF CollectDatabase, DbStep
  <2>4. QED
    BY <1>6, <2>2, <2>3, Untouched, SameCopies, Zenon DEF CollectDatabase, Step
<1>7. ASSUME NEW k \in Kinds, SyncDatabase(k)
      PROVE  DatabaseTypes' /\ Step
  <2>1. /\ dbc' \in [Kinds -> Databases \cup {Null}] /\ \A j \in Kinds : dbc'[j] \in {dbc[j], db[j]}
        /\ queue' \subseteq Kinds
    BY <1>7, Zenon DEF SyncDatabase, DatabaseTypes
  <2>2. UNCHANGED <<db, secret, sts, pvc, ui, session, work, events>>
    BY <1>7, Zenon DEF SyncDatabase, databaseObjects
  <2>3. DatabaseTypes'
    BY <2>1, <2>2, Zenon DEF DatabaseTypes
  <2>4. \A j \in Kinds : work'[j].pc = "provision" => work[j].pc # "idle"
    BY <2>2
  <2>5. CopyStep
    BY <2>1, <2>2, <2>4, Zenon DEF CopyStep
  <2>6. QED
    BY <2>2, <2>3, <2>5, Untouched, SameDatabases, Zenon DEF Step
<1>8. QED
  BY <1>1, <1>2, <1>3, <1>4, <1>5, <1>6, <1>7, Zenon

\* What the StatefulSet controller does.
LEMMA PodStep ==
    ASSUME DatabaseTypes, CreateClaim \/ StartPod \/ LosePod
    PROVE  DatabaseTypes' /\ Step
<1>1. sts \in Sets /\ sts # Null /\ sts.owner \in Owners /\ sts.size \in Sizes
  <2>1. sts \in Sets /\ sts # Null
    BY Apart, Zenon DEF CreateClaim, StartPod, LosePod, DatabaseTypes
  <2>2. QED
    BY <2>1, Zenon DEF Sets
<1>2. OwnerOf(sts) = sts.owner
  BY <1>1, Zenon DEF OwnerOf
<1>3. CASE CreateClaim
  <2>1. 0 \in Passwords
    BY DEF Passwords
  <2>2. pvc' \in Claims /\ pvc'.pw = 0 /\ pvc'.set = sts.owner
    BY <1>1, <1>3, <2>1, Zenon DEF CreateClaim, Claims
  <2>3. DatabaseTypes'
    BY <1>3, <2>2, Zenon DEF CreateClaim, DatabaseTypes
  <2>4. ClaimStep
    BY <1>1, <1>2, <1>3, <2>2, Apart, Zenon DEF CreateClaim, ClaimStep, OwnerOf
  <2>5. QED
    BY <1>3, <2>3, <2>4, SameCopies, SameDatabases, Zenon DEF CreateClaim, Step
<1>4. ASSUME NEW v \in BOOLEAN, sts' = [sts EXCEPT !.up = v], queue' = queue \cup Watchers(sts.owner)
      PROVE  sts' \in Sets /\ OwnerOf(sts)' = OwnerOf(sts) /\ queue' \subseteq Kinds
  <2>1. sts' \in Sets /\ sts'.owner = sts.owner
    BY <1>1, <1>4, Zenon DEF Sets
  <2>2. queue' \subseteq Kinds
    BY <1>1, <1>4, WatcherKinds, Zenon DEF DatabaseTypes
  <2>3. QED
    BY <1>2, <2>1, <2>2, Apart, Zenon DEF OwnerOf
<1>5. CASE StartPod
  <2>1. sts' \in Sets /\ OwnerOf(sts)' = OwnerOf(sts) /\ queue' \subseteq Kinds
    BY <1>4, <1>5, Zenon DEF StartPod
  <2>2. pvc \in Claims /\ secret \in Secrets /\ pvc.set = sts.owner
    BY <1>5, Zenon DEF StartPod, RetainedWhenDeleted, DatabaseTypes
  <2>3. pvc.pw \in Passwords /\ secret.pw \in Passwords
    BY <2>2, Zenon DEF Claims, Secrets
  <2> DEFINE p == IF pvc.pw = 0 THEN secret.pw ELSE pvc.pw
  <2>4. p \in Passwords
    BY <2>3, Zenon
  <2>5. pvc' = [pvc EXCEPT !.set = sts.owner, !.pw = p]
    BY <1>5 DEF StartPod
  <2> HIDE DEF p
  <2>6. pvc' \in Claims /\ pvc'.set = sts.owner /\ pvc'.size = pvc.size /\ pvc'.pw = p
    BY <1>1, <2>2, <2>4, <2>5 DEF Claims
  <2>7. DatabaseTypes'
    BY <1>5, <2>1, <2>6, Zenon DEF StartPod, DatabaseTypes
  <2>8. ClaimStep
    BY <1>2, <1>5, <2>1, <2>2, <2>6, Apart, Zenon DEF StartPod, ClaimStep, p
  <2>9. QED
    BY <1>5, <2>7, <2>8, SameCopies, SameDatabases, Zenon DEF StartPod, Step
<1>6. CASE LosePod
  <2>1. sts' \in Sets /\ OwnerOf(sts)' = OwnerOf(sts) /\ queue' \subseteq Kinds
    BY <1>4, <1>6, Zenon DEF LosePod
  <2>2. events' \in 0..MaxEvents /\ events' = events + 1
    BY <1>6, EventTypes, Zenon DEF LosePod
  <2>3. DatabaseTypes'
    BY <1>6, <2>1, <2>2, Zenon DEF LosePod, DatabaseTypes
  <2>4. pvc # Null => pvc.size >= pvc.size
    BY ClaimSize, Zenon
  <2>5. SetStep
    BY <1>6, <2>1, <2>4, Zenon DEF LosePod, SetStep
  <2>6. QED
    BY <1>6, <2>2, <2>3, <2>5, SameCopies, SameDatabases, Zenon DEF LosePod, Step
<1>7. QED
  BY <1>3, <1>5, <1>6, Zenon

LEMMA RestartStep ==
    ASSUME DatabaseTypes, RestartOperator
    PROVE  DatabaseTypes' /\ Step
<1>1. /\ UNCHANGED <<db, secret, sts, pvc, ui, session>> /\ dbc' = db /\ queue' = Kinds
      /\ work' = [k \in Kinds |-> Idle] /\ Event
  BY Zenon DEF RestartOperator, databaseObjects
<1>2. events' \in 0..MaxEvents /\ events' = events + 1
  BY <1>1, EventTypes, Zenon
<1>3. DatabaseTypes'
  BY <1>1, <1>2, IdleTypes, Zenon DEF DatabaseTypes
<1>4. \A j \in Kinds : work'[j].pc # "provision" /\ work'[j].b = Null
  BY <1>1 DEF Idle
<1>5. CopyStep
  BY <1>1, <1>4, Zenon DEF CopyStep
<1>6. QED
  BY <1>1, <1>2, <1>3, <1>5, Untouched, SameDatabases, Zenon DEF Step

(***************************************************************************)
(* What a reconcile does.                                                  *)
(***************************************************************************)

\* A reconcile that ends leaves no copy behind; the other one goes on.
LEMMA EndsStep ==
    ASSUME DatabaseTypes, NEW k \in Kinds, work' = [work EXCEPT ![k] = Idle], UNCHANGED dbc
    PROVE  /\ CopyStep /\ work' \in [Kinds -> Works]
           /\ \A j \in Kinds : work'[j].pc # "idle" <=> work'[j].b # Null
<1>1. work' \in [Kinds -> Works] /\ \A j \in Kinds : work'[j].pc # "idle" <=> work'[j].b # Null
  BY IdleTypes, WorkTypes, Zenon
<1>2. work'[k] = Idle /\ \A j \in Kinds \ {k} : work'[j] = work[j]
  BY Zenon DEF DatabaseTypes
<1>3. Idle.pc # "provision" /\ Idle.b = Null
  BY DEF Idle
<1>4. \A j \in Kinds : work'[j].pc = "provision" => work'[j] = work[j] /\ work[j].pc # "idle"
  BY <1>2, <1>3
<1>5. CopyStep
  BY <1>2, <1>3, <1>4, Zenon DEF CopyStep
<1>6. QED
  BY <1>1, <1>5, Zenon

\* The status that is written leaves the database whose it is.
LEMMA StatusStep ==
    ASSUME DatabaseTypes, NEW k \in Kinds, NEW c \in Databases, NEW r \in {"pending", "ready", "refused"},
           UpdateDatabaseStatus(k, c, r), events' \in {events, events + 1}
    PROVE  DbStep /\ db' \in [Kinds -> Databases \cup {Null}]
<1>1. /\ db' \in [Kinds -> Databases \cup {Null}]
      /\ \A j \in Kinds : db'[j] # db[j] =>
            /\ db[j] \in Databases /\ db'[j] \in Databases
            /\ db'[j].owner = db[j].owner /\ db'[j].deleting = db[j].deleting
  BY StatusTypes, Apart, Zenon
<1>2. QED
  BY <1>1, Apart, Zenon DEF DbStep

\* The objects of the UI have an owner among the databases.
LEMMA OwnerTypes ==
    ASSUME NEW o \in Owners \cup {Null}, NEW c
    PROVE  Without(o, c) \in Owners \cup {Null}
BY Zenon DEF Without

LEMMA DisableTypes ==
    ASSUME DatabaseTypes, NEW k \in Kinds, NEW c, DisableUI(k, c)
    PROVE  ui' \in [Kinds -> Owners \cup {Null}] /\ session' \in Owners \cup {Null}
<1>1. "postgres" \in Kinds /\ "mongo" \in Kinds
  BY Zenon DEF Kinds
<1>2. CASE k = "postgres"
  <2>1. ui' = [ui EXCEPT !["postgres"] = Without(ui["postgres"], c)] /\ session' = session
    BY <1>2, Zenon DEF DisableUI, DisablePgweb
  <2>2. QED
    BY <1>1, <2>1, OwnerTypes, Zenon DEF DatabaseTypes
<1>3. CASE k # "postgres"
  <2>1. ui' = [ui EXCEPT !["mongo"] = Without(ui["mongo"], c)] /\ session' = Without(session, c)
    BY <1>3, Zenon DEF DisableUI, DisableMongoExpress
  <2>2. QED
    BY <1>1, <2>1, OwnerTypes, Zenon DEF DatabaseTypes
<1>4. QED
  BY <1>2, <1>3, Zenon

LEMMA ReconcileUITypes ==
    ASSUME DatabaseTypes, NEW k \in Kinds, Uid(k) \in Owners, ReconcileUI(k)
    PROVE  ui' \in [Kinds -> Owners \cup {Null}] /\ session' \in Owners \cup {Null}
<1>1. CASE k = "postgres"
  <2>1. PICK o \in {ui[k], Uid(k)} : ui' = [ui EXCEPT ![k] = o] /\ session' = session
    BY <1>1, Zenon DEF ReconcileUI, ReconcilePgweb
  <2>2. QED
    BY <2>1, Zenon DEF DatabaseTypes
<1>2. CASE k # "postgres"
  <2>1. k = "mongo"
    BY <1>2, Zenon DEF Kinds
  <2>2. PICK o \in {ui[k], Uid(k)} : ui' = [ui EXCEPT ![k] = o] /\ session' \in {session, Uid(k)}
    BY <1>2, <2>1, Zenon DEF ReconcileUI, ReconcileMongoExpress, EnsureSession
  <2>3. QED
    BY <2>2, Zenon DEF DatabaseTypes
<1>3. QED
  BY <1>1, <1>2, Zenon

LEMMA BeginStep ==
    ASSUME DatabaseTypes, NEW k \in Kinds, Begin(k)
    PROVE  DatabaseTypes' /\ Step
<1> DEFINE c == dbc[k]
           w == [Idle EXCEPT !.pc = "write", !.b = c, !.sec = secret]
<1>1. UNCHANGED <<secret, sts, pvc, dbc>> /\ work[k].pc = "idle"
  BY Zenon DEF Begin
<1>2. ~Skipped(c) => c \in Databases /\ c.ready \in {"pending", "ready", "refused"}
  BY Zenon DEF Skipped, DatabaseTypes, Databases
<1>3. SetStep
  BY <1>1, Untouched, Zenon
<1>4. ASSUME ~Skipped(c), work' = [work EXCEPT ![k] = w], queue' = queue \ {k}, UNCHANGED <<db, events>>,
             ui' \in [Kinds -> Owners \cup {Null}], session' \in Owners \cup {Null}
      PROVE  DatabaseTypes' /\ Step
  <2>1. w \in Works /\ w.pc = "write" /\ w.b = c
    BY <1>2, <1>4 DEF Idle, Works, DatabaseTypes
  <2>2. w.pc # "idle" /\ w.b # Null /\ w.pc # "provision"
    BY <1>2, <1>4, <2>1, Apart
  <2> HIDE DEF w
  <2>3. work' \in [Kinds -> Works] /\ \A j \in Kinds : work'[j].pc # "idle" <=> work'[j].b # Null
    BY <1>4, <2>1, <2>2, WorkTypes, Zenon
  <2>4. work'[k] = w /\ \A j \in Kinds \ {k} : work'[j] = work[j]
    BY <1>4, Zenon DEF DatabaseTypes
  <2>5. \A j \in Kinds : work'[j].pc = "provision" => work'[j] = work[j] /\ work[j].pc # "idle"
    BY <2>2, <2>4
  <2>6. CopyStep
    BY <1>1, <2>1, <2>4, <2>5, Zenon DEF CopyStep
  <2>7. DatabaseTypes'
    BY <1>1, <1>4, <2>3, Zenon DEF DatabaseTypes
  <2>8. QED
    BY <1>3, <1>4, <2>6, <2>7, SameDatabases, Zenon DEF Step
<1>5. ASSUME ~Skipped(c), NEW r \in {"pending", "ready", "refused"}, FailDatabaseReady(k, c, r),
             events' \in {events, events + 1}, events' \in 0..MaxEvents,
             ui' \in [Kinds -> Owners \cup {Null}], session' \in Owners \cup {Null}
      PROVE  DatabaseTypes' /\ Step
  <2>1. UpdateDatabaseStatus(k, c, r) /\ work' = [work EXCEPT ![k] = Idle] /\ queue' \subseteq Kinds
    BY <1>5, Zenon DEF FailDatabaseReady, GoOn, Requeue, DatabaseTypes
  <2>2. DbStep /\ db' \in [Kinds -> Databases \cup {Null}]
    BY <1>2, <1>5, <2>1, StatusStep, Zenon
  <2>3. /\ CopyStep /\ work' \in [Kinds -> Works]
        /\ \A j \in Kinds : work'[j].pc # "idle" <=> work'[j].b # Null
    BY <1>1, <2>1, EndsStep, Zenon
  <2>4. DatabaseTypes'
    BY <1>1, <1>5, <2>1, <2>2, <2>3, Zenon DEF DatabaseTypes
  <2>5. QED
    BY <1>3, <2>2, <2>3, <2>4, Zenon DEF Step
<1>6. CASE Skipped(c) /\ queue' = queue \ {k} /\ UNCHANGED <<db, ui, session, work, events>>
  <2>1. DatabaseTypes'
    BY <1>1, <1>6, Zenon DEF DatabaseTypes
  <2>2. QED
    BY <1>1, <1>3, <1>6, <2>1, SameCopies, SameDatabases, Zenon DEF Step
<1>7. CASE ~Skipped(c) /\ FailDatabaseReady(k, c, "refused") /\ UNCHANGED <<ui, session, events>>
  BY <1>5, <1>7, Zenon DEF DatabaseTypes
<1>8. CASE /\ ~Skipped(c) /\ work' = [work EXCEPT ![k] = w] /\ queue' = queue \ {k} /\ UNCHANGED <<db, events>>
           /\ UNCHANGED <<ui, session>> \/ DisableUI(k, c)
  <2>1. ui' \in [Kinds -> Owners \cup {Null}] /\ session' \in Owners \cup {Null}
    BY <1>8, DisableTypes, Zenon DEF DatabaseTypes
  <2>2. QED
    BY <1>4, <1>8, <2>1, Zenon
<1>9. CASE /\ ~Skipped(c) /\ Event /\ UNCHANGED session /\ FailDatabaseReady(k, c, c.ready)
           /\ UNCHANGED ui \/ ui' = [ui EXCEPT ![k] = Without(@, c)]
  <2>1. ui' = ui \/ ui' = [ui EXCEPT ![k] = Without(ui[k], c)]
    BY <1>9, Zenon
  <2>2. ui' \in [Kinds -> Owners \cup {Null}]
    <3>1. ui \in [Kinds -> Owners \cup {Null}] /\ Without(ui[k], c) \in Owners \cup {Null}
      BY OwnerTypes, Zenon DEF DatabaseTypes
    <3> HIDE DEF c
    <3>2. QED
      BY <2>1, <3>1, Zenon
  <2>3. events' \in 0..MaxEvents /\ events' = events + 1
    BY <1>9, EventTypes, Zenon
  <2>4. session' \in Owners \cup {Null}
    BY <1>9, Zenon DEF DatabaseTypes
  <2>5. QED
    BY <1>2, <1>5, <1>9, <2>2, <2>3, <2>4, Zenon
<1>10. QED
  BY <1>6, <1>7, <1>8, <1>9, Zenon DEF Begin, GoOn

LEMMA EnsureSecretStep ==
    ASSUME DatabaseTypes, NEW k \in Kinds, EnsureSecret(k)
    PROVE  DatabaseTypes' /\ Step
<1>1. UNCHANGED <<sts, pvc, ui, session, dbc, events>> /\ work[k].pc = "write"
  BY Zenon DEF EnsureSecret
<1>2. /\ work[k].b \in Databases /\ Uid(k) \in Owners /\ work[k].sec \in Secrets \cup {Null}
      /\ work[k] \in Works
  <2>1. work[k].pc # "idle"
    BY <1>1
  <2>2. QED
    BY <2>1, AtWork, Zenon
<1>3. ASSUME NEW r \in {"pending", "ready", "refused"}, Fail(k, r), UNCHANGED secret
      PROVE  DatabaseTypes' /\ Step
  <2>1. UpdateDatabaseStatus(k, work[k].b, r) /\ work' = [work EXCEPT ![k] = Idle] /\ queue' \subseteq Kinds
    BY <1>3, Zenon DEF Fail, FailDatabaseReady, GoOn, Requeue, DatabaseTypes
  <2>2. DbStep /\ db' \in [Kinds -> Databases \cup {Null}]
    BY <1>1, <1>2, <2>1, StatusStep, Zenon
  <2>3. /\ CopyStep /\ work' \in [Kinds -> Works]
        /\ \A j \in Kinds : work'[j].pc # "idle" <=> work'[j].b # Null
    BY <1>1, <2>1, EndsStep, Zenon
  <2>4. DatabaseTypes'
    BY <1>1, <1>3, <2>1, <2>2, <2>3, Zenon DEF DatabaseTypes
  <2>5. QED
    BY <1>1, <1>3, <2>2, <2>3, <2>4, Untouched, Zenon DEF Step
<1>4. ASSUME Controllable(k, secret), secret = work[k].sec,
             secret' = [owner |-> Uid(k), pw |-> Password(secret)],
             work' = [work EXCEPT ![k] = [work[k] EXCEPT !.pc = "provision", !.sec = Null]],
             UNCHANGED <<db, queue>>
      PROVE  DatabaseTypes' /\ Step
  <2> DEFINE w == [work[k] EXCEPT !.pc = "provision", !.sec = Null]
  <2>1. w \in Works /\ w.pc = "provision" /\ w.b = work[k].b
    BY <1>2 DEF Works
  <2>2. w.pc # "idle" /\ w.b # Null
    BY <1>2, <2>1, Apart
  <2>3. work' = [work EXCEPT ![k] = w]
    BY <1>4, Zenon
  <2> HIDE DEF w
  <2>4. work' \in [Kinds -> Works] /\ \A j \in Kinds : work'[j].pc # "idle" <=> work'[j].b # Null
    BY <2>1, <2>2, <2>3, WorkTypes, Zenon
  <2>5. work'[k] = w /\ \A j \in Kinds \ {k} : work'[j] = work[j]
    BY <2>3, Zenon DEF DatabaseTypes
  <2>6. secret' \in Secrets /\ secret'.owner = Uid(k)
    BY <1>2, <1>4, PasswordGiven, Zenon DEF Secrets
  <2>7. OwnerOf(secret)' = Uid(k)
    BY <2>6, Apart, Zenon DEF OwnerOf
  <2>8. work[k].pc # "idle" /\ \A j \in Kinds : work[j].pc = "provision" => work[j].pc # "idle"
    BY <1>1
  <2>9. CopyStep
    BY <1>1, <2>1, <2>5, <2>7, <2>8, Zenon DEF CopyStep
  <2>10. DatabaseTypes'
    BY <1>1, <1>4, <2>4, <2>6, Zenon DEF DatabaseTypes
  <2>11. SecretStep
    BY <1>1, <1>4, Zenon DEF SecretStep
  <2>12. QED
    BY <1>1, <1>4, <2>9, <2>10, <2>11, SameDatabases, Zenon DEF Step
<1>5. QED
  BY <1>3, <1>4, Zenon DEF EnsureSecret, GoOn

LEMMA ProvisionStep ==
    ASSUME DatabaseTypes, NEW k \in Kinds, Provision(k)
    PROVE  DatabaseTypes' /\ Step
<1> DEFINE c == work[k].b
<1>1. UNCHANGED <<secret, dbc>> /\ work[k].pc = "provision"
  BY Zenon DEF Provision
<1>2. c \in Databases /\ Uid(k) \in Owners /\ c.size \in Sizes
  <2>1. work[k].pc # "idle"
    BY <1>1
  <2>2. QED
    BY <2>1, AtWork, Zenon
<1>3. ASSUME NEW r \in {"pending", "ready", "refused"}, UpdateDatabaseStatus(k, c, r), GoOn(k, Idle), queue' \subseteq Kinds,
             events' \in {events, events + 1}, events' \in 0..MaxEvents,
             SetStep, sts' \in Sets \cup {Null}, pvc' \in Claims \cup {Null},
             ui' \in [Kinds -> Owners \cup {Null}], session' \in Owners \cup {Null}
      PROVE  DatabaseTypes' /\ Step
  <2>1. DbStep /\ db' \in [Kinds -> Databases \cup {Null}]
    BY <1>2, <1>3, StatusStep, Zenon
  <2>2. /\ CopyStep /\ work' \in [Kinds -> Works]
        /\ \A j \in Kinds : work'[j].pc # "idle" <=> work'[j].b # Null
    BY <1>1, <1>3, EndsStep, Zenon DEF GoOn
  <2>3. DatabaseTypes'
    BY <1>1, <1>3, <2>1, <2>2, Zenon DEF DatabaseTypes
  <2>4. QED
    BY <1>3, <2>1, <2>2, <2>3, Zenon DEF Step
<1>4. ASSUME EnsureStatefulSet(k)
      PROVE  /\ sts' \in Sets
             /\ \/ work[k].pc = "provision" /\ sts = Null /\ sts' # Null /\ sts'.owner = Uid(k)
                \/ sts' = sts
  <2>1. CASE sts = Null
    <3>1. sts' = [owner |-> Uid(k), size |-> c.size, up |-> FALSE]
      BY <1>4, <2>1, Zenon DEF EnsureStatefulSet
    <3>2. sts' \in Sets /\ sts'.owner = Uid(k)
      BY <1>2, <3>1 DEF Sets
    <3>3. QED
      BY <1>1, <2>1, <3>2, Apart, Zenon
  <2>2. CASE sts # Null
    BY <1>4, <2>2, Zenon DEF EnsureStatefulSet, DatabaseTypes
  <2>3. QED
    BY <2>1, <2>2, Zenon
<1>5. ASSUME UNCHANGED sts \/ EnsureStatefulSet(k),
             IF pvc = Null THEN pvc' = Null
             ELSE pvc' # Null /\ pvc'.set = pvc.set /\ pvc'.pw = pvc.pw /\ pvc'.size >= pvc.size
      PROVE  SetStep /\ sts' \in Sets \cup {Null}
  <2>1. CASE UNCHANGED sts
    BY <1>1, <1>5, <2>1, Zenon DEF SetStep, OwnerOf, DatabaseTypes
  <2>2. CASE EnsureStatefulSet(k)
    BY <1>1, <1>4, <1>5, <2>2, Zenon DEF SetStep, OwnerOf
  <2>3. QED
    BY <1>5, <2>1, <2>2, Zenon
<1>6. ASSUME NEW r \in {"pending", "ready", "refused"}, Fail(k, r), UNCHANGED <<pvc, ui, session>>,
             UNCHANGED sts \/ EnsureStatefulSet(k), UNCHANGED events \/ Event
      PROVE  DatabaseTypes' /\ Step
  <2>1. UpdateDatabaseStatus(k, c, r) /\ GoOn(k, Idle) /\ queue' \subseteq Kinds
    BY <1>6, Zenon DEF Fail, FailDatabaseReady, Requeue, DatabaseTypes
  <2>2. events' \in {events, events + 1} /\ events' \in 0..MaxEvents
    BY <1>6, EventTypes, Zenon DEF DatabaseTypes
  <2>3. SetStep /\ sts' \in Sets \cup {Null}
    BY <1>5, <1>6, ClaimSize, Zenon
  <2>4. QED
    BY <1>3, <1>6, <2>1, <2>2, <2>3, Zenon DEF DatabaseTypes
<1>7. ASSUME EnsureStatefulSet(k), ~Shrinks(c.size), GrowStorage(c.size),
             IF c.ui THEN ReconcileUI(k) ELSE UNCHANGED <<ui, session>>,
             WriteStatus(k), GoOn(k, Idle), UNCHANGED events
      PROVE  DatabaseTypes' /\ Step
  <2>1. PICK r \in {"pending", "ready", "refused"} : UpdateDatabaseStatus(k, c, r)
    BY <1>7, Zenon DEF WriteStatus
  <2>2. queue' \subseteq Kinds
    BY <1>7, Zenon DEF WriteStatus, DatabaseTypes
  <2>3. ui' \in [Kinds -> Owners \cup {Null}] /\ session' \in Owners \cup {Null}
    BY <1>2, <1>7, ReconcileUITypes, Zenon DEF DatabaseTypes
  <2>4. /\ pvc' \in Claims \cup {Null}
        /\ IF pvc = Null THEN pvc' = Null
           ELSE pvc' # Null /\ pvc'.set = pvc.set /\ pvc'.pw = pvc.pw /\ pvc'.size >= pvc.size
    <3>1. CASE pvc = Null
      BY <1>7, <3>1, Zenon DEF GrowStorage
    <3>2. CASE pvc # Null
      <4>1. pvc \in Claims /\ pvc.size \in Nat /\ c.size \in Nat
        BY <1>2, <3>2, ClaimSize, DatabaseConstants, Zenon
      <4>2. pvc' = [pvc EXCEPT !.size = c.size] /\ ~(c.size < pvc.size)
        BY <1>7, <3>2, Zenon DEF GrowStorage, Shrinks
      <4>3. pvc' \in Claims /\ pvc'.set = pvc.set /\ pvc'.pw = pvc.pw /\ pvc'.size = c.size
        BY <1>2, <4>1, <4>2, Zenon DEF Claims
      <4>4. c.size >= pvc.size
        BY <4>1, <4>2
      <4>5. QED
        BY <3>2, <4>3, <4>4, Apart, Zenon
    <3>3. QED
      BY <3>1, <3>2, Zenon
  <2>5. SetStep /\ sts' \in Sets \cup {Null}
    BY <1>5, <1>7, <2>4, Zenon
  <2>6. events' \in {events, events + 1} /\ events' \in 0..MaxEvents
    BY <1>7, Zenon DEF DatabaseTypes
  <2>7. QED
    BY <1>3, <1>7, <2>1, <2>2, <2>3, <2>4, <2>5, <2>6, Zenon
<1>8. QED
  BY <1>6, <1>7, Zenon DEF Provision

LEMMA NextStep ==
    ASSUME DatabaseTypes, [DatabaseNext]_databaseVars
    PROVE  DatabaseTypes' /\ Step
<1>1. CASE UNCHANGED databaseVars
  <2>1. UNCHANGED <<db, secret, sts, pvc, ui, session, dbc, queue, work, events>>
    BY <1>1, Zenon DEF databaseVars, databaseObjects
  <2>2. DatabaseTypes'
    BY <2>1, Zenon DEF DatabaseTypes
  <2>3. QED
    BY <2>1, <2>2, Untouched, SameCopies, SameDatabases, Zenon DEF Step
<1>2. CASE Kubernetes
  BY <1>2, CollectStep, PodStep, Zenon DEF Kubernetes
<1>3. CASE PostgresReconcile \/ MongoReconcile
  <2>1. PICK k \in Kinds : Begin(k) \/ EnsureSecret(k) \/ Provision(k)
    BY <1>3, Zenon DEF PostgresReconcile, MongoReconcile, MongoEnsureSecret, MongoProvision, Kinds
  <2>2. QED
    BY <2>1, BeginStep, EnsureSecretStep, ProvisionStep, Zenon
<1>4. QED
  BY <1>1, <1>2, <1>3, UsersStep, RestartStep, Zenon DEF DatabaseNext

LEMMA InitTypes ==
    ASSUME DatabaseInit
    PROVE  DatabaseTypes
<1>1. events \in 0..MaxEvents
  BY DatabaseConstants DEF DatabaseInit
<1>2. QED
  BY <1>1, IdleTypes, Zenon DEF DatabaseInit, DatabaseTypes

(***************************************************************************)
(* The inductive invariant.                                                *)
(***************************************************************************)

\* A uid that has been given by the n-th event.
Given(o, n) == o \in Owners => o[2] <= n

\* Whoever owns something, or is the subject of a copy, was created.
Born ==
    /\ \A k \in Kinds : /\ db[k] # Null => Given(db[k].owner, events)
                        /\ dbc[k] # Null => Given(dbc[k].owner, events)
                        /\ work[k].b # Null => Given(work[k].b.owner, events)
    /\ secret # Null => Given(secret.owner, events)
    /\ sts # Null => Given(sts.owner, events)
    /\ pvc # Null => Given(pvc.set, events)

\* While a database lives, its Secret is its own from the moment a reconcile has
\* secured it, before there is a set; a claim of its set is of the set that is
\* there, and holds no password or the Secret's.
Secured ==
    \A o \in Owners : LiveOwner(o) =>
        /\ OwnerOf(sts) = o => OwnerOf(secret) = o
        /\ \A k \in Kinds : work[k].pc = "provision" /\ Uid(k) = o => OwnerOf(secret) = o
        /\ pvc # Null /\ pvc.set = o => OwnerOf(sts) = o /\ (pvc.pw = 0 \/ pvc.pw = secret.pw)

DatabaseInv == DatabaseTypes /\ Born /\ Secured

\* A uid that was given stays given.
LEMMA GivenStays ==
    ASSUME DatabaseTypes, DbStep, NEW o, Given(o, events)
    PROVE  Given(o, events')
<1>1. events \in Int /\ events' \in {events, events + 1}
  BY DEF DatabaseTypes, DbStep
<1>2. SUFFICES ASSUME o \in Owners
               PROVE  o[2] <= events'
  BY Zenon DEF Given, Owners
<1>3. o[2] \in Int /\ o[2] <= events
  BY <1>2 DEF Given, Owners
<1>4. QED
  BY <1>1, <1>3

\* A database that is gone or being deleted never lives again.
LEMMA LivedBefore ==
    ASSUME DatabaseTypes, DbStep, NEW o \in Owners, Given(o, events), LiveOwner(o)'
    PROVE  LiveOwner(o)
<1>1. PICK j \in Kinds : db'[j] # Null /\ db'[j].owner = o /\ ~db'[j].deleting
  BY Zenon DEF LiveOwner
<1>2. o # <<j, events + 1>>
  <2>1. o[2] <= events /\ events \in Int
    BY DEF Given, DatabaseTypes
  <2>2. <<j, events + 1>>[2] = events + 1
    OBVIOUS
  <2>3. QED
    BY <2>1, <2>2
<1>3. db[j] # Null /\ db'[j].owner = db[j].owner /\ (db[j].deleting => db'[j].deleting)
  BY <1>1, <1>2, Zenon DEF DbStep
<1>4. QED
  BY <1>1, <1>3, Zenon DEF LiveOwner

LEMMA BornNext ==
    ASSUME DatabaseTypes, DatabaseTypes', Step, Born
    PROVE  Born'
<1>1. DbStep /\ CopyStep
  BY Zenon DEF Step
<1>2. \A o : Given(o, events) => Given(o, events')
  BY <1>1, GivenStays, Zenon
<1>3. ASSUME NEW j \in Kinds, db'[j] # Null
      PROVE  Given(db'[j].owner, events')
  <2>1. CASE db[j] # Null /\ db'[j].owner = db[j].owner
    BY <1>2, <2>1, Zenon DEF Born
  <2>2. CASE db'[j].owner = <<j, events + 1>> /\ events' = events + 1
    <3>1. events + 1 <= events + 1
      BY DEF DatabaseTypes
    <3>2. <<j, events + 1>>[2] = events + 1
      OBVIOUS
    <3>3. db'[j].owner[2] <= events'
      BY <2>2, <3>1, <3>2
    <3>4. QED
      BY <3>3, Zenon DEF Given, Owners
  <2>3. QED
    BY <1>1, <1>3, <2>1, <2>2, Zenon DEF DbStep
<1>4. ASSUME NEW j \in Kinds
      PROVE  /\ dbc'[j] # Null => Given(dbc'[j].owner, events')
             /\ work'[j].b # Null => Given(work'[j].b.owner, events')
  BY <1>1, <1>2, Zenon DEF CopyStep, Born
<1>5. \A k \in Kinds : work[k].pc \in {"write", "provision"} => Given(Uid(k), events)
  <2>1. ASSUME NEW k \in Kinds, work[k].pc \in {"write", "provision"}
        PROVE  work[k].pc # "idle"
    BY <2>1
  <2>2. QED
    BY <2>1, Zenon DEF DatabaseTypes, Born, Uid
<1>6. /\ secret' # Null => Given(secret'.owner, events')
      /\ sts' # Null => Given(sts'.owner, events')
      /\ pvc' # Null => Given(pvc'.set, events')
  <2>1. CASE SecretStep
    <3>1. ASSUME secret' # Null
          PROVE  Given(secret'.owner, events')
      <4>1. CASE secret'.owner \notin Owners
        BY <4>1, Zenon DEF Given, Owners
      <4>2. CASE \E k \in Kinds : work[k].pc = "write" /\ secret' = [owner |-> Uid(k), pw |-> Password(secret)]
        <5>1. PICK k \in Kinds : work[k].pc = "write" /\ secret' = [owner |-> Uid(k), pw |-> Password(secret)]
          BY <4>2, Zenon
        <5>2. secret'.owner = Uid(k)
          BY <5>1, Zenon
        <5>3. QED
          BY <1>2, <1>5, <5>1, <5>2, Zenon
      <4>3. QED
        BY <2>1, <3>1, <4>1, <4>2, Zenon DEF SecretStep
    <3>2. QED
      BY <1>2, <2>1, <3>1, Zenon DEF SecretStep, Born
  <2>2. CASE SetStep
    <3>1. sts' # Null => Given(sts'.owner, events')
      BY <1>2, <1>5, <2>2, Apart, Zenon DEF SetStep, OwnerOf, Born, DatabaseTypes, Sets
    <3>2. QED
      BY <1>2, <2>2, <3>1, Zenon DEF SetStep, Born
  <2>3. CASE ClaimStep
    <3>1. sts' # Null => Given(sts'.owner, events')
      BY <1>2, <2>3, Apart, Zenon DEF ClaimStep, OwnerOf, Born, DatabaseTypes, Sets
    <3>2. QED
      BY <1>2, <2>3, <3>1, Zenon DEF ClaimStep, OwnerOf, Born
  <2>4. QED
    BY <2>1, <2>2, <2>3, Zenon DEF Step
<1>7. QED
  BY <1>3, <1>4, <1>6, Zenon DEF Born

\* The Secret, the set or the claim of a live database after a step.
LEMMA SecuredNext ==
    ASSUME DatabaseInv, DatabaseTypes', Step
    PROVE  Secured'
<1>1. DatabaseTypes /\ Born /\ Secured /\ DbStep /\ CopyStep
  BY Zenon DEF DatabaseInv, Step
<1>2. \A k \in Kinds : work[k].pc \in {"write", "provision"} => Uid(k) \in Owners /\ Given(Uid(k), events)
  <2>1. ASSUME NEW k \in Kinds, work[k].pc \in {"write", "provision"}
        PROVE  work[k].pc # "idle"
    BY <2>1
  <2>2. QED
    BY <1>1, <2>1, AtWork, Zenon DEF DatabaseTypes, Born, Uid
<1>3. SUFFICES ASSUME NEW o \in Owners, LiveOwner(o)'
               PROVE  /\ OwnerOf(sts)' = o => OwnerOf(secret)' = o
                      /\ \A k \in Kinds : work'[k].pc = "provision" /\ Uid(k)' = o => OwnerOf(secret)' = o
                      /\ pvc' # Null /\ pvc'.set = o =>
                            OwnerOf(sts)' = o /\ (pvc'.pw = 0 \/ pvc'.pw = secret'.pw)
  BY Zenon DEF Secured
<1>4. o # Null
  BY Apart, Zenon
<1>5. Given(o, events) => LiveOwner(o)
  BY <1>1, <1>3, LivedBefore, Zenon
\* What the invariant says of o, if it was given before.
<1>6. ASSUME Given(o, events)
      PROVE  /\ OwnerOf(sts) = o => OwnerOf(secret) = o
             /\ \A k \in Kinds : work[k].pc = "provision" /\ Uid(k) = o => OwnerOf(secret) = o
             /\ pvc # Null /\ pvc.set = o => OwnerOf(sts) = o /\ (pvc.pw = 0 \/ pvc.pw = secret.pw)
             /\ ~Garbage(o)
  BY <1>1, <1>5, <1>6, Zenon DEF Secured, Garbage
<1>7. /\ OwnerOf(secret) = o => Given(o, events)
      /\ OwnerOf(sts) = o => Given(o, events)
      /\ pvc # Null /\ pvc.set = o => Given(o, events)
  BY <1>1, <1>4, Zenon DEF OwnerOf, Born
\* A Secret that was o's still is.
<1>8. ASSUME OwnerOf(secret) = o
      PROVE  OwnerOf(secret)' = o /\ (secret.pw # 0 => secret'.pw = secret.pw)
  <2>1. ~Garbage(o) /\ secret # Null /\ secret.owner = o /\ secret \in Secrets
    BY <1>1, <1>4, <1>6, <1>7, <1>8, Zenon DEF OwnerOf, DatabaseTypes
  <2>2. CASE UNCHANGED secret
    BY <1>8, <2>2, Zenon DEF OwnerOf
  <2>3. ASSUME NEW k \in Kinds, work[k].pc = "write", Controllable(k, secret),
               secret' = [owner |-> Uid(k), pw |-> Password(secret)]
        PROVE  OwnerOf(secret)' = o /\ (secret.pw # 0 => secret'.pw = secret.pw)
    <3>1. Uid(k) = o
      BY <1>3, <2>1, <2>3, Apart, Zenon DEF Controllable
    <3>2. secret'.owner = o /\ secret'.pw = Password(secret)
      BY <2>3, <3>1, Zenon
    <3>3. secret' # Null
      <4>1. Password(secret) \in Passwords
        BY <1>1, <2>1, PasswordGiven, Zenon
      <4>2. secret' \in Secrets
        BY <2>3, <3>1, <4>1, Zenon DEF Secrets
      <4>3. QED
        BY <4>2, Apart, Zenon
    <3>4. QED
      BY <1>1, <2>1, <3>2, <3>3, PasswordGiven, Zenon DEF OwnerOf
  <2>4. QED
    BY <1>8, <2>1, <2>2, <2>3, Zenon DEF Step, SecretStep, SetStep, ClaimStep
<1>9. OwnerOf(sts)' = o => OwnerOf(secret)' = o
  <2>1. CASE OwnerOf(sts) = o
    BY <1>6, <1>7, <1>8, <2>1, Zenon
  <2>2. CASE OwnerOf(sts)' = o /\ OwnerOf(sts) # o
    <3>1. PICK k \in Kinds : work[k].pc = "provision" /\ Uid(k) = o
      BY <1>4, <2>2, Zenon DEF Step, SecretStep, SetStep, ClaimStep, OwnerOf
    <3>2. QED
      BY <1>2, <1>6, <1>8, <3>1, Zenon
  <2>3. QED
    BY <2>1, <2>2, Zenon
<1>10. ASSUME NEW k \in Kinds, work'[k].pc = "provision", Uid(k)' = o
       PROVE  OwnerOf(secret)' = o
  <2>1. /\ Uid(k) = o
        /\ work[k].pc = "provision" \/ OwnerOf(secret)' = o
    BY <1>1, <1>10, Zenon DEF CopyStep, Uid
  <2>2. QED
    BY <1>2, <1>6, <1>8, <2>1, Zenon
<1>11. ASSUME pvc' # Null, pvc'.set = o
       PROVE  OwnerOf(sts)' = o /\ (pvc'.pw = 0 \/ pvc'.pw = secret'.pw)
  <2>1. CASE SecretStep
    <3>1. OwnerOf(sts) = o /\ (pvc.pw = 0 \/ pvc.pw = secret.pw) /\ OwnerOf(secret) = o
      BY <1>6, <1>7, <1>11, <2>1, Zenon DEF SecretStep
    <3>2. OwnerOf(sts)' = o /\ pvc'.pw = pvc.pw
      BY <2>1, <3>1, Zenon DEF SecretStep, OwnerOf
    <3>3. QED
      BY <1>8, <3>1, <3>2, Zenon
  <2>2. CASE SetStep
    <3>1. pvc # Null /\ pvc.set = o /\ pvc'.pw = pvc.pw /\ secret' = secret
      BY <1>11, <2>2, Zenon DEF SetStep
    <3>2. OwnerOf(sts) = o /\ (pvc.pw = 0 \/ pvc.pw = secret.pw) /\ ~Garbage(o)
      BY <1>6, <1>7, <3>1, Zenon
    <3>3. OwnerOf(sts)' = o
      BY <1>4, <2>2, <3>2, Zenon DEF SetStep, OwnerOf
    <3>4. QED
      BY <3>1, <3>2, <3>3, Zenon
  <2>3. CASE ClaimStep
    <3>1. CASE pvc'.pw = 0 /\ pvc'.set = OwnerOf(sts)
      BY <1>11, <2>3, <3>1, Zenon DEF ClaimStep
    <3>2. CASE /\ pvc # Null /\ pvc.set = OwnerOf(sts) /\ pvc'.set = pvc.set
               /\ pvc'.pw = (IF pvc.pw = 0 THEN secret.pw ELSE pvc.pw)
      <4>1. OwnerOf(sts) = o /\ (pvc.pw = 0 \/ pvc.pw = secret.pw)
        BY <1>6, <1>7, <1>11, <3>2, Zenon
      <4>2. pvc'.pw = secret.pw
        BY <3>2, <4>1, Zenon
      <4>3. QED
        BY <2>3, <4>1, <4>2, Zenon DEF ClaimStep
    <3>3. QED
      BY <1>11, <2>3, <3>1, <3>2, Zenon DEF ClaimStep
  <2>4. QED
    BY <2>1, <2>2, <2>3, Zenon DEF Step
<1>12. QED
  BY <1>9, <1>10, <1>11, Zenon

LEMMA Inductive ==
    DatabaseSpec => []DatabaseInv
<1>1. DatabaseInit => DatabaseInv
  <2>1. ASSUME DatabaseInit
        PROVE  DatabaseInv
    <3>1. DatabaseTypes
      BY <2>1, InitTypes, Zenon
    <3>2. /\ \A k \in Kinds : db[k] = Null /\ dbc[k] = Null /\ work[k] = Idle
          /\ secret = Null /\ sts = Null /\ pvc = Null
      BY <2>1, Zenon DEF DatabaseInit
    <3>3. Idle.b = Null
      BY DEF Idle
    <3>4. Born
      BY <3>2, <3>3, Zenon DEF Born
    <3>5. \A o \in Owners : ~LiveOwner(o)
      BY <3>2, Zenon DEF LiveOwner
    <3>6. QED
      BY <3>1, <3>4, <3>5, Zenon DEF DatabaseInv, Secured
  <2>2. QED
    BY <2>1, Zenon
<1>2. DatabaseInv /\ [DatabaseNext]_databaseVars => DatabaseInv'
  <2>1. ASSUME DatabaseInv, [DatabaseNext]_databaseVars
        PROVE  DatabaseInv'
    <3>1. DatabaseTypes' /\ Step
      BY <2>1, NextStep, Zenon DEF DatabaseInv
    <3>2. Born' /\ Secured'
      BY <2>1, <3>1, BornNext, SecuredNext, Zenon DEF DatabaseInv
    <3>3. QED
      BY <3>1, <3>2, Zenon DEF DatabaseInv
  <2>2. QED
    BY <2>1, Zenon
<1>3. QED
  BY <1>1, <1>2, PTL DEF DatabaseSpec

(***************************************************************************)
(* The theorems.                                                           *)
(***************************************************************************)

\* DatabaseUsable for every set of sizes and any number of events: whatever the
\* reconciles of both controllers, the users, the garbage collector, lost pods
\* and restarts do, in any order, the Secret of a database that is not being
\* deleted holds the password its volume was initialised with (ensureSecret
\* before ensureStatefulSet, generatePassword only when there is none).
THEOREM DatabasesStayUsable == DatabaseSpec => []DatabaseUsable
<1>1. DatabaseInv => DatabaseUsable
  <2>1. ASSUME DatabaseInv
        PROVE  DatabaseTypeOK
    <3>1. \A k \in Kinds : /\ work[k].pc \in {"idle", "write", "provision"}
                           /\ work[k].b \in Databases \cup {Null} /\ work[k].sec \in Secrets \cup {Null}
      BY <2>1, Zenon DEF DatabaseInv, DatabaseTypes, Works
    <3>2. \A k \in Kinds : (work[k].pc # "idle") = (work[k].b # Null)
      BY <2>1 DEF DatabaseInv, DatabaseTypes
    <3>3. QED
      BY <2>1, <3>1, <3>2, Zenon DEF DatabaseInv, DatabaseTypes, DatabaseTypeOK
  <2>2. ASSUME DatabaseInv, NEW k \in Kinds, db[k] # Null, ~db[k].deleting,
               sts # Null, sts.owner = db[k].owner, pvc # Null, pvc.set = sts.owner, pvc.pw # 0
        PROVE  secret = [owner |-> db[k].owner, pw |-> pvc.pw]
    <3> DEFINE o == db[k].owner
    <3>1. o \in Owners /\ LiveOwner(o)
      BY <2>2, Zenon DEF DatabaseInv, DatabaseTypes, Databases, LiveOwner
    <3>2. OwnerOf(secret) = o /\ pvc.pw = secret.pw
      BY <2>2, <3>1, Zenon DEF DatabaseInv, Secured, OwnerOf
    <3>3. secret \in Secrets /\ secret.owner = o
      BY <2>2, <3>1, <3>2, Apart, Zenon DEF DatabaseInv, DatabaseTypes, OwnerOf
    <3>4. secret = [owner |-> secret.owner, pw |-> secret.pw]
      BY <3>3 DEF Secrets
    <3>5. QED
      BY <3>2, <3>3, <3>4, Zenon
  <2>3. QED
    BY <2>1, <2>2, Zenon DEF DatabaseUsable, CredentialsMatch
<1>2. QED
  BY <1>1, Inductive, PTL

\* ChildrenKept for every set of sizes and any number of events: a Secret that
\* an ExternalSecret or a living database controls is never taken over
\* (SetControllerReference), and a claim never shrinks (the size is compared
\* with what the API server has).
THEOREM ChildrenStayKept == DatabaseSpec => ChildrenKept
<1> DEFINE Kept == \A o \in Owners \cup {Eso} :
                      (OwnerOf(secret) = o /\ (o = Eso \/ LiveOwner(o))) => OwnerOf(secret') = o
           Grows == (pvc # Null /\ pvc' # Null /\ pvc'.set = pvc.set) => pvc'.size >= pvc.size
<1>1. ASSUME DatabaseInv, [DatabaseNext]_databaseVars
      PROVE  Kept
  <2>1. DatabaseTypes /\ DatabaseTypes' /\ Step
    BY <1>1, NextStep, Zenon DEF DatabaseInv
  <2>2. SUFFICES ASSUME NEW o \in Owners \cup {Eso}, OwnerOf(secret) = o, o = Eso \/ LiveOwner(o)
                 PROVE  OwnerOf(secret') = o
    BY Zenon
  <2>3. o # Null
    BY DatabaseConstants, Zenon
  <2>4. secret # Null /\ secret.owner = o /\ ~Garbage(o) /\ o # Nobody
    BY <2>2, <2>3, Apart, Zenon DEF OwnerOf, Garbage
  <2>5. CASE UNCHANGED secret
    BY <2>2, <2>5, Zenon
  <2>6. ASSUME NEW k \in Kinds, Controllable(k, secret),
               secret' = [owner |-> Uid(k), pw |-> Password(secret)]
        PROVE  OwnerOf(secret') = o
    <3>1. Uid(k) = o
      BY <2>4, <2>6, Zenon DEF Controllable
    <3>2. secret \in Secrets /\ Password(secret) \in Passwords
      BY <2>1, <2>4, PasswordGiven, Zenon DEF DatabaseTypes
    <3>3. secret' \in Secrets /\ secret'.owner = o
      BY <2>4, <2>6, <3>1, <3>2, Zenon DEF Secrets
    <3>4. QED
      BY <3>3, Apart, Zenon DEF OwnerOf
  <2>7. QED
    BY <2>1, <2>2, <2>4, <2>5, <2>6, Zenon DEF Step, SecretStep, SetStep, ClaimStep
<1>2. ASSUME DatabaseInv, [DatabaseNext]_databaseVars
      PROVE  Grows
  <2>1. DatabaseTypes /\ Step
    BY <1>2, NextStep, Zenon DEF DatabaseInv
  <2>2. QED
    BY <2>1, ClaimSize, Zenon DEF Step, SecretStep, SetStep, ClaimStep
<1>3. DatabaseInv /\ [DatabaseNext]_databaseVars => [Kept]_databaseVars /\ [Grows]_databaseVars
  BY <1>1, <1>2, Zenon
<1> HIDE DEF Kept, Grows
<1>4. DatabaseSpec => [][Kept]_databaseVars /\ [][Grows]_databaseVars
  BY <1>3, Inductive, PTL DEF DatabaseSpec
<1>5. QED
  BY <1>4, Zenon DEF ChildrenKept, OthersSecretKept, StorageNeverShrinks, Kept, Grows

=============================================================================
