------------------------------- MODULE Doctor -------------------------------
(***************************************************************************)
(* `orkano doctor`: the walk through a registry of checks, with --fix, and *)
(* the one check that is an experiment of its own, the NetworkPolicy probe *)
(* of internal/doctor/netpol.go, which starts canary pods in the cluster.  *)
(*                                                                         *)
(* Every walk is a process.  In the first scene one walk meets an          *)
(* arbitrary registry of plain checks, whose probes may answer anything;   *)
(* in the second, two doctors run the NetworkPolicy probe in the same      *)
(* cluster at the same time.  The deadlines of the probe are choices: a    *)
(* wait may end by its deadline, and after a batch that did not pass the   *)
(* settle window may be over.  A canary tries its connection at some time  *)
(* between its creation and the read that finds it finished, so it carries *)
(* the networks there have been since, and the read takes one of them.     *)
(***************************************************************************)
EXTENDS Checks

CONSTANTS
    Walks,            \* the processes of the second scene
    Fixable,          \* the places of the checks that have a Fix
    MaxBatches,       \* netpolTiming
    MinLeakBatches,
    MaxOutages        \* bound on what fails from outside: network changes, canaries that
                      \* never ran, failed deletes and killed doctors

ASSUME DoctorConstants ==
    /\ MinLeakBatches \in Nat \ {0} /\ MaxBatches \in Nat \ {0} /\ MaxOutages \in Nat

VARIABLES
    walk,             \* process -> its walk
    probe,            \* process -> its NetworkPolicy probe
    pods,             \* the canary pods in orkano-builds
    net,              \* the state of the policies, and whether the registry answers
    strays,           \* names of the pods nobody will delete (history)
    outages

doctorVars == <<walk, probe, pods, net, strays, outages>>

Roles == <<"control", "deny-registry", "deny-egress">>

Legs == {"connected", "blocked", "indeterminate"}

\* Names carry the second of the batch: that of this doctor, or one two share.
Stamps == Walks \cup {"same"}

PodNames == [stamp : Stamps, batch : 1..MaxBatches, role : Range(Roles)]

\* The policies do not exist, exist, or are enforced by the CNI as well.
Networks == [policies : {"none", "applied", "enforced"}, registry : BOOLEAN]

Pods == [name : PodNames, nets : SUBSET Networks]

Enforces(n) == n.policies = "enforced"

-----------------------------------------------------------------------------

Scene(graph, severities, kind, fix) ==
    [reg |-> [i \in DOMAIN graph |-> [requires |-> graph[i], severity |-> severities[i]]],
     kind |-> kind, fix |-> fix, pc |-> "plan", order |-> <<>>, at |-> 1,
     out |-> <<>>, said |-> <<>>, attempts |-> {}]

\* held and gaps are history: enforced at some time in this batch, and the batches
\* in which it was not enforced at some time.
NoProbe(stamp) ==
    [pc |-> "none", absent |-> FALSE, stamp |-> stamp, batch |-> 0, role |-> 1,
     legs |-> <<>>, leaks |-> 0, failed |-> FALSE, held |-> FALSE, gaps |-> {}]

PlainScenes ==
    {Scene(g, s, "plain", f) : g \in Graphs, f \in BOOLEAN,
     s \in {<<"critical", "critical", "info">>, <<"critical", "warning", "info">>}}

DoctorInit ==
    /\ \/ walk \in [{"w"} -> PlainScenes]
       \/ walk = [p \in Walks |-> Scene(<<{}>>, <<"critical">>, "netpol", FALSE)]
    /\ \/ probe = [p \in DOMAIN walk |-> NoProbe("same")]
       \/ DOMAIN walk = Walks /\ probe = [p \in Walks |-> NoProbe(p)]
    /\ net \in {n \in Networks : n.registry}
    /\ DOMAIN walk = Walks \/ Enforces(net)
    /\ pods = {} /\ strays = {} /\ outages = 0

-----------------------------------------------------------------------------
(* The walk: Run, and RunAndFix with --fix.                                *)

\* An invalid graph is an error, and nothing is probed.
MakePlan(p) ==
    /\ walk[p].pc = "plan"
    /\ walk' = [walk EXCEPT ![p].pc = IF Runnable(walk[p].reg) THEN "walk" ELSE "refused",
                            ![p].order = IF Runnable(walk[p].reg) THEN Plan(walk[p].reg) ELSE <<>>]
    /\ UNCHANGED <<probe, pods, net, strays, outages>>

\* The check the loop over the plan is at.
Upcoming(w) == w.order[w.at]

\* What is to be done with the next check: "blocked", "skip" or "probe".
Ask(w) == Judge(w.reg[Upcoming(w)], w.out)

Asking(p) == walk[p].pc = "walk" /\ walk[p].at <= Len(walk[p].order)

\* The results map with one more entry.
Put(f, x, y) == [z \in DOMAIN f \cup {x} |-> IF z = x THEN y ELSE f[z]]

Recorded(w, outcome, status) ==
    [w EXCEPT !.at = @ + 1, !.out = Put(@, Upcoming(w), outcome), !.said = Put(@, Upcoming(w), status)]

NotProbed(p) ==
    /\ Asking(p) /\ Ask(walk[p]) # "probe"
    /\ walk' = [walk EXCEPT ![p] = Recorded(@, Ask(walk[p]), "none")]
    /\ UNCHANGED <<probe, pods, net, strays, outages>>

PlainProbe(p) ==
    /\ Asking(p) /\ walk[p].kind = "plain" /\ Ask(walk[p]) = "probe"
    /\ \E status \in Statuses : walk' = [walk EXCEPT ![p] = Recorded(@, status, status)]
    /\ UNCHANGED <<probe, pods, net, strays, outages>>

\* Mutant of ToFix: whatever did not pass is fixed.
ToFix_Unknown(w) == {i \in Fixable \cap DOMAIN w.out : w.out[i] \in {"fail", "error", "blocked"}}

ToFix(w) == {i \in Fixable \cap DOMAIN w.out : w.out[i] = "fail"}

\* The first run is the result unless something was fixed; then all is run again.
FinishRun(p) ==
    /\ walk[p].pc = "walk" /\ walk[p].at > Len(walk[p].order)
    /\ walk' = IF walk[p].fix /\ walk[p].attempts = {} /\ ToFix(walk[p]) # {}
               THEN [walk EXCEPT ![p].attempts = ToFix(walk[p]), ![p].at = 1, ![p].out = <<>>,
                                 ![p].said = <<>>]
               ELSE [walk EXCEPT ![p].pc = "done"]
    /\ UNCHANGED <<probe, pods, net, strays, outages>>

-----------------------------------------------------------------------------
(* The NetworkPolicy probe.                                                *)

Name(q, r) == [stamp |-> q.stamp, batch |-> q.batch, role |-> Roles[r]]

At(p, pc) == probe[p].pc = pc

Begun(q) ==
    [q EXCEPT !.pc = "create", !.batch = @ + 1, !.role = 1, !.legs = <<>>, !.failed = FALSE,
              !.held = Enforces(net), !.gaps = IF Enforces(net) THEN @ ELSE @ \cup {q.batch + 1}]

\* The VIPs; whether it is known that no policy exists, which a failed list leaves
\* open; and the sweep by label, which takes every doctor's canaries.  A failed read
\* of a VIP or a failed sweep ends the probe.
StartProbe(p) ==
    /\ Asking(p) /\ walk[p].kind = "netpol" /\ At(p, "none")
    /\ \/ /\ walk' = [walk EXCEPT ![p] = Recorded(@, "error", "error")]
          /\ UNCHANGED <<probe, pods, strays>>
       \/ /\ \E absent \in {FALSE, net.policies = "none"} :
                 probe' = [probe EXCEPT ![p] = Begun([@ EXCEPT !.absent = absent])]
          /\ pods' = {} /\ strays' = {}
          /\ UNCHANGED walk
    /\ UNCHANGED <<net, outages>>

\* Mutant of Later: the last canary of the batch is forgotten.
Later_Short(q, pc) ==
    IF q.role + 1 < Len(Roles) THEN [q EXCEPT !.role = @ + 1] ELSE [q EXCEPT !.pc = pc, !.role = 1]

\* The next canary of the batch, or the next phase after the last one.
Later(q, pc) ==
    IF q.role < Len(Roles) THEN [q EXCEPT !.role = @ + 1] ELSE [q EXCEPT !.pc = pc, !.role = 1]

\* Mutant of Failed: the pods of a batch that failed are left behind.
Failed_Leaves(q) == [q EXCEPT !.pc = "clean", !.batch = MaxBatches, !.failed = TRUE, !.legs = <<>>]

\* An error of the batch: its three names are deleted all the same.
Failed(q) == [q EXCEPT !.pc = "clean", !.failed = TRUE, !.role = 1, !.legs = <<>>]

CreateCanary(p) ==
    LET name == Name(probe[p], probe[p].role) IN
    /\ At(p, "create")
    /\ IF \E q \in pods : q.name = name
       THEN /\ probe' = [probe EXCEPT ![p] = Failed(@)]
            /\ UNCHANGED pods
       ELSE /\ probe' = [probe EXCEPT ![p] = Later(@, "wait")]
            /\ pods' = pods \cup {[name |-> name, nets |-> {net}]}
    /\ UNCHANGED <<walk, net, strays, outages>>

\* What the connection of a canary does in network n.
Connects(role, n) ==
    CASE role = "control"       -> n.registry
      [] role = "deny-registry" -> n.registry /\ ~Enforces(n)
      [] role = "deny-egress"   -> ~Enforces(n)

\* classifyCanary: by the exit code, and only the two the script emits on purpose.
Classify(ran, connected) ==
    CASE ~ran -> "indeterminate" [] ran /\ connected -> "connected" [] OTHER -> "blocked"

\* The batch has one more answer.
Told(q, leg) == [q EXCEPT !.legs = Append(@, leg)]

\* waitCanaryOutcome finds the pod terminated: its script ran, or it never did.
WaitCanary(p) ==
    /\ At(p, "wait")
    /\ \E q \in pods : \E n \in q.nets, ran \in BOOLEAN :
        /\ q.name = Name(probe[p], probe[p].role)
        /\ ran \/ outages < MaxOutages
        /\ outages' = IF ran THEN outages ELSE outages + 1
        /\ probe' = [probe EXCEPT ![p] =
               Later(Told(@, Classify(ran, Connects(q.name.role, n))), "clean")]
    /\ UNCHANGED <<walk, pods, net, strays>>

\* Mutant of Bounded: a canary that is gone is waited for without end.
Bounded_Create == {"create"}

\* The steps that the total budget, or a failed call, ends with an error.
Bounded == {"create", "wait"}

GiveUp(p) ==
    /\ probe[p].pc \in Bounded
    /\ probe' = [probe EXCEPT ![p] = Failed(@)]
    /\ UNCHANGED <<walk, pods, net, strays, outages>>

Mine(p) == {q \in pods : \E r \in 1..3 : q.name = Name(probe[p], r)}

\* cleanup: deleteCanary on each of the three names, best effort.
Cleanup(p) ==
    \E left \in {{}} \cup {{q} : q \in Mine(p)} :
        /\ left # {} => outages < MaxOutages
        /\ outages' = outages + (IF left = {} THEN 0 ELSE 1)
        /\ strays' = (strays \ {q.name : q \in Mine(p)}) \cup {q.name : q \in left}
        /\ pods' = (pods \ Mine(p)) \cup left

Leaked(legs) == \E r \in 2..3 : legs[r] = "connected"

\* Mutant of Enforced: the registry leg alone decides.
Enforced_Registry(legs) == legs[1] = "connected" /\ legs[2] = "blocked"

\* The control connected and both deny legs were blocked.
Enforced(legs) == legs = <<"connected", "blocked", "blocked">>

Over(q) == [q EXCEPT !.pc = "none", !.role = 1, !.legs = <<>>, !.leaks = 0, !.failed = FALSE]

Conclude(p, status) ==
    /\ walk' = [walk EXCEPT ![p] = Recorded(@, status, status)]
    /\ probe' = [probe EXCEPT ![p] = Over(@)]

\* Mutant of Confirmed: the last batch alone decides.
Confirmed_Last(leaks, legs) == Leaked(legs)

\* A leak is definitive when independent batches have reproduced it.
Confirmed(leaks, legs) == leaks >= MinLeakBatches /\ Leaked(legs)

\* After each batch: an answer, or a fresh batch while there is room to retry.
Verdict(p) ==
    LET q      == probe[p]
        leaked == ~q.failed /\ Leaked(q.legs)
        leaks  == q.leaks + (IF leaked THEN 1 ELSE 0)
    IN  CASE q.failed \/ q.legs[1] # "connected" -> Conclude(p, "error")
          [] ~q.failed /\ Enforced(q.legs) -> Conclude(p, "pass")
          [] leaked /\ q.legs[1] = "connected" /\ q.absent -> Conclude(p, "fail")
          [] OTHER -> \/ Conclude(p, IF Confirmed(leaks, q.legs) THEN "fail" ELSE "error")
                      \/ /\ q.batch < MaxBatches
                         /\ probe' = [probe EXCEPT ![p] = Begun([@ EXCEPT !.leaks = leaks])]
                         /\ UNCHANGED walk

FinishBatch(p) == At(p, "clean") /\ Cleanup(p) /\ Verdict(p) /\ UNCHANGED net

-----------------------------------------------------------------------------
(* The cluster.                                                            *)

\* A probe that is under way while the network is n.
Marked(q, n) == [q EXCEPT !.held = @ \/ Enforces(n),
                          !.gaps = IF Enforces(n) THEN @ ELSE @ \cup {q.batch}]

\* Policies come and go, the controller syncs or loses its rules, the registry dies.
NetChanges ==
    /\ DOMAIN walk = Walks /\ outages < MaxOutages
    /\ outages' = outages + 1
    /\ net' \in {n \in Networks : n.registry => net.registry} \ {net}
    /\ probe' = [p \in DOMAIN probe |->
                    IF probe[p].pc \in {"create", "wait", "clean"}
                    THEN Marked(probe[p], net') ELSE probe[p]]
    /\ pods' = {[q EXCEPT !.nets = @ \cup {net'}] : q \in pods}
    /\ UNCHANGED <<walk, strays>>

\* A doctor is interrupted and leaves its canaries behind.
Killed(p) ==
    /\ probe[p].pc # "none" /\ outages < MaxOutages
    /\ outages' = outages + 1
    /\ walk' = [walk EXCEPT ![p].pc = "killed"]
    /\ probe' = [probe EXCEPT ![p] = Over(@)]
    /\ strays' = strays \cup {q.name : q \in Mine(p)}
    /\ UNCHANGED <<pods, net>>

WalkStep(p) ==
    \/ MakePlan(p) \/ NotProbed(p) \/ PlainProbe(p) \/ FinishRun(p)
    \/ StartProbe(p) \/ CreateCanary(p) \/ WaitCanary(p) \/ GiveUp(p) \/ FinishBatch(p)

DoctorNext ==
    \/ \E p \in DOMAIN walk : WalkStep(p) \/ Killed(p)
    \/ NetChanges

\* While some doctor can go on, one does: every call and every wait is bounded.
DoctorFairness == WF_doctorVars(\E p \in DOMAIN walk : WalkStep(p))

DoctorSpec == DoctorInit /\ [][DoctorNext]_doctorVars /\ DoctorFairness

-----------------------------------------------------------------------------

\* The walk is judged in the scene where registry and answers are arbitrary.
PlainWalks == {p \in DOMAIN walk : walk[p].kind = "plain"}

Ended(w) == w.pc \in {"refused", "done", "killed"}

\* The shape of the state; a pod's name is unique, and while a batch is being
\* judged there is a leg for every pod that was waited for.
DoctorTypeOK ==
    /\ \A p \in DOMAIN walk :
        /\ walk[p].pc \in {"plan", "walk", "refused", "done", "killed"}
        /\ DOMAIN walk[p].out = {walk[p].order[n] : n \in 1..(walk[p].at - 1)}
        /\ \A i \in DOMAIN walk[p].out : walk[p].out[i] \in Outcomes
        /\ probe[p].pc \in {"none", "create", "wait", "clean"}
        /\ At(p, "clean") /\ ~probe[p].failed => Len(probe[p].legs) = Len(Roles)
    /\ pods \subseteq Pods
    /\ \A a, b \in pods : a.name = b.name => a = b
    /\ outages \in 0..MaxOutages

\* Plan and Run of internal/checks: a registry is refused exactly when a
\* requirement is not registered or checks wait for each other, and otherwise the
\* order is the first, by registration, of all that respect the requirements.
PlanIsLeast ==
    \A p \in PlainWalks :
        LET w == walk[p] IN
        /\ w.pc = "refused" => Missing(w.reg) \/ Stuck(w.reg)
        /\ w.pc \in {"walk", "done"} =>
               ~Missing(w.reg) /\ ~Stuck(w.reg) /\ LeastOrder(w.reg, w.order)

\* "unknown never counts as hardened": the outcome of every check follows from
\* what everything it needs, however far away, answered.
UnknownSpreads ==
    \A p \in PlainWalks : \A i \in DOMAIN walk[p].out :
        Follows(walk[p].reg, walk[p].out, i, walk[p].said[i])

\* ExitCode and GateExitCode: exit 0 says that no critical check, and nothing one
\* needs, failed or stayed unknown, and exit 1 without --min-score that a critical
\* check failed; with --min-score 100, exit 0 says so of every check.
GateIsHonest ==
    \A p \in PlainWalks :
        LET w == walk[p] IN
        w.pc = "done" =>
            /\ GateExitCode(w.reg, w.out, 0) = 0 =>
                   \A i \in DOMAIN w.reg : w.reg[i].severity = "critical" => ~Unsound(w.reg, w.out, i)
            /\ GateExitCode(w.reg, w.out, 0) = 1 <=>
                   \E i \in DOMAIN w.reg : w.reg[i].severity = "critical" /\ w.out[i] = "fail"
            /\ GateExitCode(w.reg, w.out, 100) = 0 =>
                   \A i \in DOMAIN w.reg : ~Unsound(w.reg, w.out, i)

\* Score: 100 only when every applicable check passed, 0 only when none did, and a
\* check that comes to pass never lowers it.
ScoreIsHonest ==
    \A p \in PlainWalks :
        LET w      == walk[p]
            scored == {i \in DOMAIN w.reg : w.out[i] # "skip"}
        IN  w.pc = "done" =>
                /\ Score(w.reg, w.out) = 100 <=> \A i \in scored : w.out[i] = "pass"
                /\ Score(w.reg, w.out) = 0 <=> scored # {} /\ \A i \in scored : w.out[i] # "pass"
                /\ \A i \in scored : Score(w.reg, [w.out EXCEPT ![i] = "pass"]) >= Score(w.reg, w.out)

\* RunAndFix: a check is fixed after it failed while everything it needs passed,
\* never on an unknown.
FixIsEarned ==
    [][\A p \in PlainWalks : \A i \in walk'[p].attempts \ walk[p].attempts :
           \A j \in Needs(walk[p].reg, i) \cup {i} :
               walk[p].out[j] = IF j = i THEN "fail" ELSE "pass"]_doctorVars

\* "Retrying only ever delays a negative": when doctor exits 0 on the NetworkPolicy
\* check, the policies were enforced at some time during the batch it judged by.
PassIsEarned ==
    \A p \in DOMAIN walk :
        walk[p].kind = "netpol" /\ walk[p].pc = "done" /\ ExitCode(walk[p].reg, walk[p].out) = 0
            => probe[p].held

\* A definite Fail needs a gap in the enforcement in MinLeakBatches batches, or in
\* one when no policy existed: a cluster that enforces is never failed, not even
\* by two doctors that sweep each other's canaries.
FailIsEarned ==
    \A p \in DOMAIN walk :
        walk[p].kind = "netpol" /\ walk[p].pc = "done" /\ ExitCode(walk[p].reg, walk[p].out) = 1
            => \/ ExistsInjection(1..MinLeakBatches, probe[p].gaps)
               \/ probe[p].absent /\ probe[p].gaps # {}

\* runCanaryBatch "deletes each batch afterwards": a canary belongs to a batch that
\* is still going on, or was left by a doctor that was killed or
\* whose delete failed.
NoStrays ==
    \A q \in pods :
        \/ q.name \in strays
        \/ \E p \in DOMAIN walk, r \in 1..3 :
              q.name = Name(probe[p], r) /\ probe[p].pc \in {"create", "wait", "clean"}

\* Every doctor comes to an end, also when its canaries were taken away.
DoctorEnds == <>(\A p \in DOMAIN walk : Ended(walk[p]))

\* The check engine agrees with its reference definitions on every small registry:
\* the order of the checks, the outcomes that spread, the score, the exit code and
\* what --fix attempts.
EngineIsHonest == [](PlanIsLeast /\ UnknownSpreads /\ GateIsHonest /\ ScoreIsHonest) /\ FixIsEarned

\* Types, and the verdict on the NetworkPolicies: neither a Pass nor a Fail without
\* the evidence for it, whatever another doctor sweeps away.
VerdictsEarned == DoctorTypeOK /\ PassIsEarned /\ FailIsEarned

\* Every doctor ends, and leaves no canary unless it was killed or its delete failed.
DoctorsTidy == []NoStrays /\ DoctorEnds
=============================================================================
