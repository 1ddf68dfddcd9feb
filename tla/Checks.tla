------------------------------- MODULE Checks -------------------------------
(***************************************************************************)
(* The engine that walks a registry of checks (internal/checks), shared by *)
(* the install preflight, the setup wizard and the doctor.  It is a pure   *)
(* algorithm, so it is written as operators, with definitions of what they *)
(* should compute that know nothing of the order of the walk.  Module      *)
(* Doctor runs it.                                                         *)
(*                                                                         *)
(* A registry is the sequence of its checks in registration order, and a   *)
(* check's ID is its place in it.  Requires may name a place past the end: *)
(* a check that nobody registered.                                         *)
(***************************************************************************)
EXTENDS Integers, Sequences, FiniteSetsExt

CONSTANT MaxChecks     \* bound on the checks of a registry

Severities == {"critical", "warning", "info"}

\* What a probe answers; "error" stands for an error, a panic, an unknown status
\* or a cancelled context.
Statuses == {"pass", "fail", "skip", "error"}

Outcomes == Statuses \cup {"blocked"}

\* The graphs Register accepts: IDs are distinct and requirements are sets.
Graphs == UNION {[1..n -> SUBSET (1..MaxChecks)] : n \in 0..MaxChecks}

-----------------------------------------------------------------------------
(* Plan.                                                                   *)

Missing(reg) == \E i \in DOMAIN reg : ~(reg[i].requires \subseteq DOMAIN reg)

\* Mutant of Ready: the check registered last goes first.
Ready_Last(reg, order) ==
    LET ready == {i \in DOMAIN reg \ Range(order) : reg[i].requires \subseteq Range(order)}
    IN  IF ready = {} THEN <<>> ELSE <<Max(ready)>>

\* One round of Kahn's algorithm: of the checks whose requirements have all been
\* emitted, the one registered first.
Ready(reg, order) ==
    LET ready == {i \in DOMAIN reg \ Range(order) : reg[i].requires \subseteq Range(order)}
    IN  IF ready = {} THEN <<>> ELSE <<Min(ready)>>

Plan(reg) ==
    LET order[n \in 0..Len(reg)] ==
            IF n = 0 THEN <<>> ELSE order[n - 1] \o Ready(reg, order[n - 1])
    IN  order[Len(reg)]

\* ErrMissingRequirement and ErrCycle: nothing is probed.
Runnable(reg) == ~Missing(reg) /\ Len(Plan(reg)) = Len(reg)

-----------------------------------------------------------------------------
(* Run: the verdict on one check of the plan, and on all of them.          *)

\* Mutant of Judge: a requirement that could not be probed blocks nothing.
Judge_UnknownPasses(c, outcome) ==
    LET before == {outcome[r] : r \in c.requires}
    IN  CASE before \cap {"fail", "blocked"} # {} -> "blocked"
          [] before \cap {"fail", "blocked"} = {} /\ "skip" \in before -> "skip"
          [] OTHER -> "probe"

\* A check is probed when all its requirements passed; a requirement that did
\* not pass blocks it, one that does not apply makes it inapplicable.
Judge(c, outcome) ==
    LET before == {outcome[r] : r \in c.requires}
    IN  CASE before \cap {"fail", "error", "blocked"} # {} -> "blocked"
          [] before \subseteq {"pass", "skip"} /\ "skip" \in before -> "skip"
          [] OTHER -> "probe"

\* Mutant of ExitCode: the first critical check that did not pass decides.
ExitCode_First(reg, outcome) ==
    LET bad == {i \in DOMAIN reg : reg[i].severity = "critical" /\ outcome[i] \notin {"pass", "skip"}}
    IN  CASE bad = {} -> 0
          [] bad # {} /\ outcome[Min(bad)] = "fail" -> 1
          [] OTHER -> 2

ExitCode(reg, outcome) ==
    LET critical == {outcome[i] : i \in {j \in DOMAIN reg : reg[j].severity = "critical"}}
    IN  CASE "fail" \in critical -> 1
          [] "fail" \notin critical /\ critical \cap {"error", "blocked"} # {} -> 2
          [] OTHER -> 0

-----------------------------------------------------------------------------
(* Score.                                                                  *)

Weight(severity) ==
    CASE severity = "critical" -> 10 [] severity = "warning" -> 3 [] severity = "info" -> 1

ScorePercent(earned, possible) ==
    CASE possible = 0 \/ earned = possible -> 100
      [] possible # 0 /\ earned = 0 -> 0
      [] OTHER -> LET p == (earned * 100 + possible \div 2) \div possible
                  IN  Max({1, Min({99, p})})

Earned(reg, scored) == MapThenSumSet(LAMBDA i : Weight(reg[i].severity), scored)

\* Mutant of Score: what could not be determined is left out.
Score_KnownOnly(reg, outcome) ==
    LET scored == {i \in DOMAIN reg : outcome[i] \in {"pass", "fail"}}
        passed == {i \in scored : outcome[i] = "pass"}
    IN  ScorePercent(Earned(reg, passed), Earned(reg, scored))

\* Unknown counts against the install; only what does not apply is left out.
Score(reg, outcome) ==
    LET scored == {i \in DOMAIN reg : outcome[i] # "skip"}
        passed == {i \in scored : outcome[i] = "pass"}
    IN  ScorePercent(Earned(reg, passed), Earned(reg, scored))

\* GateExitCode of the doctor folds --min-score in; 0 turns it off.
GateExitCode(reg, outcome, minScore) ==
    IF minScore > 0 /\ Score(reg, outcome) < minScore THEN 1 ELSE ExitCode(reg, outcome)

-----------------------------------------------------------------------------
(* Reference definitions.                                                  *)

\* A cycle, or something downstream of one, without following edges: checks each
\* of which waits for another of them.
Stuck(reg) ==
    \E S \in SUBSET DOMAIN reg \ {{}} : \A i \in S : reg[i].requires \cap S # {}

\* Everything check i needs, directly or through others: the least closed set.
Needs(reg, i) ==
    {j \in DOMAIN reg :
        \A S \in SUBSET DOMAIN reg :
            reg[i].requires \subseteq S /\ (\A k \in S : reg[k].requires \subseteq S) => j \in S}

\* p is an order in which every check follows its requirements.
Valid(reg, p) == \A n \in DOMAIN p : reg[p[n]].requires \subseteq {p[m] : m \in 1..n-1}

\* p comes before q when, at the first difference, p has the earlier check.
Before(p, q) == \E n \in DOMAIN p : p[n] < q[n] /\ \A m \in 1..n-1 : p[m] = q[m]

Orders(n) == {p \in [1..n -> 1..n] : IsInjective(p)}

-----------------------------------------------------------------------------
(* What the engine should compute, for one registry and one run of it.     *)

LeastOrder(reg, order) ==
    /\ order \in Orders(Len(reg)) /\ Valid(reg, order)
    /\ \A p \in Orders(Len(reg)) \ {order} : Valid(reg, p) => Before(order, p)

\* The outcome of check i, which answered status if it was asked, follows from
\* the outcomes of everything it needs.
Follows(reg, out, i, status) ==
    LET needed == {out[j] : j \in Needs(reg, i)} IN
    out[i] = CASE needed \cap {"fail", "error"} # {} -> "blocked"
               [] needed \cap {"fail", "error"} = {} /\ "skip" \in needed -> "skip"
               [] OTHER -> status

\* Check i, or something it needs, failed or stayed unknown.
Unsound(reg, out, i) == \E j \in Needs(reg, i) \cup {i} : out[j] \in {"fail", "error"}
=============================================================================
