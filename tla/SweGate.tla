------------------------------ MODULE SweGate ------------------------------
(***************************************************************************)
(* SWE-Gate: a patch is inspected against the architectural rule, the      *)
(* verdict combines the inspection with the functional tests, and the      *)
(* evaluation and its findings go to the append-only database.             *)
(*                                                                         *)
(* A patch is a record: whether its metadata, its test report and its diff *)
(* are valid, the commit it names, its test counters, and its files, a     *)
(* sequence of [python, added, removed], each added or removed line being  *)
(* [decisions, ignore, imports].                                           *)
(***************************************************************************)
EXTENDS Integers, Sequences, FiniteSets

CONSTANTS
    MaxDelta,       \* the rule: the most decision points a patch may add,
    ForbidIgnores,  \*   whether a type suppression is a violation,
    Disallowed,     \*   and the modules that may not be imported
    MaxViolations   \* the most findings one evaluation keeps

VARIABLES
    repos,          \* repository id -> name
    evals,          \* evaluation id -> [verdict, violations, passed]
    findings        \* the pairs of an evaluation id and an index

gateDb == <<repos, evals, findings>>

-----------------------------------------------------------------------------
(* The inspector.                                                          *)

SumOf(lines) ==
    LET sum[i \in 0..Len(lines)] == IF i = 0 THEN 0 ELSE sum[i - 1] + lines[i].decisions
    IN sum[Len(lines)]

PythonFiles(patch) == SelectSeq(patch.files, LAMBDA f : f.python)

CyclomaticDelta(patch) ==
    LET fs == PythonFiles(patch)
        sum[i \in 0..Len(fs)] == IF i = 0 THEN 0
                                 ELSE sum[i - 1] + SumOf(fs[i].added) - SumOf(fs[i].removed)
    IN sum[Len(fs)]

\* How many findings: one for a suppressed line, one for each disallowed module
\* on a line, and one for the complexity.
Violations(patch) ==
    LET fs == PythonFiles(patch)
        at == UNION {{<<i, k>> : k \in DOMAIN fs[i].added} : i \in DOMAIN fs}
        ignores == {p \in at : ForbidIgnores /\ fs[p[1]].added[p[2]].ignore}
        imports == UNION {{<<p, m>> : m \in fs[p[1]].added[p[2]].imports \cap Disallowed}
                             : p \in at}
        all == Cardinality(ignores) + Cardinality(imports)
               + (IF CyclomaticDelta(patch) > MaxDelta THEN 1 ELSE 0)
    IN IF all > MaxViolations THEN MaxViolations ELSE all

-----------------------------------------------------------------------------
(* The gate.  A patch that cannot be judged is given one finding and the   *)
(* state that no transition leads out of.                                  *)

TestsPassed(patch) ==
    patch.reportOk /\ patch.failed = 0 /\ patch.passed >= 1

DecideGateVerdict(passed, violations) ==
    IF passed /\ violations = 0 THEN "ALLOW_MERGE"
    ELSE "REJECT_ARCHITECTURAL_VIOLATION"

IsJudgeable(patch) == patch.metaOk /\ patch.reportOk /\ patch.diffOk

EvaluatePatch(patch) ==
    LET found == IF IsJudgeable(patch) THEN Violations(patch)
                 ELSE 1
        verdict == DecideGateVerdict(TestsPassed(patch), found)
    IN [passed |-> TestsPassed(patch),
        violations |-> found,
        verdict |-> verdict,
        state |-> IF ~IsJudgeable(patch) THEN "REJECTED_INVALID"
                  ELSE IF verdict = "ALLOW_MERGE" THEN "DECIDED_PASS"
                  ELSE "DECIDED_REJECT"]

\* transition(decided, WAL_COMMIT)
AfterCommit(state) ==
    CASE state = "DECIDED_PASS" -> "PASS_GATE"
      [] state = "DECIDED_REJECT" -> "REJECT_NON_FUNCTIONAL_REGRESSION"
      [] OTHER -> "REJECTED_INVALID"

-----------------------------------------------------------------------------
(* The store.  Each operator is one committed transaction.                 *)

\* The id is derived from the name when the caller gives none; an id that is
\* taken by another name is refused.
NameIsRefused(id, name) == id \in DOMAIN repos /\ repos[id] # name

RegisterRepository(id, name) ==
    /\ ~NameIsRefused(id, name)
    /\ repos' = [r \in DOMAIN repos \cup {id} |->
                    IF r \in DOMAIN repos THEN repos[r] ELSE name]
    /\ UNCHANGED <<evals, findings>>

\* The evaluations of a commit are numbered as they come.
EvaluationId(repo, commit) ==
    <<repo, commit, Cardinality({e \in DOMAIN evals : e[1] = repo /\ e[2] = commit})>>

RecordEvaluation(repo, commit, audit) ==
    LET id == EvaluationId(repo, commit) IN
    /\ evals' = [e \in DOMAIN evals \cup {id} |->
                    IF e = id
                    THEN [verdict |-> audit.verdict, passed |-> audit.passed,
                          violations |-> audit.violations]
                    ELSE evals[e]]
    /\ findings' = findings \cup {<<id, i>> : i \in 1..audit.violations}
    /\ UNCHANGED repos

SweGateInit ==
    /\ repos = [r \in {} |-> ""]
    /\ evals = [e \in {} |-> ""]
    /\ findings = {}

=============================================================================
