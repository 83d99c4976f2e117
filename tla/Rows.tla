-------------------------------- MODULE Rows --------------------------------
(***************************************************************************)
(* From a SARIF report and its meta to the finding rows of a run: the      *)
(* level of a result (swb_contract/sarif/parser.py), the severity enum     *)
(* (swb_contract/severity.py), the rows and counters of ingest.py.         *)
(*                                                                         *)
(* A score (properties["security-severity"]) is a number of tenths; Junk   *)
(* is a value float() refuses, NaN the float that compares with nothing.   *)
(***************************************************************************)
EXTENDS Integers, Sequences, FiniteSetsExt

CONSTANTS None, Junk, NaN

ASSUME RowsAssumption == None \notin Int /\ NaN \notin Int

\* SEV_ORDER, worst first.
SeverityRank == [critical |-> 0, high |-> 1, medium |-> 2, low |-> 3, note |-> 4]
Severities == DOMAIN SeverityRank

-----------------------------------------------------------------------------
(* Severity.                                                               *)

\* float(), tolerant of what is not a number.
ParsedScore(raw) == IF raw = Junk THEN None ELSE raw

AtLeast(score, bound) == score # NaN /\ score >= bound

SecSevToEnum(score) ==
    IF AtLeast(score, 90) THEN "critical"
    ELSE IF AtLeast(score, 70) THEN "high"
    ELSE IF AtLeast(score, 40) THEN "medium"
    ELSE IF AtLeast(score, 1) THEN "low"
    ELSE "note"

\* LEVEL_MAP, and "note" for what it does not know.
LevelSeverity(level) ==
    CASE level = "error" -> "high"
      [] level = "warning" -> "medium"
      [] level = "note" -> "low"
      [] OTHER -> "note"

\* A score decides when there is one, otherwise the level.
\* With a bug: a score of zero counts as none.
MapSeverityTruthy(score, level) ==
    IF score \in {None, 0} THEN LevelSeverity(level) ELSE SecSevToEnum(score)
MapSeverity(score, level) ==
    IF score = None THEN LevelSeverity(level) ELSE SecSevToEnum(score)

-----------------------------------------------------------------------------
(* Level of a result.  A rule is [id, score, level], the level the one the *)
(* driver configures or "warning"; an invocation is the sequence of its    *)
(* overrides [id, level]; a result [rule, level, invocation] names its     *)
(* rule, and maybe a level and an invocation, counted from 0.              *)

RulesNamed(rules, id) == {n \in DOMAIN rules : rules[n].id = id}
OverridesOf(invocation, id) == {n \in DOMAIN invocation : invocation[n].id = id}

HasInvocation(invocations, result) ==
    result.invocation # None /\ result.invocation + 1 \in DOMAIN invocations

\* Only a result without an invocation takes the level of the rule; an
\* invocation that says nothing of the rule leaves None.
RuleLevel(rules, invocations, result) ==
    IF RulesNamed(rules, result.rule) = {} THEN None
    ELSE IF ~HasInvocation(invocations, result)
    THEN rules[Min(RulesNamed(rules, result.rule))].level
    ELSE LET invocation == invocations[result.invocation + 1]
             overrides  == OverridesOf(invocation, result.rule)
         IN  IF overrides = {} THEN None ELSE invocation[Min(overrides)].level

OrWarning(level) == IF level = None THEN "warning" ELSE level

ResultLevel(report, result) ==
    OrWarning(IF result.level # None THEN result.level
              ELSE RuleLevel(report.rules, report.invocations, result))

-----------------------------------------------------------------------------
(* Rows.  meta[n] = [identity, rule] is what the meta says of result n:    *)
(* the identity of its swb_id and the rule in its locator.                 *)

\* security_severity in rules_map: of several rules with one id the last.
RuleScore(rules, id) ==
    IF RulesNamed(rules, id) = {} THEN None
    ELSE ParsedScore(rules[Max(RulesNamed(rules, id))].score)

SeverityOf(report, meta, n) ==
    MapSeverity(RuleScore(report.rules, meta[n].rule),
                ResultLevel(report, report.results[n]))

\* One row per result, under the fresh row ids given.
RowsOf(report, meta, ids) ==
    {[id |-> ids[n], identity |-> meta[n].identity, result |-> n,
      severity |-> SeverityOf(report, meta, n)] : n \in DOMAIN report.results}

\* The counters returned beside the rows; "all" is their sum.
CountsOf(report, meta) ==
    [s \in Severities |-> Cardinality({n \in DOMAIN report.results : SeverityOf(report, meta, n) = s})]
=============================================================================
