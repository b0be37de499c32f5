------------------------------- MODULE RuleTree -------------------------------
(***************************************************************************)
(* The composable rule algebra of shared/src/rules.rs: trees of checks and *)
(* their interpreters.  A tree is a record whose op names the variant of   *)
(* Rule; a predicate is the set of the checks that hold.                   *)
(***************************************************************************)
EXTENDS Naturals, Sequences, SequencesExt

check(a)   == [op |-> "check", check |-> a]
all(rules) == [op |-> "all", rules |-> rules]
any(rules) == [op |-> "any", rules |-> rules]
not(rule)  == [op |-> "not", rule |-> rule]

\* Rule::and and Rule::or: a node of the same kind is extended in place.
and(rule, other) ==
    IF rule.op = "all" THEN all(Append(rule.rules, other)) ELSE all(<<rule, other>>)
or(rule, other) ==
    IF rule.op = "any" THEN any(Append(rule.rules, other)) ELSE any(<<rule, other>>)

-----------------------------------------------------------------------------

\* Rule::evaluate
RECURSIVE evaluate(_, _)
evaluate(rule, holds) ==
    CASE rule.op = "check" -> rule.check \in holds
      [] rule.op = "all"   -> \A i \in DOMAIN rule.rules : evaluate(rule.rules[i], holds)
      [] rule.op = "any"   -> \E i \in DOMAIN rule.rules : evaluate(rule.rules[i], holds)
      [] rule.op = "not"   -> ~ evaluate(rule.rule, holds)

\* The passed flag of an AllOf or AnyOf node.
PassedOf(op, results) ==
    IF op = "all" THEN \A i \in DOMAIN results : results[i].passed
    ELSE \E i \in DOMAIN results : results[i].passed

\* Rule::evaluate_detailed, with RuleResult::passed as a field of every result.
RECURSIVE evaluate_detailed(_, _)
evaluate_detailed(rule, holds) ==
    CASE rule.op = "check" ->
            [kind |-> "leaf", check |-> rule.check, passed |-> rule.check \in holds]
      [] rule.op \in {"all", "any"} ->
            LET results == [i \in DOMAIN rule.rules |-> evaluate_detailed(rule.rules[i], holds)]
            IN  [kind |-> rule.op, results |-> results, passed |-> PassedOf(rule.op, results)]
      [] rule.op = "not" ->
            LET inner == evaluate_detailed(rule.rule, holds)
            IN  [kind |-> "negated", inner |-> inner, passed |-> ~ inner.passed]

\* RuleResult::collect_passes
RECURSIVE collect_passes(_)
collect_passes(result) ==
    CASE result.kind = "leaf" /\ result.passed -> <<result.check>>
      [] result.kind \in {"all", "any"} /\ result.passed ->
            FlattenSeq([i \in DOMAIN result.results |-> collect_passes(result.results[i])])
      [] OTHER -> <<>>

\* Seeded defect: a failed negation reports the failures below it.
NegationReportsFailures(inner) == {}

\* What a failed Not disagrees with.
NegationReports(inner) == ToSet(collect_passes(inner))

\* RuleResult::collect_failures, as a set
RECURSIVE collect_failures(_)
collect_failures(result) ==
    CASE result.passed -> {}
      [] ~ result.passed /\ result.kind = "leaf" -> {result.check}
      [] ~ result.passed /\ result.kind \in {"all", "any"} ->
            UNION {collect_failures(result.results[i]) : i \in DOMAIN result.results}
      [] ~ result.passed /\ result.kind = "negated" -> NegationReports(result.inner)

\* Rule::collect_checks
RECURSIVE collect_checks(_)
collect_checks(rule) ==
    CASE rule.op = "check" -> <<rule.check>>
      [] rule.op \in {"all", "any"} ->
            FlattenSeq([i \in DOMAIN rule.rules |-> collect_checks(rule.rules[i])])
      [] rule.op = "not" -> collect_checks(rule.rule)

=============================================================================
