---------------------------- MODULE CartCheckout ----------------------------
(***************************************************************************)
(* Checkout of the cart (cart/src/cart/{service,rules,domain}.rs): a rule  *)
(* tree evaluated over the cart that HGETALL reads.                        *)
(***************************************************************************)
EXTENDS Cart, RuleTree, Functions

CONSTANTS
    PriceOf,            \* PriceOf[s]: unit price in the request for s
    MinCartValue, MaxCartValue

ASSUME CheckoutAssumption ==
    /\ PriceOf \in [Skus -> Nat]
    /\ {MinCartValue, MaxCartValue} \subseteq Nat

Checks == {"CartNotEmpty", "MaxCartItems", "MinCartValue", "MaxCartValue",
           "AllItemsHaveValidPrices", "AllQuantitiesWithinLimits"}

\* Seeded defect: the tree misses the limit on the value.
RulesWithoutMaxValue ==
    all(<<check("CartNotEmpty"), check("MaxCartItems"), check("MinCartValue"),
          check("AllItemsHaveValidPrices"), check("AllQuantitiesWithinLimits")>>)

checkout_readiness_rules ==
    all(<<check("CartNotEmpty"), check("MaxCartItems"), check("MinCartValue"), check("MaxCartValue"),
          check("AllItemsHaveValidPrices"), check("AllQuantitiesWithinLimits")>>)

\* Cart::total
total(cart) == SumFunction([s \in Skus |-> cart[s] * PriceOf[s]])

\* CheckoutContext::from_cart and eval_checkout: the checks that hold.
eval_checkout(cart) ==
    {c \in Checks :
        CASE c = "CartNotEmpty" -> Fields(cart) # {}
          [] c = "MaxCartItems" -> Cardinality(Fields(cart)) <= MaxCartItems
          [] c = "MinCartValue" -> total(cart) >= MinCartValue
          [] c = "MaxCartValue" -> total(cart) <= MaxCartValue
          [] c = "AllItemsHaveValidPrices" -> \A s \in Fields(cart) : PriceOf[s] > 0
          [] c = "AllQuantitiesWithinLimits" -> \A s \in Fields(cart) : cart[s] \in 1..MaxQuantity}

\* validate_cart: HGETALL, then the rules; it changes nothing.
validate_cart(cart) == evaluate_detailed(checkout_readiness_rules, eval_checkout(cart)).passed

-----------------------------------------------------------------------------
(* Properties *)

\* Trees over the checkout checks with up to two levels of connectives, built
\* with the fluent constructors too.
\* They are tried on every cart that is reached, between requests.
AtRest  == \A r \in Requests : pc[r] = "idle"
Leaves  == {check(c) : c \in {"CartNotEmpty", "MinCartValue", "MaxCartItems"}}
Level1  == Leaves \cup {not(l) : l \in Leaves} \cup {all(<<>>), any(<<>>)}
Trees   == Level1 \cup {and(a, b) : a, b \in Level1} \cup {or(a, b) : a, b \in Level1}
                 \cup {not(or(a, b)) : a, b \in Level1} \cup {not(and(a, b)) : a, b \in Level1}

\* An empty node, or a negation that is not of checks alone.
NothingToReport(rule) ==
    \/ rule.op \in {"all", "any"} /\ rule.rules = <<>>
    \/ rule.op \in {"all", "any"} /\ \E i \in DOMAIN rule.rules :
            rule.rules[i].op \in {"all", "any"} /\ rule.rules[i].rules = <<>>
    \/ rule.op = "not" /\ rule.rule.op \in {"all", "any"}
            /\ \E i \in DOMAIN rule.rule.rules : rule.rule.rules[i].op # "check"

\* The two interpreters agree on every tree, whatever the cart (evaluate and the
\* passed flag of evaluate_detailed), and a rule that fails says why
\* (collect_failures, the text of CheckoutNotReady): it names only checks of the
\* rule; under a negation it names checks that hold.  Empty nodes and negations
\* of negations have nothing to report.
FailuresExplained ==
    LET holds == eval_checkout(items)
    IN  AtRest => \A rule \in Trees :
            LET result   == evaluate_detailed(rule, holds)
                failures == collect_failures(result)
            IN  /\ result.passed = evaluate(rule, holds)
                /\ failures \subseteq ToSet(collect_checks(rule))
                /\ ~ NothingToReport(rule) => (failures = {} <=> evaluate(rule, holds))

=============================================================================
