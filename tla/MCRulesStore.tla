---------------------------- MODULE MCRulesStore ----------------------------
(* Instances of RulesStore for TLC: two fields, one setter that patches one  *)
(* of them and one that patches both, as /setrisk and /setcooldown do.       *)
EXTENDS RulesStore, TLC

CONSTANTS risk, trades, v1, v2, bad

SmallFields == {risk, trades}
SmallSetters == {{risk}, {risk, trades}}
TwoValues == {v1, v2}
OneBadValue == {bad}

\* One baseline, which is edited into another or one that does not validate;
\* or any, edited into any.
OneBaseline == {[f \in SmallFields |-> v1]}
AnyBaseline == [SmallFields -> TwoValues]
SomeEdits == {[f \in SmallFields |-> v2], [f \in SmallFields |-> IF f = risk THEN bad ELSE v1]}

\* Valid values are interchangeable.
ValueSymmetry == Permutations(TwoValues)

=============================================================================
