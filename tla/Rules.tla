--------------------------------- MODULE Rules ---------------------------------
(* The rule library: every rule as it is written, the side conditions on what *)
(* the analysis knows of the terms a rule's variables are bound to, and what  *)
(* applying a rule to an expression gives.  The safe tier is meant to keep    *)
(* every double; the fast tier and the derivatives are meant of real numbers. *)
EXTENDS Assumptions

\* The words of a text written with blanks between them.
Words(text) ==
  LET blanks == {0, Len(text) + 1} \cup {i \in 1..Len(text) : SubSeq(text, i, i) = " "}
      cuts   == Increasing(blanks)
  IN  [k \in 1..Len(cuts) - 1 |-> SubSeq(text, cuts[k] + 1, cuts[k + 1] - 1)]

When(name, lhs, rhs, guard) == [name |-> name, lhs |-> lhs, rhs |-> rhs, guard |-> guard]
Rule(name, lhs, rhs) == When(name, lhs, rhs, {})
Both(name, lhs, rhs) == {Rule(name \o "-fwd", lhs, rhs), Rule(name \o "-rev", rhs, lhs)}
\* rw!: the two sides are read by the parser that reads sources.
Understood(rules) ==
  {[name |-> r.name, guard |-> r.guard, written |-> Words(r.lhs),
    lhs |-> Parse(Words(r.lhs)).expr, rhs |-> Parse(Words(r.rhs)).expr] : r \in rules}
----------------------------------------------------------------------------
ArithSafe == {
  When("add-zero", "?x + 0", "?x", {<<"nonzero", "?x">>}),
  Rule("sub-zero", "?x - 0", "?x"),
  When("mul-zero", "?x * 0", "0", {<<"finite", "?x">>, <<"positive", "?x">>}),
  When("zero-div", "0 / ?x", "0", {<<"positive", "?x">>}),
  When("zero-sub", "0 - ?x", "- ?x", {<<"nonzero", "?x">>}),
  Rule("mul-one", "?x * 1", "?x"),
  Rule("div-one", "?x / 1", "?x"),
  Rule("div-neg-one", "?x / - 1", "- ?x"),
  Rule("neg-neg", "- ( - ?x )", "?x"),
  When("sub-self", "?x - ?x", "0", {<<"finite", "?x">>}),
  When("div-self", "?x / ?x", "1", {<<"finite_nonzero", "?x">>}),
  Rule("pow-one", "?x ^ 1", "?x"),
  Rule("neg-div-denom", "?a / - ?b", "- ( ?a / ?b )")}
  \cup Both("double", "?x + ?x", "2 * ?x")
  \cup Both("neg-mul-one", "?x * - 1", "- ?x")
  \cup Both("sub-to-add", "?a - ?b", "?a + - ?b")
  \cup Both("neg-mul", "- ( ?a * ?b )", "- ?a * ?b")
  \cup Both("neg-div", "- ( ?a / ?b )", "- ?a / ?b")

LogicSafe == {
  When("lt-known-true", "?a < ?b", "1", {<<"below", "?a", "?b">>}),
  When("lt-known-false", "?a < ?b", "0", {<<"at_least", "?a", "?b">>}),
  When("le-known-true", "?a <= ?b", "1", {<<"at_most", "?a", "?b">>}),
  When("le-known-false", "?a <= ?b", "0", {<<"above", "?a", "?b">>}),
  When("eq-known-false", "?a == ?b", "0", {<<"apart", "?a", "?b">>}),
  When("ne-known-true", "?a != ?b", "1", {<<"apart", "?a", "?b">>}),
  When("min-known", "min ( ?a , ?b )", "?a", {<<"below", "?a", "?b">>}),
  When("max-known", "max ( ?a , ?b )", "?a", {<<"above", "?a", "?b">>}),
  When("if-known-true", "if ( ?c , ?a , ?b )", "?a", {<<"nonzero", "?c">>}),
  When("if-known-false", "if ( ?c , ?a , ?b )", "?b", {<<"zero", "?c">>}),
  Rule("if-same", "if ( ?c , ?a , ?a )", "?a"),
  When("if-const-true", "if ( ?c , ?a , ?b )", "?a", {<<"const_true", "?c">>}),
  When("if-const-false", "if ( ?c , ?a , ?b )", "?b", {<<"const_false", "?c">>}),
  Rule("if-of-if-then", "if ( ?c , if ( ?c , ?a , ?b ) , ?d )", "if ( ?c , ?a , ?d )"),
  Rule("if-of-if-else", "if ( ?c , ?a , if ( ?c , ?b , ?d ) )", "if ( ?c , ?a , ?d )"),
  Rule("if-not-cond", "if ( ! ?c , ?a , ?b )", "if ( ?c , ?b , ?a )"),
  Rule("if-zero-one", "if ( ?c , 0 , 1 )", "! ?c"),
  Rule("if-one-zero", "if ( ?c , 1 , 0 )", "! ( ! ?c )"),
  When("not-not", "! ( ! ?c )", "?c", {<<"normalized_bool", "?c">>}),
  Rule("de-morgan-and", "! ( ?a && ?b )", "! ?a || ! ?b"),
  Rule("de-morgan-or", "! ( ?a || ?b )", "! ?a && ! ?b"),
  Rule("not-and-not", "! ?a && ! ?b", "! ( ?a || ?b )"),
  Rule("not-or-not", "! ?a || ! ?b", "! ( ?a && ?b )"),
  Rule("and-same", "?a && ?a", "! ( ! ?a )"),
  Rule("or-same", "?a || ?a", "! ( ! ?a )"),
  Rule("and-one", "?a && 1", "! ( ! ?a )"),
  Rule("or-zero", "?a || 0", "! ( ! ?a )"),
  Rule("and-zero", "?a && 0", "0"),
  Rule("or-one", "?a || 1", "1"),
  Rule("and-not-self", "?a && ! ?a", "0"),
  Rule("or-not-self", "?a || ! ?a", "1"),
  Rule("not-eq", "! ( ?a == ?b )", "?a != ?b"),
  Rule("not-ne", "! ( ?a != ?b )", "?a == ?b"),
  When("not-lt", "! ( ?a < ?b )", "?a >= ?b", {<<"not_nan", "?a">>, <<"not_nan", "?b">>}),
  When("not-le", "! ( ?a <= ?b )", "?a > ?b", {<<"not_nan", "?a">>, <<"not_nan", "?b">>}),
  Rule("lt-to-gt", "?a < ?b", "?b > ?a"),
  Rule("gt-to-lt", "?a > ?b", "?b < ?a"),
  Rule("le-to-ge", "?a <= ?b", "?b >= ?a"),
  Rule("ge-to-le", "?a >= ?b", "?b <= ?a"),
  Rule("lt-self", "?x < ?x", "0"),
  When("le-self", "?x <= ?x", "1", {<<"not_nan", "?x">>}),
  When("eq-self", "?x == ?x", "1", {<<"not_nan", "?x">>}),
  When("ne-self", "?x != ?x", "0", {<<"not_nan", "?x">>}),
  Rule("lt-or-eq", "( ?a < ?b ) || ( ?a == ?b )", "?a <= ?b"),
  Rule("le-and-ge", "( ?a <= ?b ) && ( ?a >= ?b )", "?a == ?b"),
  When("lt-or-gt", "( ?a < ?b ) || ( ?a > ?b )", "?a != ?b", {<<"not_nan", "?a">>, <<"not_nan", "?b">>}),
  Rule("min-same", "min ( ?a , ?a )", "?a"),
  Rule("max-same", "max ( ?a , ?a )", "?a"),
  Rule("min-of-min", "min ( ?a , min ( ?a , ?b ) )", "min ( ?a , ?b )"),
  Rule("max-of-max", "max ( ?a , max ( ?a , ?b ) )", "max ( ?a , ?b )"),
  When("min-of-max", "min ( ?a , max ( ?a , ?b ) )", "?a", {<<"nonzero", "?a">>}),
  When("max-of-min", "max ( ?a , min ( ?a , ?b ) )", "?a", {<<"nonzero", "?a">>}),
  When("min-plus-max", "min ( ?a , ?b ) + max ( ?a , ?b )", "?a + ?b", {<<"nonzero", "?a">>, <<"not_nan",
          "?b">>}),
  When("max-minus-min", "max ( ?a , ?b ) - min ( ?a , ?b )", "abs ( ?a - ?b )", {<<"not_nan",
          "?a">>, <<"not_nan", "?b">>}),
  Rule("min-of-negs", "min ( - ?a , - ?b )", "- max ( ?a , ?b )"),
  Rule("max-of-negs", "max ( - ?a , - ?b )", "- min ( ?a , ?b )"),
  Rule("abs-abs", "abs ( abs ( ?x ) )", "abs ( ?x )"),
  Rule("abs-neg", "abs ( - ?x )", "abs ( ?x )"),
  When("abs-positive", "abs ( ?x )", "?x", {<<"positive", "?x">>}),
  When("abs-negative", "abs ( ?x )", "- ?x", {<<"negative", "?x">>}),
  Rule("abs-times-abs", "abs ( ?x ) * abs ( ?x )", "?x * ?x"),
  When("sign-positive", "sign ( ?x )", "1", {<<"positive", "?x">>}),
  When("sign-negative", "sign ( ?x )", "- 1", {<<"negative", "?x">>}),
  Rule("sign-sign", "sign ( sign ( ?x ) )", "sign ( ?x )"),
  Rule("sign-abs", "sign ( abs ( ?x ) )", "abs ( sign ( ?x ) )"),
  Rule("floor-floor", "floor ( floor ( ?x ) )", "floor ( ?x )"),
  Rule("ceil-ceil", "ceil ( ceil ( ?x ) )", "ceil ( ?x )"),
  Rule("ceil-floor", "ceil ( floor ( ?x ) )", "floor ( ?x )"),
  Rule("floor-ceil", "floor ( ceil ( ?x ) )", "ceil ( ?x )"),
  Rule("floor-sign", "floor ( sign ( ?x ) )", "sign ( ?x )"),
  Rule("ceil-sign", "ceil ( sign ( ?x ) )", "sign ( ?x )"),
  Rule("neg-floor-neg", "- floor ( - ?x )", "ceil ( ?x )"),
  Rule("neg-ceil-neg", "- ceil ( - ?x )", "floor ( ?x )")}

TransSafe == {
  Rule("pow-zero", "?x ^ 0", "1"),
  Rule("pow-one", "?x ^ 1", "?x"),
  Rule("one-pow", "1 ^ ?x", "1"),
  When("zero-pow", "0 ^ ?x", "0", {<<"positive", "?x">>}),
  Rule("exp-zero", "exp ( 0 )", "1"),
  Rule("ln-one", "ln ( 1 )", "0"),
  Rule("cos-zero", "cos ( 0 )", "1"),
  Rule("sin-zero", "sin ( 0 )", "0"),
  Rule("tan-zero", "tan ( 0 )", "0"),
  Rule("cos-pi", "cos ( pi )", "- 1"),
  Rule("sin-neg", "sin ( - ?x )", "- sin ( ?x )"),
  Rule("cos-neg", "cos ( - ?x )", "cos ( ?x )"),
  Rule("tan-neg", "tan ( - ?x )", "- tan ( ?x )"),
  When("atan2-zero-num", "atan2 ( 0 , ?x )", "0", {<<"positive", "?x">>}),
  When("atan2-zero-den", "atan2 ( ?y , 0 )", "pi / 2", {<<"positive", "?y">>}),
  When("atan2-clamp-hi", "min ( atan2 ( ?y , ?x ) , pi )", "atan2 ( ?y , ?x )", {<<"not_nan",
          "?y">>, <<"not_nan", "?x">>}),
  When("atan2-clamp-lo", "max ( atan2 ( ?y , ?x ) , - pi )", "atan2 ( ?y , ?x )", {<<"not_nan",
          "?y">>, <<"not_nan", "?x">>})}

Safe == Understood(ArithSafe \cup LogicSafe \cup TransSafe)

ArithFast == {
  Rule("add-zero-lax", "?x + 0", "?x"),
  Rule("sub-zero-lax", "?x - 0", "?x"),
  Rule("mul-zero-lax", "?x * 0", "0"),
  Rule("zero-div-lax", "0 / ?x", "0"),
  Rule("sub-self-lax", "?x - ?x", "0"),
  Rule("div-self-lax", "?x / ?x", "1"),
  Rule("assoc-add", "( ?a + ?b ) + ?c", "?a + ( ?b + ?c )"),
  Rule("assoc-mul", "( ?a * ?b ) * ?c", "?a * ( ?b * ?c )"),
  Rule("neg-sub", "- ( ?a - ?b )", "?b - ?a"),
  Rule("neg-add-fold", "- ?a + - ?b", "- ( ?a + ?b )"),
  Rule("distribute", "?a * ( ?b + ?c )", "?a * ?b + ?a * ?c"),
  Rule("factor", "?a * ?b + ?a * ?c", "?a * ( ?b + ?c )"),
  Rule("distribute-sub", "?a * ( ?b - ?c )", "?a * ?b - ?a * ?c"),
  Rule("factor-sub", "?a * ?b - ?a * ?c", "?a * ( ?b - ?c )"),
  When("factor-const", "?k * ?a + ?a", "( ?k + 1 ) * ?a", {<<"const", "?k">>}),
  When("fuse-const-mul", "( ?k1 * ?x ) * ?k2", "( ?k1 * ?k2 ) * ?x", {<<"const", "?k1">>, <<"const",
          "?k2">>}),
  Rule("split-div", "( ?a + ?b ) / ?c", "?a / ?c + ?b / ?c"),
  Rule("join-div", "?a / ?c + ?b / ?c", "( ?a + ?b ) / ?c"),
  Rule("div-div-left", "?a / ?b / ?c", "?a / ( ?b * ?c )"),
  Rule("div-div-right", "?a / ( ?b / ?c )", "?a * ?c / ?b"),
  Rule("mul-div-cancel", "?a * ?b / ?b", "?a"),
  Rule("mul-over-div", "?a / ?b * ?c", "?a * ?c / ?b"),
  Rule("square", "?x * ?x", "?x ^ 2"),
  When("mul-pow", "?x * ?x ^ ?k", "?x ^ ( ?k + 1 )", {<<"const", "?k">>})}

LogicFast == {
  Rule("if-lt-min", "if ( ?a < ?b , ?a , ?b )", "min ( ?a , ?b )"),
  Rule("if-lt-max", "if ( ?a < ?b , ?b , ?a )", "max ( ?a , ?b )"),
  Rule("if-gt-max", "if ( ?a > ?b , ?a , ?b )", "max ( ?a , ?b )"),
  Rule("if-gt-min", "if ( ?a > ?b , ?b , ?a )", "min ( ?a , ?b )"),
  When("abs-nonneg", "abs ( ?x )", "?x", {<<"nonneg", "?x">>}),
  Rule("minmax-sum", "min ( ?a , ?b ) + max ( ?a , ?b )", "?a + ?b"),
  Rule("sign-times-abs", "sign ( ?x ) * abs ( ?x )", "?x"),
  Rule("div-by-abs", "?x / abs ( ?x )", "sign ( ?x )")}

TransFast == {
  Rule("pow-square", "?x ^ 2", "?x * ?x"),
  Rule("pow-recip", "?x ^ - 1", "1 / ?x"),
  Rule("pow-half", "?x ^ 0.5", "sqrt ( ?x )"),
  Rule("pow-add", "?x ^ ?a * ?x ^ ?b", "?x ^ ( ?a + ?b )"),
  Rule("pow-sub", "?x ^ ?a / ?x ^ ?b", "?x ^ ( ?a - ?b )"),
  When("pow-pow-pos", "( ?x ^ ?a ) ^ ?b", "?x ^ ( ?a * ?b )", {<<"positive", "?x">>}),
  When("pow-pow-int", "( ?x ^ ?a ) ^ ?b", "?x ^ ( ?a * ?b )", {<<"int_const", "?a">>, <<"int_const",
          "?b">>}),
  Rule("pow-prod", "( ?x * ?y ) ^ ?a", "?x ^ ?a * ?y ^ ?a"),
  Rule("pow-prod-join", "?x ^ ?a * ?y ^ ?a", "( ?x * ?y ) ^ ?a"),
  When("sqrt-square", "sqrt ( ?x ) * sqrt ( ?x )", "?x", {<<"nonneg", "?x">>}),
  Rule("sqrt-of-square", "sqrt ( ?x * ?x )", "abs ( ?x )"),
  Rule("ln-exp", "ln ( exp ( ?x ) )", "?x"),
  When("exp-ln", "exp ( ln ( ?x ) )", "?x", {<<"positive", "?x">>}),
  Rule("exp-prod", "exp ( ?a ) * exp ( ?b )", "exp ( ?a + ?b )"),
  Rule("exp-quot", "exp ( ?a ) / exp ( ?b )", "exp ( ?a - ?b )"),
  Rule("exp-neg", "exp ( - ?x )", "1 / exp ( ?x )"),
  Rule("exp-recip", "1 / exp ( ?x )", "exp ( - ?x )"),
  Rule("ln-prod", "ln ( ?x * ?y )", "ln ( ?x ) + ln ( ?y )"),
  Rule("ln-prod-join", "ln ( ?x ) + ln ( ?y )", "ln ( ?x * ?y )"),
  Rule("ln-quot", "ln ( ?x / ?y )", "ln ( ?x ) - ln ( ?y )"),
  Rule("ln-quot-join", "ln ( ?x ) - ln ( ?y )", "ln ( ?x / ?y )"),
  Rule("ln-pow", "ln ( ?x ^ ?k )", "?k * ln ( ?x )"),
  Rule("pythagoras", "sin ( ?x ) ^ 2 + cos ( ?x ) ^ 2", "1"),
  Rule("pythagoras-mul", "sin ( ?x ) * sin ( ?x ) + cos ( ?x ) * cos ( ?x )", "1"),
  Rule("cos-square", "1 - sin ( ?x ) ^ 2", "cos ( ?x ) ^ 2"),
  Rule("sin-square", "1 - cos ( ?x ) ^ 2", "sin ( ?x ) ^ 2"),
  Rule("tan-def", "tan ( ?x )", "sin ( ?x ) / cos ( ?x )"),
  Rule("tan-join", "sin ( ?x ) / cos ( ?x )", "tan ( ?x )"),
  Rule("sin-double", "sin ( 2 * ?x )", "2 * sin ( ?x ) * cos ( ?x )"),
  Rule("sin-double-join", "2 * sin ( ?x ) * cos ( ?x )", "sin ( 2 * ?x )"),
  Rule("cos-double", "cos ( 2 * ?x )", "cos ( ?x ) ^ 2 - sin ( ?x ) ^ 2"),
  Rule("cos-double-join", "cos ( ?x ) ^ 2 - sin ( ?x ) ^ 2", "cos ( 2 * ?x )")}

FastMath == Understood(ArithFast \cup LogicFast \cup TransFast)

\* min and max are differentiated on the side that wins; on a tie, and where
\* both are NaN, by the middle of the two derivatives.
Middle == "( d ( ?x , ?a ) + d ( ?x , ?b ) ) / 2"
Choice(c, a, b) == "if ( " \o c \o " , " \o a \o " , " \o b \o " )"
OneOrMiddle(aWins, bWins) ==
  Choice(aWins, "d ( ?x , ?a )",
    Choice(bWins, "d ( ?x , ?b )",
      Choice("?a != ?a", Choice("?b != ?b", Middle, "d ( ?x , ?b )"),
                         Choice("?b != ?b", "d ( ?x , ?a )", Middle))))
DiffProper == {
  Rule("diff-var", "d ( ?x , ?x )", "1"),
  When("diff-independent", "d ( ?x , ?e )", "0", {<<"independent_of", "?e", "?x">>}),
  Rule("diff-add", "d ( ?x , ?a + ?b )", "d ( ?x , ?a ) + d ( ?x , ?b )"),
  Rule("diff-sub", "d ( ?x , ?a - ?b )", "d ( ?x , ?a ) - d ( ?x , ?b )"),
  Rule("diff-neg", "d ( ?x , - ?a )", "- d ( ?x , ?a )"),
  Rule("diff-mul", "d ( ?x , ?a * ?b )", "d ( ?x , ?a ) * ?b + ?a * d ( ?x , ?b )"),
  Rule("diff-div", "d ( ?x , ?a / ?b )", "( d ( ?x , ?a ) * ?b - ?a * d ( ?x , ?b ) ) / ( ?b * ?b )"),
  Rule("diff-pow-zero", "d ( ?x , ?f ^ 0 )", "0"),
  When("diff-pow-const", "d ( ?x , ?f ^ ?g )", "?g * ?f ^ ( ?g - 1 ) * d ( ?x , ?f )",
          {<<"independent_of", "?g", "?x">>, <<"not_provably_zero", "?g">>}),
  When("diff-pow", "d ( ?x , ?f ^ ?g )",
          "?f ^ ?g * ( d ( ?x , ?g ) * ln ( ?f ) + ?g * d ( ?x , ?f ) / ?f )", {<<"depends_on", "?g",
          "?x">>}),
  Rule("diff-sqrt", "d ( ?x , sqrt ( ?a ) )", "d ( ?x , ?a ) / ( 2 * sqrt ( ?a ) )"),
  Rule("diff-exp", "d ( ?x , exp ( ?a ) )", "exp ( ?a ) * d ( ?x , ?a )"),
  Rule("diff-ln", "d ( ?x , ln ( ?a ) )", "d ( ?x , ?a ) / ?a"),
  Rule("diff-sin", "d ( ?x , sin ( ?a ) )", "cos ( ?a ) * d ( ?x , ?a )"),
  Rule("diff-cos", "d ( ?x , cos ( ?a ) )", "- sin ( ?a ) * d ( ?x , ?a )"),
  Rule("diff-tan", "d ( ?x , tan ( ?a ) )", "d ( ?x , ?a ) / ( cos ( ?a ) * cos ( ?a ) )"),
  Rule("diff-atan2", "d ( ?x , atan2 ( ?a , ?b ) )",
          "( ?b * d ( ?x , ?a ) - ?a * d ( ?x , ?b ) ) / ( ?a * ?a + ?b * ?b )"),
  Rule("diff-abs", "d ( ?x , abs ( ?a ) )", "sign ( ?a ) * d ( ?x , ?a )"),
  Rule("diff-min", "d ( ?x , min ( ?a , ?b ) )", OneOrMiddle("?a < ?b", "?b < ?a")),
  Rule("diff-max", "d ( ?x , max ( ?a , ?b ) )", OneOrMiddle("?a > ?b", "?b > ?a")),
  Rule("diff-if", "d ( ?x , if ( ?c , ?a , ?b ) )", "if ( ?c , d ( ?x , ?a ) , d ( ?x , ?b ) )")}
LocallyConstant == {
  <<"sign", "sign ( ?a )">>, <<"floor", "floor ( ?a )">>, <<"ceil", "ceil ( ?a )">>,
  <<"lt", "?a < ?b">>, <<"le", "?a <= ?b">>, <<"gt", "?a > ?b">>, <<"ge", "?a >= ?b">>,
  <<"eq", "?a == ?b">>, <<"ne", "?a != ?b">>, <<"and", "?a && ?b">>, <<"or", "?a || ?b">>,
  <<"not", "! ?a">>}
Differentiation ==
  Understood(DiffProper \cup {Rule("diff-" \o b[1], "d ( ?x , " \o b[2] \o " )", "0") :
                                b \in LocallyConstant})
----------------------------------------------------------------------------
(* The side conditions, of the nodes the pattern variables are bound to.     *)
NormalizedBool(n) ==
  \/ n.op \in Compare \cup {"&&", "||", "not"}
  \/ IsConst(n) /\ n.val \in {One, Zero}
FreeOf(e, i, name) == name \notin Vars(e, {i})

\* What is asked of one variable's range, and of two.
OnRange(ask, r) ==
  CASE ask = "nonzero"        -> NonZeroRange(r)
    [] ask = "finite"         -> FiniteRange(r)
    [] ask = "finite_nonzero" -> FiniteRange(r) /\ NonZeroRange(r)
    [] ask = "nonneg"         -> NonNegRange(r)
    [] ask = "positive"       -> PositiveRange(r)
    [] ask = "negative"       -> NegativeRange(r)
    [] ask = "not_nan"        -> ~r.nan
    [] ask = "zero"           -> ZeroRange(r)
    [] ask = "const"          -> IsPoint(r)
    [] ask = "int_const"      -> IsPoint(r) /\ IsWhole(r.lo)
    [] ask = "const_true"     -> IsPoint(r) /\ ~IsZero(r.lo)
    [] ask = "const_false"    -> IsPoint(r) /\ IsZero(r.lo)
Bounds(ask, r, s) ==
  /\ ~r.nan /\ ~s.nan
  /\ CASE ask = "below"    -> NumLt(r.hi, s.lo)
       [] ask = "at_least" -> NumLe(s.hi, r.lo)
       [] ask = "at_most"  -> NumLe(r.hi, s.lo)
       [] ask = "above"    -> NumLt(s.hi, r.lo)
       [] ask = "apart"    -> NumLt(r.hi, s.lo) \/ NumLt(s.hi, r.lo)
\* A derivative is by the variable `d` was given, and of what does not hold it.
Condition(c, e, data, subst) ==
  LET i == subst[c[2]]
      j == subst[c[3]]
  IN  CASE c[1] = "normalized_bool"   -> NormalizedBool(e[i])
        [] c[1] = "not_provably_zero" -> \A v \in data[i].known : ~IsZero(v)
        [] c[1] = "independent_of"    -> IsVar(e[j]) /\ FreeOf(e, i, e[j].op)
        [] c[1] = "depends_on"        -> IsVar(e[j]) /\ ~FreeOf(e, i, e[j].op)
        [] c[1] \in {"below", "at_least", "at_most", "above", "apart"} ->
             Bounds(c[1], data[i].range, data[j].range)
        [] OTHER -> OnRange(c[1], data[i].range)
----------------------------------------------------------------------------
(* Matching a rule's left side at a node, a commutative node both ways, and  *)
(* building its right side.                                                  *)
IsHole(n) == IsVar(n) /\ IsPattern(n.op)
RECURSIVE MatchNode(_, _, _, _, _), MatchKids(_, _, _, _, _)
MatchNode(p, k, e, i, subst) ==
  IF IsHole(p[k])
  THEN IF p[k].op \notin DOMAIN subst THEN {(p[k].op :> i) @@ subst}
       ELSE IF subst[p[k].op] = i THEN {subst} ELSE {}
  ELSE IF p[k].op # e[i].op \/ p[k].val # e[i].val THEN {}
  ELSE MatchKids(p, p[k].kids, e, e[i].kids, subst)
       \cup IF e[i].op \in Commutative
            THEN MatchKids(p, p[k].kids, e, Reverse(e[i].kids), subst) ELSE {}
MatchKids(p, pats, e, kids, subst) ==
  IF pats = <<>> THEN {subst}
  ELSE UNION {MatchKids(p, Tail(pats), e, Tail(kids), s) :
                s \in MatchNode(p, Head(pats), e, Head(kids), subst)}
NoBinding == [v \in {} |-> 0]
(* Mutant of Matches: the side conditions are not asked. *)
MatchesUnasked(r, e, data) == MatchNode(r.lhs, Root(r.lhs), e, Root(e), NoBinding)
Matches(r, e, data) ==
  {s \in MatchNode(r.lhs, Root(r.lhs), e, Root(e), NoBinding) :
     \A c \in r.guard : Condition(c, e, data, s)}

\* The right side over the matched expression: its holes are nodes of it.
Built(r, e, subst) ==
  LET put(acc, k) ==
        LET n == r.rhs[k] IN
        IF IsHole(n) THEN [acc EXCEPT !.ids = Append(@, subst[n.op])]
        ELSE LET add == Added(acc.expr, [n EXCEPT !.kids = [a \in DOMAIN @ |-> acc.ids[@[a]]]])
             IN  [expr |-> add.expr, ids |-> Append(acc.ids, add.id)]
      done == FoldLeft(put, [expr |-> e, ids |-> <<>>], [k \in DOMAIN r.rhs |-> k])
  IN  Compact(done.expr, Last(done.ids))

\* x ^ k for a small whole k, as multiplications by repeated squaring.
MaxPowExpansion == 8
RECURSIVE PowerChain(_, _, _)
PowerChain(e, base, k) ==
  IF k = 1 THEN [expr |-> e, id |-> base]
  ELSE LET c == PowerChain(e, base, IF (k % 2) = 0 THEN k \div 2 ELSE k - 1)
       IN  Added(c.expr, [op |-> "*", val |-> Zero,
                          kids |-> <<c.id, IF (k % 2) = 0 THEN c.id ELSE base>>])
ExpandPow(e, data) ==
  IF e[Root(e)].op # "^" THEN {}
  ELSE {LET c == PowerChain(e, e[Root(e)].kids[1], Value(k) \div Unit) IN Compact(c.expr, c.id) :
          k \in {v \in data[e[Root(e)].kids[2]].known :
                   IsWhole(v) /\ Value(v) >= 2 * Unit /\ Value(v) <= MaxPowExpansion * Unit}}
=============================================================================
