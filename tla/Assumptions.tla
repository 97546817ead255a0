------------------------------ MODULE Assumptions ------------------------------
(* What a caller says of the variables: constraints joined by commas or `&&`,*)
(* each a comparison of a variable with a number, either way round, or one   *)
(* of the predicates finite(x) and nonzero(x).                               *)
EXTENDS Intervals, Syntax

Compare == {"<", "<=", ">", ">=", "==", "!="}
Mirror(op) == CASE op = "<" -> ">" [] op = ">" -> "<" [] op = "<=" -> ">="
                [] op = ">=" -> "<=" [] OTHER -> op
NextAbove(x) == IF Size(x) = Inf THEN x ELSE NextUp(x)
NextBelow(x) == IF Size(x) = Inf THEN x ELSE NextDown(x)

\* A number, signed: how many tokens it takes (none is a refusal), its value.
Number(toks) ==
  LET minus == toks # <<>> /\ Head(toks) = "-"
      rest  == IF minus THEN Tail(toks) ELSE toks
      found == IF rest = <<>> THEN {}
               ELSE IF Head(rest) \in DOMAIN NamedConstants THEN {NamedConstants[Head(rest)]}
               ELSE {i - 1 : i \in {k \in DOMAIN Literals : Literals[k] = Head(rest)}}
  IN  IF found = {} THEN [took |-> 0, val |-> Zero]
      ELSE LET v == CHOOSE x \in found : TRUE
           IN  [took |-> IF minus THEN 2 ELSE 1, val |-> IF minus THEN Neg(v) ELSE v]

(* Mutant of RangeWhere: a strict bound lets the value itself in. *)
RangeWithEnds(op, v) ==
  CASE op \in {">", ">="} -> New(v, Inf)
    [] op \in {"<", "<="} -> New(Neg(Inf), v)
    [] op = "==" -> Point(v)
    [] op = "!=" -> NonZero(REAL)
RangeWhere(op, v) ==
  CASE op = ">"  -> New(NextAbove(v), Inf)
    [] op = ">=" -> New(v, Inf)
    [] op = "<"  -> New(Neg(Inf), NextBelow(v))
    [] op = "<=" -> New(Neg(Inf), v)
    [] op = "==" -> Point(v)
    [] op = "!=" -> NonZero(REAL)

NoFact(toks) == [ok |-> FALSE, var |-> "", range |-> TOP, rest |-> toks]
Fact(var, range, rest) == [ok |-> TRUE, var |-> var, range |-> range, rest |-> rest]
After(toks, n) == SubSeq(toks, n + 1, Len(toks))

Predicate(toks) ==
  IF Len(toks) < 4 \/ toks[1] \notin {"finite", "nonzero"} \/ ~IsName(toks[3]) \/ toks[4] # ")"
  THEN NoFact(toks)
  ELSE Fact(toks[3],
            IF toks[1] = "finite" THEN Between(Neg(Inf - 1), Inf - 1)
            ELSE NonZero(Meet(TOP, REAL)),
            After(toks, 4))

\* `!=` is understood against zero alone: a range has no holes.
Comparison(toks) ==
  LET varFirst == IsName(Head(toks))
      left     == IF varFirst THEN [took |-> 1, val |-> Zero] ELSE Number(toks)
      rest     == After(toks, left.took + 1)
      right    == IF varFirst THEN Number(rest) ELSE [took |-> 1, val |-> Zero]
      op       == IF Len(toks) > left.took THEN toks[left.took + 1] ELSE "eof"
      v        == IF varFirst THEN right.val ELSE left.val
  IN  IF \/ left.took = 0 \/ op \notin Compare
         \/ rest = <<>> \/ right.took = 0
         \/ ~varFirst /\ ~IsName(Head(rest))
         \/ op = "!=" /\ ~IsZero(v)
      THEN NoFact(toks)
      ELSE Fact(IF varFirst THEN Head(toks) ELSE Head(rest),
                RangeWhere(IF varFirst THEN op ELSE Mirror(op), v),
                After(rest, right.took))
Constraint(toks) ==
  IF Len(toks) > 1 /\ IsName(toks[1]) /\ toks[2] = "(" THEN Predicate(toks) ELSE Comparison(toks)

\* Two constraints on one variable are met.
Learnt(facts, c) ==
  (c.var :> IF c.var \in DOMAIN facts THEN Meet(facts[c.var], c.range) ELSE c.range) @@ facts
RECURSIVE FactsFrom(_, _), FactsWith(_, _)
FactsFrom(toks, facts) ==
  IF toks = <<>> THEN [ok |-> TRUE, facts |-> facts] ELSE FactsWith(Constraint(toks), facts)
FactsWith(c, facts) ==
  IF ~c.ok \/ (c.rest # <<>> /\ Head(c.rest) \notin {",", "&&"})
  THEN [ok |-> FALSE, facts |-> facts]
  ELSE FactsFrom(IF c.rest = <<>> THEN <<>> ELSE Tail(c.rest), Learnt(facts, c))
Facts(toks) == FactsFrom(toks, [x \in {} |-> TOP])

\* What a constraint means, said over again without ranges: the comparison is
\* true of the variable's value.
Side(env, toks) == IF IsName(toks[1]) /\ toks[1] \notin DOMAIN NamedConstants
                   THEN env[toks[1]] ELSE Number(toks).val
Meets(env, toks) ==
  CASE toks[1] = "finite"  -> IsFinite(env[toks[3]])
    [] toks[1] = "nonzero" -> env[toks[3]] # NaN /\ ~IsZero(env[toks[3]])
    [] OTHER -> \E i \in {k \in DOMAIN toks : toks[k] \in Compare} :
                  Truthy(Apply2[toks[i]][Side(env, SubSeq(toks, 1, i - 1))][Side(env, After(toks, i))])
=============================================================================
