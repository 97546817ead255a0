----------------------------- MODULE MCSaturation -----------------------------
(***************************************************************************)
(* The saturation loop with what is taken from its result: the cheapest term, *)
(* the cheapest with sharing, and why two terms are equal.  Values are signs.  *)
(***************************************************************************)
EXTENDS Results, SequencesExt, TLC

MCEnv == ("x" :> "-1") @@ ("y" :> "+1")

MCEval(op, args) ==
  IF op = "neg"
  THEN IF args[1] = "+1" THEN "-1" ELSE "+1"
  ELSE IF args[1] = args[2] THEN "+1" ELSE "-1"

MCPrice(op) == IF op = "mul" THEN 4 ELSE IF op = "neg" THEN 2 ELSE 1
MCHoles == <<"?a", "?b", "?c">>

Leaf(op) == [op |-> op, kids |-> <<>>]
Neg(p) == [op |-> "neg", kids |-> <<p>>]
Mul(p, q) == [op |-> "mul", kids |-> <<p, q>>]
a == Leaf("?a")
b == Leaf("?b")
c == Leaf("?c")
x == Leaf("x")
y == Leaf("y")
one == Leaf("+1")
minus == Leaf("-1")

\* from_expr: the nodes of a term, each once and after its arguments.
RECURSIVE Below(_, _)
At(nodes, t) == CHOOSE k \in DOMAIN nodes : nodes[k].tree = t
Below(nodes, t) ==
  LET kids == FoldLeft(Below, nodes, t.kids)
      node == [tree |-> t, op |-> t.op, kids |-> [j \in DOMAIN t.kids |-> At(kids, t.kids[j])]]
  IN  IF \E k \in DOMAIN kids : kids[k].tree = t THEN kids ELSE Append(kids, node)
Flat(t) ==
  LET nodes == Below(<<>>, t)
  IN  [k \in DOMAIN nodes |-> [op |-> nodes[k].op, kids |-> nodes[k].kids]]

Rule(l, r) == [lhs |-> Flat(l), rhs |-> Flat(r), needs |-> {}]

Twice == Rule(Neg(Neg(a)), a)
Square == Rule(Mul(a, a), one)
Unit == Rule(Mul(a, one), a)
Minus == Rule(Neg(a), Mul(minus, a))
Pull == Rule(Mul(Neg(a), b), Neg(Mul(a, b)))
Push_ == Rule(Neg(Mul(a, b)), Mul(Neg(a), b))
Assoc == Rule(Mul(a, Mul(b, c)), Mul(Mul(a, b), c))
Drop == [Rule(Mul(a, b), Mul(b, a)) EXCEPT !.needs = {"?a"}]

Full == [passes |-> 8, nodes |-> 14, checkEvery |-> 256, matches |-> 1000, ban |-> 5,
         perClass |-> 512, perSearch |-> 20000, steps |-> 400000, timed |-> FALSE]
Tight == [Full EXCEPT !.nodes = 8, !.checkEvery = 2]
Hurried == [Full EXCEPT !.timed = TRUE, !.passes = 4, !.checkEvery = 2]
Banning == [Full EXCEPT !.matches = 1, !.ban = 1]
Curt == [Full EXCEPT !.passes = 3, !.perClass = 1, !.perSearch = 3, !.steps = 12]

Deep == {Neg(Neg(x)), Neg(Mul(x, y)), Mul(x, y), Mul(x, Neg(x)), Mul(Neg(x), Neg(y)), Mul(x, one)}
Starts == {Neg(t) : t \in Deep} \cup {Mul(t, u) : t \in Deep, u \in {x, minus, Neg(Mul(x, y))}}
            \cup {Mul(Neg(Neg(Mul(x, y))), Neg(Mul(x, y)))}
RuleSets == {<<Twice, Square, Unit>>, <<Pull, Twice, Square>>, <<Minus, Assoc, Unit>>,
             <<Push_, Pull, Drop>>}

MCProblems == [start : {Flat(t) : t \in Starts}, rules : RuleSets, limits : {Full, Tight, Hurried, Banning, Curt}]
===============================================================================
