-------------------------------- MODULE Terms --------------------------------
(* The expressions of saturn: a sequence of nodes in which every child comes *)
(* before its parent, hashconsed as it is built, with the root last; and the *)
(* reference interpreter, which every other way of computing one is held to. *)
(* A literal is the leaf "const"; any other leaf is the variable its op      *)
(* names.  Modules that prove nothing use this one: it is recursive.         *)
EXTENDS Floats, SequencesExt, Ordered

Const(v)     == [op |-> "const", val |-> v, kids |-> <<>>]
Var(name)    == [op |-> name, val |-> Zero, kids |-> <<>>]
IsConst(n)   == n.op = "const"
IsVar(n)     == n.kids = <<>> /\ ~IsConst(n)
Kids(n)      == Range(n.kids)
Root(e)      == Len(e)
Ids(e)       == 1..Len(e)

Commutative  == {"+", "*", "min", "max", "==", "!=", "&&", "||"}
Arity(op) ==
  CASE op \in UnaryOps           -> 1
    [] op \in BinaryOps \cup {"d"} -> 2
    [] op = "if"                 -> 3
    [] OTHER                     -> 0

Normalized(n) ==
  IF n.op \in Commutative /\ n.kids[1] > n.kids[2]
  THEN [n EXCEPT !.kids = <<n.kids[2], n.kids[1]>>] ELSE n

\* Adding a node gives the expression and the place of the node in it; one
\* that is there already is not added again.
Added(e, node) ==
  LET n == Normalized(node)
  IN  IF \E i \in Ids(e) : e[i] = n
      THEN [expr |-> e, id |-> CHOOSE i \in Ids(e) : e[i] = n]
      ELSE [expr |-> Append(e, n), id |-> Len(e) + 1]

RECURSIVE ReachedFrom(_, _, _)
ReachedFrom(e, i, seen) ==
  IF i = 0 THEN seen
  ELSE ReachedFrom(e, i - 1, IF i \in seen THEN seen \cup Kids(e[i]) ELSE seen)
Reachable(e, roots) == ReachedFrom(e, Len(e), roots)

Reads(n, i) == Cardinality({k \in DOMAIN n.kids : n.kids[k] = i})
RefCount(e, live, i) == FoldSet(LAMBDA j, n : n + Reads(e[j], i), 0, live)
Vars(e, roots) == {e[i].op : i \in {j \in Reachable(e, roots) : IsVar(e[j])}}

\* Copying the nodes of `e` that `roots` reach, in order, into `out`, and where
\* each of them came to stand.
Copied(out, e, roots) ==
  LET copy(acc, i) ==
        LET add == Added(acc.expr, [e[i] EXCEPT !.kids = [k \in DOMAIN @ |-> acc.map[@[k]]]])
        IN  [expr |-> add.expr, map |-> (i :> add.id) @@ acc.map]
  IN  FoldLeft(copy, [expr |-> out, map |-> <<>>], Increasing(Reachable(e, roots)))
Compact(e, root)   == Copied(<<>>, e, {root}).expr
ExtendFrom(out, e) ==
  LET copy == Copied(out, e, {Root(e)})
  IN  [expr |-> copy.expr, id |-> copy.map[Root(e)]]
\* Several named expressions that share their nodes: the outputs, in order.
BundleOf(exprs) ==
  FoldLeft(LAMBDA b, e : LET add == ExtendFrom(b.expr, e)
                         IN  [expr |-> add.expr, outs |-> Append(b.outs, add.id)],
           [expr |-> <<>>, outs |-> <<>>], exprs)

Operate(op, args) ==
  CASE Len(args) = 1 -> Apply1[op][args[1]]
    [] Len(args) = 2 -> Apply2[op][args[1]][args[2]]
    [] Len(args) = 3 -> Choose(args[1], args[2], args[3])

\* The interpreter: every node once, in order.
RECURSIVE ValuesUpTo(_, _, _)
ValuesUpTo(e, env, i) ==
  IF i = 0 THEN <<>>
  ELSE LET vals == ValuesUpTo(e, env, i - 1)
           n    == e[i]
       IN  Append(vals,
             CASE IsConst(n) -> n.val
               [] IsVar(n)   -> env[n.op]
               [] OTHER      -> Operate(n.op, [k \in DOMAIN n.kids |-> vals[n.kids[k]]]))
Values(e, env) == ValuesUpTo(e, env, Len(e))
Eval(e, env)   == Values(e, env)[Root(e)]
HasDerivative(e) == \E i \in Ids(e) : e[i].op = "d"
=============================================================================
