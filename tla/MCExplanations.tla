---------------------------- MODULE MCExplanations ----------------------------
(***************************************************************************)
(* A caller who adds one expression, then declares classes equal and rebuilds *)
(* as it likes, and asks why.  Everything is worth the same, so that any two   *)
(* classes may be declared equal.                                            *)
(***************************************************************************)
EXTENDS Saturation, Explanations

MCEnv == [v \in Var |-> "+1"]
MCHoles == <<>>
MCEval(op, args) == "+1"

Leaf(op) == [op |-> op, kids |-> <<>>]
Mul(i, j) == [op |-> "mul", kids |-> <<i, j>>]
MCProblems ==
  {[start  |-> <<Leaf("x"), Leaf("y"), Mul(1, 2), Leaf("z"), Mul(2, 4), Mul(3, 5)>>,
    rules  |-> <<>>,
    limits |-> [passes |-> 0, nodes |-> 0, checkEvery |-> 1, matches |-> 0, ban |-> 0,
                perClass |-> 0, perSearch |-> 0, steps |-> 0, timed |-> FALSE]]}

Declare(i, j) == InOrder(i, j) /\ i # j /\ Union(i, j) /\ UNCHANGED runVars
RebuildDirty == phase = "dirty" /\ Rebuild /\ UNCHANGED runVars

ESpec ==
  RInit /\ [][(\E i, j \in Classes(graph) : Declare(i, j)) \/ RebuildDirty \/ RebuildOn]_allVars

\* Every argument that differs is accounted for.
RECURSIVE AccountsFor(_, _)
AccountsFor(g, steps) ==
  \A k \in DOMAIN steps :
    steps[k].why.by = "congruence" =>
      LET pairs == PairArguments(g, steps[k].why.left, steps[k].why.right) IN
      /\ {b.arg : b \in steps[k].because} = {j \in DOMAIN pairs : pairs[j][1] # pairs[j][2]}
      /\ \A b \in steps[k].because : AccountsFor(g, b.steps)

\* A congruence is explained by why each argument that differs is equal; nothing
\* is left out but what lies beyond the depth limit, which five unions do not
\* reach (explain.rs:73-75, egraph.rs:475-476, 623-629).
ArgumentsAreExplained ==
  phase = "clean" =>
    \A i, j \in Made(graph) :
      Find(graph, i) = Find(graph, j) => AccountsFor(graph, Explain(graph, i, j))
===============================================================================
