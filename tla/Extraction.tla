------------------------------ MODULE Extraction ------------------------------
(***************************************************************************)
(* Choosing a term out of the graph (src/extract.rs).  A selection gives a    *)
(* class a node of it and what the term below costs; solve lowers costs       *)
(* until nothing moves, and a class that every node of leads back to has      *)
(* none.  The sharing extractor solves again with what it already emits for    *)
(* free, and stops when that no longer pays.  Costs are whole numbers.        *)
(***************************************************************************)
EXTENDS EGraph

CONSTANTS
  Price(_),     \* what an operator costs
  Models,       \* the cost functions in use: "tree" or "depth"
  DagRounds     \* rounds of refinement

\* A cycle that cost nothing could not be ordered (extract.rs:16-18), so even a
\* leaf is charged a token amount, :82.  The numbers are scaled to whole ones.
ASSUME NothingIsFree ==
  /\ \A op \in Var \cup Number \cup Unary \cup Commutative : Price(op) \in Nat \ {0}
  /\ DagRounds \in Nat

SumOver(s) ==
  LET upTo[k \in 0 .. Len(s)] == IF k = 0 THEN 0 ELSE upTo[k - 1] + s[k] IN upTo[Len(s)]

Larger(x, y) == IF x > y THEN x ELSE y
MaxOver(s) ==
  LET upTo[k \in 0 .. Len(s)] == IF k = 0 THEN 0 ELSE Larger(s[k], upTo[k - 1]) IN upTo[Len(s)]

\* CostFunction: AstSize and OpCost sum over the arguments, AstDepth takes the
\* worst of them.
NodeCost(model, node, costs) ==
  IF model = "depth" THEN 1 + MaxOver(costs) ELSE Price(node.op) + SumOver(costs)

\* The classes of the arguments.
ArgClasses(g, n) == {Find(g, n.kids[k]) : k \in DOMAIN n.kids}

\* What a node costs, by the costs that classes have so far.
Charge(g, model, free, costs, n) ==
  NodeCost(model, n, [k \in DOMAIN n.kids |->
    LET c == Find(g, n.kids[k]) IN IF c \in free THEN 0 ELSE costs[c]])

\* The nodes of a class whose arguments have a cost.
Ready(g, free, costs, c) == {n \in g.nodes[c] : ArgClasses(g, n) \subseteq free \cup DOMAIN costs}

----------------------------------------------------------------------------
(* solve.                                                                   *)

CostsOf(best) == [c \in DOMAIN best |-> best[c].cost]

\* The cheapest node of a class.
Offers(g, model, free, costs, c) ==
  LET price(n) == Charge(g, model, free, costs, n) IN
  {[node |-> n, cost |-> price(n)] :
     n \in {m \in Ready(g, free, costs, c) : \A o \in Ready(g, free, costs, c) : price(m) <= price(o)}}

(* Mutant of Improves: the first cost a class gets stands. *)
ImprovesOnce(best, c, o) == c \notin DOMAIN best

Improves(best, c, o) == c \in DOMAIN best => o.cost < best[c].cost

Visited(g, model, free, best, c) ==
  LET offers == Offers(g, model, free, CostsOf(best), c)
      o      == CHOOSE o \in offers : TRUE
  IN  IF offers # {} /\ Improves(best, c, o)
      THEN [d \in DOMAIN best \cup {c} |-> IF d = c THEN o ELSE best[d]] ELSE best

\* All classes in turn.
Swept(g, model, free, best) ==
  LET order == Increasing(Classes(g))
      after[k \in 0 .. Len(order)] ==
        IF k = 0 THEN best ELSE Visited(g, model, free, after[k - 1], order[k])
  IN  after[Len(order)]

\* Until nothing moves: no more sweeps are needed than there are classes.
Selection(g, model, free) ==
  LET enough == Cardinality(Classes(g))
      sweep[n \in 0 .. enough + 1] ==
        IF n = 0 THEN [c \in {} |-> None] ELSE Swept(g, model, free, sweep[n - 1])
  IN  sweep[CHOOSE n \in 0 .. enough : sweep[n + 1] = sweep[n]]

----------------------------------------------------------------------------
(* build_into and what a term costs.                                        *)

\* The classes of the term selected below one, or {} if it never ends.
Further(g, best, from) == from \cup UNION {ArgClasses(g, best[c].node) : c \in from \cap DOMAIN best}

Materialized(g, best, root) ==
  LET enough == Cardinality(Classes(g))
      reach[n \in 0 .. enough] ==
        IF n = 0 THEN {Find(g, root)} ELSE Further(g, best, reach[n - 1])
  IN  reach[enough]

Buildable(g, best, built) == {c \in DOMAIN best : ArgClasses(g, best[c].node) \subseteq built}

Grounded(g, best) ==
  LET enough == Cardinality(DOMAIN best)
      built[n \in 0 .. enough] == IF n = 0 THEN {} ELSE Buildable(g, best, built[n - 1])
  IN  built[enough]

\* build_into gives up on a class that is on the stack or has no selection.
CanBuild(g, best, root) == Find(g, root) \in Grounded(g, best)

\* dag_cost: every class the term is built of is paid for once.
DagCost(g, model, best, root) ==
  LET classes == Increasing(Materialized(g, best, root)) IN
  SumOver([k \in DOMAIN classes |->
    NodeCost(model, best[classes[k]].node, [j \in DOMAIN best[classes[k]].node.kids |-> 0])])

\* tree_cost: every occurrence is.
TreeCost(g, model, best, root) ==
  LET cost[c \in DOMAIN best] ==
        NodeCost(model, best[c].node,
          [k \in DOMAIN best[c].node.kids |-> cost[Find(g, best[c].node.kids[k])]])
  IN  cost[Find(g, root)]

----------------------------------------------------------------------------
(* DagExtractor.                                                            *)

Freed(g, best, root) == Materialized(g, best, root) \ {Find(g, root)}

(* Mutant of Usable: a cycle in what was chosen is not looked for. *)
UsableUnchecked(g, best, root) == Find(g, root) \in DOMAIN best

Usable(g, best, root) == CanBuild(g, best, root)

\* A round that does not pay is the last: the rounds after it would do the same.
Refined(g, model, best, root) ==
  LET next == Selection(g, model, Freed(g, best, root))
  IN  IF Usable(g, next, root) /\ DagCost(g, model, next, root) < DagCost(g, model, best, root)
      THEN next ELSE best

SharedSelection(g, model, root) ==
  LET refine[r \in 0 .. DagRounds] ==
        IF r = 0 THEN Selection(g, model, {}) ELSE Refined(g, model, refine[r - 1], root)
  IN  refine[DagRounds]

----------------------------------------------------------------------------
(* What extraction is for.                                                  *)

\* The least that is charged in each class, for terms one level deeper.
Deeper(g, model, free, costs) ==
  LET charged(c) == {Charge(g, model, free, costs, n) : n \in Ready(g, free, costs, c)}
  IN  [c \in {d \in Classes(g) : Ready(g, free, costs, d) # {}} |->
         CHOOSE x \in charged(c) : \A y \in charged(c) : x <= y]

\* The cost of the cheapest term of each class that is at most so deep.
CheapestWithin(g, model, free, depth) ==
  LET least[d \in 0 .. depth] ==
        IF d = 0 THEN [c \in {} |-> 0] ELSE Deeper(g, model, free, least[d - 1])
  IN  least[depth]

\* A cheapest term repeats no class on the way down.
Cheapest(g, model) == CheapestWithin(g, model, {}, Cardinality(Classes(g)))
===============================================================================
