----------------------------- MODULE Explanations -----------------------------
(***************************************************************************)
(* Why two terms are equal (explain of src/egraph.rs, src/explain.rs): the    *)
(* chain of recorded unions that connects them, each congruence on it taken    *)
(* apart into why its arguments are equal, down to a depth and never through    *)
(* an equality that is being explained already.                               *)
(***************************************************************************)
EXTENDS EGraph

CONSTANT MaxDepth     \* MAX_EXPLAIN_DEPTH

ASSUME DepthIsPositive == MaxDepth \in Nat \ {0}

Edge(g, e) == ToSet(g.history[e].ids)
Across(g, e, i) ==
  LET ids == g.history[e].ids IN IF ids[1] = i THEN ids[2] ELSE ids[1]

\* One step further, to the ids not reached yet: of each, the way there.  The
\* unions that were recorded make a forest, so there is one.
Explored(g, ways) ==
  LET hops    == {x \in (DOMAIN ways) \X (DOMAIN g.history) :
                    x[1] \in Edge(g, x[2]) /\ Across(g, x[2], x[1]) \notin DOMAIN ways}
      next    == {Across(g, x[2], x[1]) : x \in hops}
      last(j) == CHOOSE x \in hops : Across(g, x[2], x[1]) = j
  IN  [j \in DOMAIN ways \cup next |->
         IF j \in DOMAIN ways THEN ways[j]
         ELSE Append(ways[last(j)[1]], [from |-> last(j)[1], to |-> j, edge |-> last(j)[2]])]

\* Breadth first, for as many rounds as there are ids to reach.
Ways(g, a) ==
  LET enough == Cardinality({i \in Id : Find(g, i) = Find(g, a)})
      after[n \in 0 .. enough] ==
        IF n = 0 THEN [i \in {a} |-> <<>>] ELSE Explored(g, after[n - 1])
  IN  after[enough]

Connected(g, a, b) == b \in DOMAIN Ways(g, a)
Path(g, a, b) == Ways(g, a)[b]

Agrees(g, pairs) == \A k \in DOMAIN pairs : Find(g, pairs[k][1]) = Find(g, pairs[k][2])

\* pair_arguments: as they are stored if that agrees, and else the other way.
PairArguments(g, left_, right) ==
  LET straight == [k \in DOMAIN left_.kids |-> <<left_.kids[k], right.kids[k]>>]
      swapped  == [k \in DOMAIN left_.kids |-> <<left_.kids[k], right.kids[3 - k]>>]
  IN  IF left_.op \in Commutative /\ ~ Agrees(g, straight) /\ Agrees(g, swapped)
      THEN swapped ELSE straight

\* Why the arguments are equal, by what explains at one depth less.
Because(g, why, within, depth, stack) ==
  LET pairs  == PairArguments(g, why.left, why.right)
      sub(k) == within[<<pairs[k][1], pairs[k][2], depth - 1, stack>>]
  IN  IF why.by # "congruence" THEN {}
      ELSE {[arg |-> k, ends |-> pairs[k], steps |-> sub(k)] :
              k \in {j \in DOMAIN pairs : pairs[j][1] # pairs[j][2] /\ sub(j) # <<>>}}

\* A derivation is a sequence of steps; the empty one is cut off, or says that
\* the two are the same term.
Derivation(g, within, a, b, depth, stack) ==
  LET path  == Path(g, a, b)
      why(k) == g.history[path[k].edge].why
  IN  IF a = b \/ depth = 0 \/ {a, b} \in stack \/ ~ Connected(g, a, b) THEN <<>>
      ELSE [k \in DOMAIN path |->
              [from |-> path[k].from, to |-> path[k].to, why |-> why(k),
               because |-> Because(g, why(k), within, depth, stack \cup {{a, b}})]]

Explain(g, a, b) ==
  LET within[q \in Id \X Id \X (0 .. MaxDepth) \X SUBSET SUBSET Id] ==
        Derivation(g, within, q[1], q[2], q[3], q[4])
  IN  Derivation(g, within, a, b, MaxDepth, {})

----------------------------------------------------------------------------
(* What an explanation has to be.                                           *)

\* Its steps lead from the one to the other, each across a recorded union.
Leads(g, steps, a, b) ==
  IF steps = <<>> THEN a = b
  ELSE /\ steps[1].from = a /\ steps[Len(steps)].to = b
       /\ \A k \in 2 .. Len(steps) : steps[k].from = steps[k - 1].to
       /\ \A k \in DOMAIN steps : \E e \in DOMAIN g.history :
            /\ Edge(g, e) = {steps[k].from, steps[k].to}
            /\ g.history[e].why = steps[k].why
===============================================================================
