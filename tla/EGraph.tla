-------------------------------- MODULE EGraph --------------------------------
(***************************************************************************)
(* The e-graph of src/egraph.rs with the constant folding of                *)
(* src/analysis.rs.  A caller adds nodes and declares classes equal; both   *)
(* leave the graph dirty, and rebuild restores congruence, recomputes the   *)
(* facts and reindexes.  rebuild is one call of the code: nothing else runs *)
(* between its steps, which are taken apart here because parent lists come   *)
(* out of a hash map in no particular order, and because what has to hold    *)
(* wherever it stops for want of fuel or rounds is easiest to say of a step. *)
(* Of the two halves of a fact the constant is modelled and the interval,    *)
(* which folds nothing, is not.                                              *)
(***************************************************************************)
EXTENDS Naturals, Sequences, FiniteSets, SequencesExt, Ordered

CONSTANTS
  Var,            \* variables
  Number,         \* the finite values, each also the operator of its literal
  Literal,        \* the literals a caller writes
  Unary,          \* operators of one argument
  Commutative,    \* operators of two arguments whose order is not kept
  None,           \* no constant is known, or the value is no finite number
  Env,            \* the value of each variable
  Eval(_, _),     \* an operator on the values of its arguments
  CallerIds,      \* bound: no new class is asked for beyond this many
  FuelPerClass,   \* ANALYSIS_POPS_PER_CLASS
  FuelFloor,      \* the floor it is added to
  MaxRounds       \* MAX_REBUILD_ROUNDS

Known == Number \cup {None}

\* An operator of one table is in no other.
ASSUME OperatorsDiffer ==
  /\ Commutative \cap (Var \cup Number \cup Unary) = {}
  /\ None \notin Number

ASSUME BoundsAreFinite ==
  /\ IsFiniteSet(Number)
  /\ CallerIds \in Nat \ {0} /\ FuelPerClass \in Nat /\ FuelFloor \in Nat /\ MaxRounds \in Nat

\* Op::is_commutative lists the operators whose order cannot be told apart.
ASSUME EvalIsAFunction ==
  /\ \A op \in Unary : \A x \in Known : Eval(op, <<x>>) \in Known
  /\ \A op \in Commutative : \A x, y \in Known :
       /\ Eval(op, <<x, y>>) \in Known
       /\ Eval(op, <<x, y>>) = Eval(op, <<y, x>>)

ASSUME EnvGivesNumbers == Env \in [Var -> Number]

\* Folding adds the literal of a number once, and needs room for each.
MaxIds == CallerIds + Cardinality(Number)
Id == 0 .. MaxIds - 1

Node ==
  [op : Var \cup Number, kids : {<<>>}]
    \cup [op : Unary, kids : {<<i>> : i \in Id}]
    \cup [op : Commutative, kids : Id \X Id]

VARIABLES
  graph,      \* the EGraph
  phase,      \* "clean" or "dirty" between calls, else where rebuild is
  rounds,     \* of the rebuild under way
  todo,       \* classes restore_congruence has yet to repair
  repairing,  \* the class repair works on
  left,       \* its parents not looked at yet
  seen,       \* its parents that were: canonical form, owner and stored form
  queue,      \* classes propagate_analysis has yet to recompute, a stack
  forced,     \* those that tell their parents even if they do not move
  changed,    \* those whose fact moved
  fuel,
  term,       \* the node each id was created for
  value,      \* what that node is worth under Env
  curtailed   \* fuel or rounds have once run out

rebuildVars == <<rounds, todo, repairing, left, seen, queue, forced, changed, fuel>>
ghosts == <<term, value, curtailed>>
vars == <<graph, phase, rebuildVars, ghosts>>

----------------------------------------------------------------------------
(* The graph and what the calls make of it.                                 *)

Find(g, i) == g.leader[i]
Made(g) == 0 .. g.made - 1
Classes(g) == {i \in Made(g) : g.leader[i] = i}
Members(g, c) == {i \in Made(g) : g.leader[i] = c}

Normalized(node) ==
  IF node.op \in Commutative /\ node.kids[2] < node.kids[1]
  THEN [node EXCEPT !.kids = <<node.kids[2], node.kids[1]>>]
  ELSE node

Canonical(g, node) ==
  Normalized([node EXCEPT !.kids = [k \in DOMAIN node.kids |-> Find(g, node.kids[k])]])

Owners(g, node) == {e[2] : e \in {m \in g.memo : m[1] = node}}

(* Mutant of Fact: an unknown argument does not stop the fold. *)
FactOfUnknown(g, node) ==
  IF node.op \in Number THEN node.op
  ELSE IF node.op \in Var THEN None
  ELSE Eval(node.op, [k \in DOMAIN node.kids |-> g.fact[Find(g, node.kids[k])]])

\* Analysis::make of MathAnalysis.
Fact(g, node) ==
  IF node.op \in Number THEN node.op
  ELSE IF \/ node.op \in Var
          \/ \E k \in DOMAIN node.kids : g.fact[Find(g, node.kids[k])] = None
  THEN None
  ELSE Eval(node.op, [k \in DOMAIN node.kids |-> g.fact[Find(g, node.kids[k])]])

\* Analysis::merge.
Meet(x, y) == IF x = None THEN y ELSE x

\* A class's fact from its nodes alone.  They never disagree on a constant.
Recomputed(g, c) ==
  LET facts == {Fact(g, Canonical(g, n)) : n \in g.nodes[c]} \ {None}
  IN  IF facts = {} THEN None ELSE CHOOSE f \in facts : TRUE

\* add: the class a node that is already canonical lands in, and the graph.
LandsIn(g, node) ==
  IF Owners(g, node) = {} THEN g.made ELSE Find(g, CHOOSE o \in Owners(g, node) : TRUE)

Added(g, node) ==
  IF Owners(g, node) # {} THEN g
  ELSE LET id == g.made IN
       [g EXCEPT
          !.made    = id + 1,
          !.nodes   = [g.nodes EXCEPT ![id] = {node}],
          !.fact    = [g.fact EXCEPT ![id] = Fact(g, node)],
          !.uses    = [i \in Id |-> IF \E k \in DOMAIN node.kids : Find(g, node.kids[k]) = i
                                    THEN g.uses[i] \cup {<<node, id>>} ELSE g.uses[i]],
          !.memo    = g.memo \cup {<<node, id>>},
          !.learned = g.learned \cup {id}]

\* union: the larger class survives, and its fact is looked at for a change.
Survivor(g, a, b) ==
  IF Cardinality(Members(g, Find(g, a))) < Cardinality(Members(g, Find(g, b)))
  THEN Find(g, b) ELSE Find(g, a)

Absorbed(g, a, b) ==
  IF Survivor(g, a, b) = Find(g, a) THEN Find(g, b) ELSE Find(g, a)

(* Mutant of Recorded: the ids are looked up after the merge. *)
RecordedLate(g, a, b, why) == [ids |-> <<Survivor(g, a, b), Survivor(g, a, b)>>, why |-> why]

\* The ids as they were before the merge: a path through these is a derivation.
Recorded(g, a, b, why) == [ids |-> <<Find(g, a), Find(g, b)>>, why |-> why]

United(g, a, b, why) ==
  LET root == Survivor(g, a, b)
      gone == Absorbed(g, a, b)
      fact == Meet(g.fact[root], g.fact[gone])
  IN  IF root = gone THEN g
      ELSE [g EXCEPT
              !.leader  = [i \in Id |-> IF g.leader[i] = gone THEN root ELSE g.leader[i]],
              !.nodes   = [g.nodes EXCEPT ![root] = @ \cup g.nodes[gone], ![gone] = {}],
              !.uses    = [g.uses EXCEPT ![root] = @ \cup g.uses[gone], ![gone] = {}],
              !.fact    = [g.fact EXCEPT ![root] = fact, ![gone] = None],
              !.pending = g.pending \cup {root},
              !.learned = IF fact = g.fact[root] THEN g.learned ELSE g.learned \cup {root},
              !.history = Append(g.history, Recorded(g, a, b, why))]

\* reindex: nodes, hashcons and parent lists from scratch.  by_op, which only
\* the matcher reads, is left out.
Reindexed(g) ==
  LET nodes == [c \in Id |-> {Canonical(g, n) : n \in g.nodes[c]}]
      held  == UNION {{<<n, c>> : n \in nodes[c]} : c \in Classes(g)}
  IN  [g EXCEPT
         !.nodes = nodes,
         !.memo  = {e \in held : \A f \in held : f[1] = e[1] => f[2] <= e[2]},
         !.uses  = [c \in Id |-> {e \in held :
                      \E k \in DOMAIN e[1].kids : Find(g, e[1].kids[k]) = c}]]

EmptyGraph ==
  [made |-> 0, leader |-> [i \in Id |-> i], nodes |-> [i \in Id |-> {}],
   uses |-> [i \in Id |-> {}], fact |-> [i \in Id |-> None], memo |-> {},
   pending |-> {}, learned |-> {}, history |-> <<>>]

----------------------------------------------------------------------------
(* The calls.                                                               *)

Asserted == [by |-> "asserted"]
Folded == [by |-> "fold"]
Congruence(l, r) == [by |-> "congruence", left |-> l, right |-> r]

Between == phase \in {"clean", "dirty"}

\* What a node is worth to who knows the value of each id.
Worth(v, node) ==
  IF node.op \in Number THEN node.op
  ELSE IF node.op \in Var THEN Env[node.op]
  ELSE Eval(node.op, [k \in DOMAIN node.kids |-> v[node.kids[k]]])

\* term and value of the class that node was just given, if it was.
Remembers(node) ==
  IF graph'.made = graph.made
  THEN UNCHANGED <<term, value>>
  ELSE /\ term' = [term EXCEPT ![graph.made] = node]
       /\ value' = [value EXCEPT ![graph.made] = Worth(value, node)]

Init ==
  /\ graph = EmptyGraph
  /\ phase = "clean"
  /\ rounds = 0 /\ todo = {} /\ repairing = 0 /\ left = {} /\ seen = {}
  /\ queue = <<>> /\ forced = {} /\ changed = {} /\ fuel = 0
  /\ term = [i \in Id |-> <<>>]
  /\ value = [i \in Id |-> None]
  /\ curtailed = FALSE

\* add, of a node over canonical ids: any other is canonicalized to one first.
Add(node) ==
  /\ Between
  /\ \A k \in DOMAIN node.kids : node.kids[k] \in Classes(graph)
  /\ node = Normalized(node)
  /\ node.op \in Number => node.op \in Literal
  /\ Owners(graph, node) = {} => graph.made < CallerIds
  /\ graph' = Added(graph, node)
  /\ phase' = IF Owners(graph, node) = {} THEN "dirty" ELSE phase
  /\ Remembers(node)
  /\ UNCHANGED <<rebuildVars, curtailed>>

\* union.  Who calls it, a rule or the user, is right that the two are equal.
Union(a, b) ==
  /\ Between
  /\ value[a] = value[b]
  /\ graph' = United(graph, a, b, Asserted)
  /\ phase' = IF Find(graph, a) = Find(graph, b) THEN phase ELSE "dirty"
  /\ UNCHANGED <<rebuildVars, ghosts>>

Rebuild ==
  /\ Between
  /\ phase' = "congruence"
  /\ rounds' = 0
  /\ UNCHANGED <<graph, todo, repairing, left, seen, queue, forced, changed, fuel, ghosts>>

----------------------------------------------------------------------------
(* restore_congruence and repair.                                           *)

(* Mutant of TakePending: the worklist is read and not taken. *)
TakePendingKept ==
  /\ phase = "congruence" /\ todo = {} /\ graph.pending # {}
  /\ todo' = {Find(graph, i) : i \in graph.pending}
  /\ UNCHANGED <<graph, phase, rounds, repairing, left, seen, queue, forced, changed, fuel,
                 ghosts>>

TakePending ==
  /\ phase = "congruence" /\ todo = {} /\ graph.pending # {}
  /\ todo' = {Find(graph, i) : i \in graph.pending}
  /\ graph' = [graph EXCEPT !.pending = {}]
  /\ UNCHANGED <<phase, rounds, repairing, left, seen, queue, forced, changed, fuel, ghosts>>

\* The parents are taken out and their hashcons keys, stale now, dropped.
BeginRepair(i) ==
  LET id == Find(graph, i) IN
  /\ phase = "congruence"
  /\ i \in todo /\ \A j \in todo : i <= j
  /\ phase' = "repair"
  /\ todo' = todo \ {i}
  /\ repairing' = id
  /\ left' = graph.uses[id]
  /\ seen' = {}
  /\ graph' = [graph EXCEPT
       !.uses = [graph.uses EXCEPT ![id] = {}],
       !.memo = {e \in graph.memo : \A p \in graph.uses[id] : p[1] # e[1]}]
  /\ UNCHANGED <<rounds, queue, forced, changed, fuel, ghosts>>

\* memo.insert, which overwrites.
Keyed(g, node, id) ==
  [g EXCEPT !.memo = {e \in g.memo : e[1] # node} \cup {<<node, id>>}]

NewParent(node, owner, stored) ==
  /\ \A s \in seen : s.node # node
  /\ seen' = seen \cup {[node |-> node, owner |-> owner, stored |-> stored]}
  /\ graph' = Keyed(graph, node, owner)

CongruentParent(node, owner, stored) ==
  \E s \in seen :
    LET g == United(graph, s.owner, owner, Congruence(s.stored, stored)) IN
    /\ s.node = node
    /\ seen' = (seen \ {s}) \cup {[s EXCEPT !.owner = Find(g, owner)]}
    /\ graph' = Keyed(g, node, Find(g, owner))

RepairParent(p) ==
  LET node  == Canonical(graph, p[1])
      owner == Find(graph, p[2])
  IN  /\ phase = "repair"
      /\ p \in left
      /\ left' = left \ {p}
      /\ \/ NewParent(node, owner, p[1])
         \/ CongruentParent(node, owner, p[1])
      /\ UNCHANGED <<phase, rounds, todo, repairing, queue, forced, changed, fuel, ghosts>>

(* Mutant of EndRepair: the parents that were taken out are not put back. *)
EndRepairWithout ==
  /\ phase = "repair" /\ left = {}
  /\ phase' = "congruence"
  /\ seen' = {} /\ repairing' = 0
  /\ UNCHANGED <<graph, rounds, todo, left, queue, forced, changed, fuel, ghosts>>

EndRepair ==
  LET root == Find(graph, repairing) IN
  /\ phase = "repair" /\ left = {}
  /\ phase' = "congruence"
  /\ graph' = [graph EXCEPT !.uses =
       [graph.uses EXCEPT ![root] = @ \cup {<<s.node, s.owner>> : s \in seen}]]
  /\ seen' = {} /\ repairing' = 0
  /\ UNCHANGED <<rounds, todo, left, queue, forced, changed, fuel, ghosts>>

----------------------------------------------------------------------------
(* propagate_analysis, MathAnalysis::modify and the rounds of rebuild.      *)

Congruent == phase = "congruence" /\ todo = {} /\ graph.pending = {}

BeginFacts ==
  LET seeds == {Find(graph, i) : i \in graph.learned} IN
  /\ Congruent /\ rounds <= MaxRounds
  /\ phase' = "facts"
  /\ graph' = [graph EXCEPT !.learned = {}]
  /\ queue' = Increasing(seeds)
  /\ forced' = seeds
  /\ changed' = {}
  /\ fuel' = FuelPerClass * Cardinality(Classes(graph)) + FuelFloor
  /\ UNCHANGED <<rounds, todo, repairing, left, seen, ghosts>>

FuelLeft == fuel > 0

\* A class that moved or was a seed tells its parents, those not queued yet.
Tells(id, new) == new # graph.fact[id] \/ id \in forced
Untold == {Find(graph, p[2]) : p \in graph.uses[Last(queue)]} \ ToSet(queue)

\* The class on top of the stack is recomputed, and those it tells are put there.
\* No union happens here, so the queue stays canonical.
PopClass(order) ==
  LET id  == Last(queue)
      new == Recomputed(graph, id)
  IN  /\ phase = "facts" /\ queue # <<>> /\ FuelLeft
      /\ fuel' = fuel - 1
      /\ graph' = [graph EXCEPT !.fact = [graph.fact EXCEPT ![id] = new]]
      /\ forced' = forced \ {id}
      /\ IF Tells(id, new)
         THEN changed' = changed \cup {id} /\ queue' = Front(queue) \o order
         ELSE UNCHANGED changed /\ queue' = Front(queue)
      /\ UNCHANGED <<phase, rounds, todo, repairing, left, seen, ghosts>>

EndFacts ==
  /\ phase = "facts" /\ (queue = <<>> \/ fuel = 0)
  /\ phase' = "modify"
  /\ curtailed' = (curtailed \/ queue # <<>>)
  /\ queue' = <<>> /\ forced' = {} /\ fuel' = 0
  /\ UNCHANGED <<graph, rounds, todo, repairing, left, seen, changed, term, value>>

LiteralNode(c) == [op |-> c, kids |-> <<>>]

\* modify: a class with a constant is joined with its literal.  The bound on ids
\* leaves room for each, so that HasRoom never holds a rebuild up.
HasRoom(g, node) == Owners(g, node) = {} => g.made < MaxIds

Modify(id) ==
  LET c     == graph.fact[Find(graph, id)]
      folds == c # None /\ LiteralNode(c) \notin graph.nodes[Find(graph, id)]
  IN  /\ phase = "modify"
      /\ id \in changed /\ \A j \in changed : id <= j
      /\ folds => HasRoom(graph, LiteralNode(c))
      /\ changed' = changed \ {id}
      /\ graph' = IF folds
                  THEN United(Added(graph, LiteralNode(c)), id,
                              LandsIn(graph, LiteralNode(c)), Folded)
                  ELSE graph
      /\ Remembers(LiteralNode(c))
      /\ UNCHANGED <<phase, rounds, todo, repairing, left, seen, queue, forced, fuel,
                     curtailed>>

Pending(g) == g.pending # {} \/ g.learned # {}

\* Another round, or the last: its facts are given up, its congruence is not.
NextRound ==
  /\ phase = "modify" /\ changed = {} /\ Pending(graph)
  /\ phase' = "congruence"
  /\ rounds' = rounds + 1
  /\ graph' = IF rounds + 1 > MaxRounds THEN [graph EXCEPT !.learned = {}] ELSE graph
  /\ curtailed' = (curtailed \/ (rounds + 1 > MaxRounds /\ graph.learned # {}))
  /\ UNCHANGED <<todo, repairing, left, seen, queue, forced, changed, fuel, term, value>>

Finish ==
  /\ \/ phase = "modify" /\ changed = {} /\ ~ Pending(graph)
     \/ Congruent /\ rounds > MaxRounds
  /\ phase' = "clean"
  /\ rounds' = 0
  /\ graph' = Reindexed(graph)
  /\ UNCHANGED <<todo, repairing, left, seen, queue, forced, changed, fuel, ghosts>>

RebuildStep ==
  \/ TakePending
  \/ \E i \in todo : BeginRepair(i)
  \/ \E p \in left : RepairParent(p)
  \/ EndRepair
  \/ BeginFacts
  \/ queue # <<>> /\ \E order \in SetToSeqs(Untold) : PopClass(order)
  \/ EndFacts
  \/ \E i \in changed : Modify(i)
  \/ NextRound
  \/ Finish

\* Of two classes of different size the order of the arguments is without
\* effect but in the record, where a pair stands for a set.
InOrder(a, b) ==
  a < b \/ Cardinality(Members(graph, a)) = Cardinality(Members(graph, b))

Next ==
  \/ \E node \in Node : Add(node)
  \/ \E a, b \in Classes(graph) : InOrder(a, b) /\ Union(a, b)
  \/ Rebuild
  \/ RebuildStep

Spec == Init /\ [][Next]_vars

----------------------------------------------------------------------------
(* What must hold of it.                                                    *)

Why ==
  {Asserted, Folded} \cup [by : {"congruence"}, left : Node, right : Node]
    \cup [by : {"rule"}, rule : Nat]

Graph ==
  [made : 0 .. MaxIds, leader : [Id -> Id], nodes : [Id -> SUBSET Node],
   uses : [Id -> SUBSET (Node \X Id)], fact : [Id -> Known],
   memo : SUBSET (Node \X Id), pending : SUBSET Id, learned : SUBSET Id,
   history : Seq([ids : Id \X Id, why : Why])]

TypeOK ==
  /\ graph \in Graph
  /\ phase \in {"clean", "dirty", "congruence", "repair", "facts", "modify"}
  /\ rounds \in 0 .. MaxRounds + 1
  /\ todo \in SUBSET Id /\ forced \in SUBSET Id /\ changed \in SUBSET Id
  /\ repairing \in Id
  /\ left \subseteq Node \X Id
  /\ seen \subseteq [node : Node, owner : Id, stored : Node]
  /\ queue \in Seq(Id)
  /\ fuel \in Nat
  /\ term \in [Id -> Node \cup {<<>>}]
  /\ value \in [Id -> Known]
  /\ curtailed \in BOOLEAN

\* After rebuild two ids are one class whenever their terms have the same
\* operator over equal arguments, in either order of a commutative one,
\* whatever was added and declared equal in between, and every class is found
\* by each of its terms (restore_congruence, repair, reindex; the invariants of
\* egraph.rs:4-11 that check_invariants asserts).
CongruenceRestored ==
  phase = "clean" =>
    \A i, j \in Made(graph) :
      /\ Canonical(graph, term[i]) = Canonical(graph, term[j]) => Find(graph, i) = Find(graph, j)
      /\ Owners(graph, Canonical(graph, term[i])) = {Find(graph, i)}

\* A constant the graph believes of a class is what every term of it is worth,
\* in the middle of a rebuild too and wherever fuel or rounds cut it short
\* (propagate_analysis; egraph.rs:527-530 "it stays sound").
FactsAreSound ==
  \A i \in Made(graph) :
    LET fact == graph.fact[Find(graph, i)] IN fact # None => fact = value[i]

\* rebuild returns: each of its rounds ends, and there are finitely many.
RebuildEnds == phase = "congruence" ~> phase = "clean"
===============================================================================
