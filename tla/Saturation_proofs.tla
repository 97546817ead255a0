--------------------------- MODULE Saturation_proofs ---------------------------
(***************************************************************************)
(* What is proved of the saturation loop, for any rules that are identities, *)
(* any limits and any bounds: a search finds what a pattern means, no pass    *)
(* joins terms of different worth, the node limit is kept, and a run that     *)
(* calls itself saturated is closed under its rules.  And of the term taken   *)
(* out in the end: none in its class is cheaper, and sharing never makes it   *)
(* dearer.                                                                   *)
(***************************************************************************)
EXTENDS Results, Pattern_proofs

----------------------------------------------------------------------------
(* What a rebuild does to the nodes and to the values.                      *)

LEMMA UnitedIsFinite ==
  ASSUME NEW g \in Graph, FiniteNodes(g), NEW a \in Id, NEW b \in Id, NEW why
  PROVE  FiniteNodes(United(g, a, b, why))
  <1> DEFINE kept == Survivor(g, a, b)
             gone == Absorbed(g, a, b)
             h == United(g, a, b, why)
  <1>1. g.nodes \in [Id -> SUBSET Node] /\ kept \in Id /\ gone \in Id
    BY DEF Graph, Survivor, Absorbed, Find
  <1>2. CASE kept = gone
    BY <1>2 DEF United
  <1>3. CASE kept # gone
    <2>1. h.nodes = [g.nodes EXCEPT ![kept] = @ \cup g.nodes[gone], ![gone] = {}]
      BY <1>3 DEF United, Graph
    <2> HIDE DEF h, kept, gone
    <2>2. \A c \in Id : \/ h.nodes[c] = g.nodes[c] \/ h.nodes[c] = {}
                        \/ h.nodes[c] = g.nodes[kept] \cup g.nodes[gone]
      BY <1>1, <2>1
    <2>3. IsFiniteSet({}) /\ IsFiniteSet(g.nodes[kept] \cup g.nodes[gone])
      BY <1>1, FS_EmptySet, FS_Union DEF FiniteNodes
    <2>4. \A c \in Id : IsFiniteSet(h.nodes[c])
      BY <2>2, <2>3 DEF FiniteNodes
    <2> QED
      BY <2>4 DEF FiniteNodes, h
  <1> QED
    BY <1>2, <1>3

LEMMA AddedIsFinite ==
  ASSUME NEW g \in Graph, FiniteNodes(g), NEW n
  PROVE  FiniteNodes(Added(g, n))
  <1> DEFINE h == Added(g, n)
  <1>1. CASE Owners(g, n) # {}
    BY <1>1 DEF Added
  <1>2. CASE Owners(g, n) = {}
    <2>1. h.nodes = [g.nodes EXCEPT ![g.made] = {n}]
      BY <1>2 DEF Added, Graph
    <2>2. g.nodes \in [Id -> SUBSET Node]
      BY DEF Graph
    <2> HIDE DEF h
    <2>3. \A c \in Id : h.nodes[c] = g.nodes[c] \/ h.nodes[c] = {n}
      BY <2>1, <2>2
    <2>4. IsFiniteSet({n})
      BY FS_Singleton
    <2>5. \A c \in Id : IsFiniteSet(h.nodes[c])
      BY <2>3, <2>4 DEF FiniteNodes
    <2> QED
      BY <2>5 DEF FiniteNodes, h
  <1> QED
    BY <1>1, <1>2

LEMMA ReindexedIsFinite ==
  ASSUME NEW g \in Graph, FiniteNodes(g)
  PROVE  FiniteNodes(Reindexed(g))
  <1> SUFFICES ASSUME NEW c \in Id PROVE IsFiniteSet(Reindexed(g).nodes[c])
    BY DEF FiniteNodes
  <1> DEFINE S == g.nodes[c]
             T == {Canonical(g, n) : n \in S}
             f == [n \in S |-> Canonical(g, n)]
  <1>1. Reindexed(g).nodes[c] = T
    BY DEF Reindexed, Graph
  <1>2. f \in Surjection(S, T)
    BY DEF Surjection
  <1>3. IsFiniteSet(S)
    BY DEF FiniteNodes
  <1> HIDE DEF f, S, T
  <1>4. IsFiniteSet(T)
    BY <1>2, <1>3, FS_Surjection
  <1> QED
    BY <1>1, <1>4

\* A step that keeps the ids that were made, and the value of each; the new ones
\* are numbers, those that were folded.
GoesOnWith(g, h, v, w) ==
  /\ FiniteNodes(h)
  /\ \A i \in Made(g) : i \in Made(h) /\ w[i] = v[i]
  /\ \A i \in Made(h) \ Made(g) : w[i] \in Number

LEMMA SameGoesOn ==
  ASSUME FiniteNodes(graph), graph' \in Graph, graph'.nodes = graph.nodes,
         graph'.made = graph.made, UNCHANGED value
  PROVE  GoesOnWith(graph, graph', value, value')
  BY DEF GoesOnWith, FiniteNodes, Made

LEMMA RepairParentGoesOn ==
  ASSUME IInv, FiniteNodes(graph), NEW p \in left, RepairParent(p)
  PROVE  GoesOnWith(graph, graph', value, value')
  <1> DEFINE node == Canonical(graph, p[1])
             owner == Find(graph, p[2])
  <1>1. /\ graph \in Graph /\ left \subseteq Node \X Id
        /\ seen \subseteq [node : Node, owner : Id, stored : Node]
        /\ NewParent(node, owner, p[1]) \/ CongruentParent(node, owner, p[1])
        /\ value' = value
    BY DEF RepairParent, IInv, TypeOK, ghosts
  <1>2. owner \in Id
    BY <1>1 DEF Find, Graph
  <1> HIDE DEF node, owner
  <1>3. CASE NewParent(node, owner, p[1])
    <2>1. graph' = Keyed(graph, node, owner)
      BY <1>3 DEF NewParent
    <2>2. graph'.nodes = graph.nodes /\ graph'.made = graph.made
      BY <1>1, <2>1 DEF Keyed, Graph
    <2> QED
      BY <1>1, <2>2 DEF GoesOnWith, FiniteNodes, Made
  <1>4. CASE CongruentParent(node, owner, p[1])
    <2>1. PICK s \in seen :
            graph' = Keyed(United(graph, s.owner, owner, Congruence(s.stored, p[1])), node,
                       Find(United(graph, s.owner, owner, Congruence(s.stored, p[1])), owner))
      BY <1>4 DEF CongruentParent
    <2> DEFINE g == United(graph, s.owner, owner, Congruence(s.stored, p[1]))
    <2>2. s.owner \in Id
      BY <1>1
    <2>3. FiniteNodes(g)
      BY <1>1, <1>2, <2>2, UnitedIsFinite
    <2>4. g.made = graph.made
      BY <1>1 DEF United, Graph
    <2>5. graph' = [g EXCEPT !.memo = {e \in g.memo : e[1] # node} \cup {<<node, Find(g, owner)>>}]
      BY <2>1 DEF Keyed
    <2>6. graph'.nodes = g.nodes /\ graph'.made = g.made
      <3>1. g = [made |-> g.made, leader |-> g.leader, nodes |-> g.nodes, uses |-> g.uses,
                 fact |-> g.fact, memo |-> g.memo, pending |-> g.pending,
                 learned |-> g.learned, history |-> g.history]
        BY <1>1 DEF United, Graph
      <3> HIDE DEF g
      <3> QED
        BY <2>5, <3>1
    <2> HIDE DEF g
    <2> QED
      BY <1>1, <2>3, <2>4, <2>6 DEF GoesOnWith, FiniteNodes, Made
  <1> QED
    BY <1>1, <1>3, <1>4

LEMMA ModifyGoesOn ==
  ASSUME IInv, FiniteNodes(graph), NEW id \in changed, Modify(id)
  PROVE  GoesOnWith(graph, graph', value, value')
  <1> DEFINE c == graph.fact[Find(graph, id)]
             lit == LiteralNode(c)
             folds == c # None /\ lit \notin graph.nodes[Find(graph, id)]
             g == Added(graph, lit)
             lands == LandsIn(graph, lit)
  <1>1. /\ graph \in Graph /\ id \in Id /\ Sound(graph, value) /\ value \in [Id -> Known]
        /\ graph' = IF folds THEN United(g, id, lands, Folded) ELSE graph
        /\ folds => HasRoom(graph, lit)
        /\ Remembers(lit)
    BY DEF Modify, IInv, TypeOK
  <1>2. CASE ~ folds
    <2>1. graph' = graph
      BY <1>1, <1>2
    <2>2. UNCHANGED value
      BY <1>1, <2>1 DEF Remembers
    <2> HIDE DEF folds
    <2> QED
      BY <1>1, <2>1, <2>2, SameGoesOn
  <1>3. CASE folds
    <2>1. c \in Number
      BY <1>1, <1>3 DEF Graph, Known, Find
    <2>2. /\ lit \in Node /\ Worth(value, lit) = c
          /\ \A k \in DOMAIN lit.kids : lit.kids[k] \in Made(graph)
      BY <2>1 DEF LiteralNode, Node, Worth
    <2>3. graph' = United(g, id, lands, Folded) /\ HasRoom(graph, lit)
      BY <1>1, <1>3
    <2> HIDE DEF c, lit, folds
    <2>4. Sound(g, Grown(graph, value, lit)) /\ lands \in Made(g)
      BY <1>1, <2>2, <2>3, AddedIsSound
    <2>5. g \in Graph /\ lands \in Id
      BY <2>4, MadeIds DEF Sound
    <2>6. FiniteNodes(g)
      BY <1>1, AddedIsFinite
    <2> HIDE DEF g, lands
    <2>7. FiniteNodes(graph')
      BY <1>1, <2>3, <2>5, <2>6, UnitedIsFinite
    <2>8. graph'.made = g.made
      BY <2>3, <2>5 DEF United, Graph
    <2>9. CASE Owners(graph, lit) = {}
      <3>1. g.made = graph.made + 1 /\ graph.made \in Nat /\ graph.made \in Id
        BY <1>1, <2>3, <2>9, MaxIdsIsNat DEF g, Added, Graph, HasRoom, Id
      <3>2. value' = [value EXCEPT ![graph.made] = c]
        BY <1>1, <2>2, <2>8, <3>1 DEF Remembers
      <3>3. /\ \A i \in Made(graph) : i \in Made(graph') /\ i # graph.made /\ i \in Id
            /\ \A i \in Made(graph') \ Made(graph) : i = graph.made
        BY <1>1, <2>8, <3>1, MadeIds DEF Made
      <3>4. \A i \in Made(graph) : value'[i] = value[i]
        BY <1>1, <3>1, <3>2, <3>3
      <3>5. value'[graph.made] = c
        BY <1>1, <3>1, <3>2
      <3> QED
        BY <2>1, <2>7, <3>3, <3>4, <3>5 DEF GoesOnWith
    <2>10. CASE Owners(graph, lit) # {}
      <3>1. g.made = graph.made
        BY <2>10 DEF g, Added
      <3>2. UNCHANGED value
        BY <1>1, <2>8, <3>1 DEF Remembers
      <3> QED
        BY <2>7, <2>8, <3>1, <3>2 DEF GoesOnWith, Made
    <2> QED
      BY <2>9, <2>10
  <1> QED
    BY <1>2, <1>3

LEMMA RebuildGoesOn ==
  ASSUME IInv, IInv', FiniteNodes(graph), Rebuild \/ RebuildStep
  PROVE  GoesOnWith(graph, graph', value, value')
  <1>0. graph \in Graph /\ graph' \in Graph
    BY DEF IInv, TypeOK
  <1>1. CASE Rebuild
    BY <1>0, <1>1, SameGoesOn DEF Rebuild, ghosts
  <1>2. CASE TakePending
    <2>1. graph'.nodes = graph.nodes /\ graph'.made = graph.made /\ UNCHANGED value
      BY <1>0, <1>2 DEF TakePending, ghosts, Graph
    <2> QED
      BY <1>0, <2>1, SameGoesOn
  <1>3. ASSUME NEW i \in todo, BeginRepair(i) PROVE GoesOnWith(graph, graph', value, value')
    <2>1. graph'.nodes = graph.nodes /\ graph'.made = graph.made /\ UNCHANGED value
      BY <1>0, <1>3 DEF BeginRepair, ghosts, Graph
    <2> QED
      BY <1>0, <2>1, SameGoesOn
  <1>4. ASSUME NEW p \in left, RepairParent(p) PROVE GoesOnWith(graph, graph', value, value')
    BY <1>4, RepairParentGoesOn
  <1>5. CASE EndRepair
    <2>1. graph'.nodes = graph.nodes /\ graph'.made = graph.made /\ UNCHANGED value
      BY <1>0, <1>5 DEF EndRepair, ghosts, Graph
    <2> QED
      BY <1>0, <2>1, SameGoesOn
  <1>6. CASE BeginFacts
    <2>1. graph'.nodes = graph.nodes /\ graph'.made = graph.made /\ UNCHANGED value
      BY <1>0, <1>6 DEF BeginFacts, ghosts, Graph
    <2> QED
      BY <1>0, <2>1, SameGoesOn
  <1>7. ASSUME NEW order, PopClass(order) PROVE GoesOnWith(graph, graph', value, value')
    <2>1. graph'.nodes = graph.nodes /\ graph'.made = graph.made /\ UNCHANGED value
      BY <1>0, <1>7 DEF PopClass, ghosts, Graph
    <2> QED
      BY <1>0, <2>1, SameGoesOn
  <1>8. CASE EndFacts
    BY <1>0, <1>8, SameGoesOn DEF EndFacts
  <1>9. ASSUME NEW i \in changed, Modify(i) PROVE GoesOnWith(graph, graph', value, value')
    BY <1>9, ModifyGoesOn
  <1>10. CASE NextRound
    <2>1. graph'.nodes = graph.nodes /\ graph'.made = graph.made /\ UNCHANGED value
      BY <1>0, <1>10 DEF NextRound, Graph
    <2> QED
      BY <1>0, <2>1, SameGoesOn
  <1>11. CASE Finish
    <2>1. graph' = Reindexed(graph) /\ UNCHANGED value
      BY <1>11 DEF Finish, ghosts
    <2>2. graph'.made = graph.made
      BY <1>0, <2>1 DEF Reindexed, Graph
    <2>3. FiniteNodes(graph')
      BY <1>0, <2>1, ReindexedIsFinite
    <2> QED
      BY <2>1, <2>2, <2>3 DEF GoesOnWith, Made
  <1> QED
    BY <1>1, <1>2, <1>3, <1>4, <1>5, <1>6, <1>7, <1>8, <1>9, <1>10, <1>11 DEF RebuildStep

----------------------------------------------------------------------------
(* The rules as identities, and the matches they are applied to.            *)

\* What the rules are identities over.
Values == IF RulesHoldOver(Number) THEN Number ELSE Known

LEMMA ValuesAreWorthy == Worthy(Values) /\ RulesHoldOver(Values)
  <1>1. RulesHoldOver(Values)
    BY RulesAreIdentities DEF Values
  <1>2. Number \subseteq Values /\ Values \subseteq Known
    BY DEF Values, Known
  <1> QED
    BY <1>1, <1>2 DEF Worthy, RulesHoldOver

\* The rules of a run.
LEMMA RulesAreRules ==
  ASSUME NEW q \in Problems
  PROVE  /\ q.rules \in Seq(Range(q.rules)) /\ IsLimits(q.limits)
         /\ \A k \in DOMAIN q.rules : q.rules[k] \in Range(q.rules) /\ IsRule(q.rules[k])
  BY ProblemsAreRules DEF Range

\* The left side of the rule is worth what the class is in which it was matched.
MatchHolds(r, m, g, u) ==
  /\ m.class \in Made(g) /\ \A h \in HolesOf(r.lhs) : m.subst[h] \in Made(g)
  /\ \A v \in [Hole -> Values] :
       (\A h \in HolesOf(r.lhs) : v[h] = u[m.subst[h]]) => PatternWorth(r.lhs, v) = u[m.class]

LEMMA MeaningHolds ==
  ASSUME NEW g, NEW u, Sound(g, u), Proper(g), NEW r, IsRule(r), NEW m \in Meanings(g, r.lhs)
  PROVE  m \in [class : Id, subst : Subst] /\ MatchHolds(r, m, g, u)
  <1> DEFINE p == r.lhs
  <1>1. PICK c \in Classes(g), s \in [HolesOf(p) -> Classes(g)] : m = [class |-> c, subst |-> s]
    BY DEF Meanings, AllMatches
  <1>2. m.class = c /\ m.subst = s /\ c \in Denoted(g, p, s)[Len(p)]
    BY <1>1 DEF Meanings, Denotes
  <1>3. Classes(g) \subseteq Made(g) /\ Made(g) \subseteq Id
    BY ClassSubsts
  <1>4. IsPattern(p) /\ Len(p) \in DOMAIN p
    BY RootReaches DEF IsRule
  <1>5. \A h \in HolesOf(p) : s[h] \in Id /\ s[h] \in Made(g)
    BY <1>3
  <1>6. ASSUME NEW v \in [Hole -> Values], \A h \in HolesOf(p) : v[h] = u[s[h]]
        PROVE  PatternWorth(p, v) = u[c]
    <2>1. \A k \in DOMAIN p : \A d \in Denoted(g, p, s)[k] : u[d] = Worths(p, v)[k]
      <3> HIDE DEF p
      <3> QED
        BY <1>4, <1>5, <1>6, TermsAreWorthIt
    <2> QED
      BY <1>2, <1>4, <2>1 DEF PatternWorth
  <1>7. s \in Subst
    <2>1. HolesOf(p) \in SUBSET Hole /\ s \in [HolesOf(p) -> Id]
      BY <1>3 DEF HolesOf
    <2> QED
      BY <2>1 DEF Subst
  <1> QED
    BY <1>1, <1>2, <1>3, <1>5, <1>6, <1>7 DEF MatchHolds

\* What is matched stays matched while ids are added and keep their values.
LEMMA MatchMoves ==
  ASSUME NEW r, NEW m, NEW g, NEW u, MatchHolds(r, m, g, u), NEW h, NEW w,
         \A i \in Made(g) : i \in Made(h) /\ w[i] = u[i]
  PROVE  MatchHolds(r, m, h, w)
  BY DEF MatchHolds

\* The matches of a rule, and those of all the rules of a run.
HeldBy(r, g, u) == {m \in [class : Id, subst : Subst] : MatchHolds(r, m, g, u)}

Piles(q, g, u) ==
  UNION {[rule : {k}, matches : Seq(HeldBy(q.rules[k], g, u))] : k \in DOMAIN q.rules}

LEMMA PilesMove ==
  ASSUME NEW q, NEW g, NEW u, NEW h, NEW w, \A i \in Made(g) : i \in Made(h) /\ w[i] = u[i],
         NEW f \in Seq(Piles(q, g, u))
  PROVE  f \in Seq(Piles(q, h, w))
  <1>1. ASSUME NEW k \in DOMAIN q.rules PROVE HeldBy(q.rules[k], g, u) \subseteq HeldBy(q.rules[k], h, w)
    BY MatchMoves DEF HeldBy
  <1>2. ASSUME NEW k \in DOMAIN q.rules, NEW e \in [rule : {k}, matches : Seq(HeldBy(q.rules[k], g, u))]
        PROVE  e \in [rule : {k}, matches : Seq(HeldBy(q.rules[k], h, w))]
    <2> DEFINE A == HeldBy(q.rules[k], g, u)
               B == HeldBy(q.rules[k], h, w)
    <2>1. A \subseteq B
      BY <1>1
    <2>2. \A x : x \in Seq(A) => x \in Seq(B)
      <3> HIDE DEF A, B
      <3> QED
        BY <2>1
    <2> QED
      BY <2>2
  <1>3. Piles(q, g, u) \subseteq Piles(q, h, w)
    BY <1>2 DEF Piles
  <1> QED
    BY <1>3

LEMMA PileParts ==
  ASSUME NEW q, NEW g, NEW u
  PROVE  /\ \A e \in Piles(q, g, u) :
              /\ e = [rule |-> e.rule, matches |-> e.matches]
              /\ e.rule \in DOMAIN q.rules /\ e.matches \in Seq(HeldBy(q.rules[e.rule], g, u))
         /\ \A k \in DOMAIN q.rules : \A s \in Seq(HeldBy(q.rules[k], g, u)) :
              [rule |-> k, matches |-> s] \in Piles(q, g, u)
  <1>1. ASSUME NEW e \in Piles(q, g, u)
        PROVE  /\ e = [rule |-> e.rule, matches |-> e.matches]
               /\ e.rule \in DOMAIN q.rules /\ e.matches \in Seq(HeldBy(q.rules[e.rule], g, u))
    <2>1. PICK k \in DOMAIN q.rules : e \in [rule : {k}, matches : Seq(HeldBy(q.rules[k], g, u))]
      BY DEF Piles
    <2> QED
      BY <2>1
  <1>2. ASSUME NEW k \in DOMAIN q.rules, NEW s \in Seq(HeldBy(q.rules[k], g, u))
        PROVE  [rule |-> k, matches |-> s] \in Piles(q, g, u)
    <2>1. [rule |-> k, matches |-> s] \in [rule : {k}, matches : Seq(HeldBy(q.rules[k], g, u))]
      OBVIOUS
    <2> QED
      BY <2>1 DEF Piles
  <1> QED
    BY <1>1, <1>2

\* The right side was built, in a graph that goes on from b, and is worth what the
\* class of the match is.
Applies(x, b, r, m, at) ==
  /\ Stands(x, Values, at) /\ GoesOn(x, b)
  /\ x.graph.made <= b.graph.made + SizeOf(r.rhs)
  /\ m.class \in Made(x.graph) /\ Last(x.ids) \in Made(x.graph)
  /\ x.value[m.class] = x.value[Last(x.ids)]

\* A match that holds may be applied.
MayApply(b, q, r, m, at) ==
  /\ Stands(b, Values, at) /\ at \in Id /\ b.ids = <<>>
  /\ q \in Problems /\ r \in Range(q.rules)
  /\ MatchHolds(r, m, b.graph, b.value) /\ Holds(b.graph, r.needs, m.subst)
  /\ b.graph.made + SizeOf(r.rhs) <= CallerIds

LEMMA MatchMayBuild ==
  ASSUME NEW b, NEW q, NEW r, NEW m, NEW at, MayApply(b, q, r, m, at)
  PROVE  \E v : /\ MayBuild(b, r.rhs, m.subst, v, Values, at)
               /\ PatternWorth(r.rhs, v) = b.value[m.class]
  <1> DEFINE s == m.subst
             v == [h \in Hole |-> IF h \in HolesOf(r.lhs) THEN b.value[s[h]] ELSE b.value[m.class]]
  <1>1. /\ Stands(b, Values, at) /\ at \in Id /\ b.ids = <<>> /\ IsRule(r)
        /\ q \in Problems /\ r \in Range(q.rules)
        /\ MatchHolds(r, m, b.graph, b.value) /\ Holds(b.graph, r.needs, s)
        /\ Sound(b.graph, b.value) /\ b.graph.made + SizeOf(r.rhs) <= CallerIds
    BY ProblemsAreRules DEF MayApply, Stands
  <1>2. /\ m.class \in Made(b.graph) /\ \A h \in HolesOf(r.lhs) : s[h] \in Made(b.graph)
        /\ \A i \in Made(b.graph) : b.value[i] \in Values
    BY <1>1 DEF MatchHolds, Stands
  <1>3. v \in [Hole -> Values]
    BY <1>2
  <1>4. HolesOf(r.lhs) \subseteq Hole /\ HolesOf(r.rhs) \subseteq HolesOf(r.lhs)
        /\ r.needs \subseteq HolesOf(r.lhs) /\ IsPattern(r.rhs) /\ IsPattern(r.lhs)
    BY <1>1 DEF HolesOf, IsRule
  <1>5. \A h \in HolesOf(r.lhs) : v[h] = b.value[s[h]]
    BY <1>4
  <1> HIDE DEF v
  <1>6. PatternWorth(r.lhs, v) = b.value[m.class]
    BY <1>1, <1>3, <1>5 DEF MatchHolds
  <1>7. \A h \in r.needs : v[h] # None
    <2> TAKE h \in r.needs
    <2> DEFINE c == b.graph.leader[s[h]]
    <2>1. s[h] \in Id /\ c \in Id /\ b.graph.fact[c] # None
      <3>1. b.graph \in Graph
        BY <1>1 DEF Sound
      <3>2. s[h] \in Made(b.graph) /\ b.graph.fact[c] # None
        BY <1>1, <1>2, <1>4 DEF Holds, Find
      <3> QED
        BY <3>1, <3>2, MadeIds
    <2>2. b.graph.fact[c] = b.value[c] /\ b.value[c] = b.value[s[h]]
      BY <1>1, <2>1 DEF Sound, FactsAgree, LeadersAgree
    <2> QED
      BY <1>4, <1>5, <2>1, <2>2
  <1>8. PatternWorth(r.lhs, v) = PatternWorth(r.rhs, v)
    BY <1>1, <1>3, <1>7, ValuesAreWorthy DEF RulesHoldOver
  <1>9. MayBuild(b, r.rhs, s, v, Values, at)
    BY <1>1, <1>2, <1>4, <1>5, ValuesAreWorthy DEF MayBuild
  <1> QED
    BY <1>6, <1>8, <1>9

LEMMA MatchIsApplied ==
  ASSUME NEW b, NEW q, NEW r, NEW m, NEW at, MayApply(b, q, r, m, at)
  PROVE  Applies(Instantiated(b, r.rhs, m.subst), b, r, m, at)
  <1> DEFINE s == m.subst
             x == Instantiated(b, r.rhs, s)
             n == Len(r.rhs)
  <1>1. PICK v : MayBuild(b, r.rhs, s, v, Values, at) /\ PatternWorth(r.rhs, v) = b.value[m.class]
    BY MatchMayBuild
  <1>2. m.class \in Made(b.graph) /\ IsPattern(r.rhs)
    BY <1>1 DEF MayApply, MatchHolds, MayBuild
  <1>3. HasBuilt(b, r.rhs, Worths(r.rhs, v), Values, at, n, x)
    BY <1>1, InstantiatedStands
  <1>4. /\ Stands(x, Values, at) /\ GoesOn(x, b)
        /\ x.graph.made <= b.graph.made + Cardinality(OperatorsUpTo(r.rhs, n))
        /\ Len(x.ids) = n
        /\ \A j \in 1 .. n : x.ids[j] \in Made(x.graph) /\ x.value[x.ids[j]] = Worths(r.rhs, v)[j]
    BY <1>3 DEF HasBuilt
  <1>5. n \in 1 .. n
    BY <1>2 DEF IsPattern
  <1> HIDE DEF x, n
  <1>6. Last(x.ids) = x.ids[n]
    BY <1>4 DEF Last
  <1>7. Last(x.ids) \in Made(x.graph) /\ x.value[Last(x.ids)] = PatternWorth(r.rhs, v)
    BY <1>4, <1>5, <1>6 DEF PatternWorth, n
  <1>8. m.class \in Made(x.graph) /\ x.value[m.class] = b.value[m.class]
    BY <1>2, <1>4 DEF GoesOn
  <1>9. x.graph.made <= b.graph.made + SizeOf(r.rhs)
    BY <1>4 DEF SizeOf, n
  <1> QED
    BY <1>1, <1>4, <1>7, <1>8, <1>9 DEF Applies, x

\* A graph that goes on from a finite one is finite.
LEMMA GoesOnFinite ==
  ASSUME NEW x, NEW b, NEW V, NEW at, Stands(x, V, at), GoesOn(x, b), FiniteNodes(b.graph),
         b.graph \in Graph
  PROVE  FiniteNodes(x.graph)
  <1>1. \A c \in Id \ Made(x.graph) : x.graph.nodes[c] = {}
    <2>1. \A c \in Id : \A n \in x.graph.nodes[c] : c \in Made(x.graph)
      BY DEF Stands, Sound, NodesAgree, States
    <2> QED
      BY <2>1
  <1>2. IsFiniteSet({}) /\ \A n : IsFiniteSet({n})
    BY FS_EmptySet, FS_Singleton
  <1>3. Made(b.graph) \subseteq Id
    BY MadeIds
  <1>4. ASSUME NEW c \in Id PROVE IsFiniteSet(x.graph.nodes[c])
    <2>1. CASE c \in Made(b.graph)
      BY <2>1 DEF GoesOn, FiniteNodes
    <2>2. CASE c \in Made(x.graph) \ Made(b.graph)
      BY <1>2, <2>2 DEF GoesOn
    <2>3. CASE c \notin Made(x.graph)
      BY <1>1, <1>2, <2>3
    <2> QED
      BY <2>1, <2>2, <2>3
  <1> QED
    BY <1>4 DEF FiniteNodes

\* Ids lead to classes in a sound graph whose leaders lead themselves.
LEMMA SoundIsProper ==
  ASSUME NEW g, NEW u, Sound(g, u), Forest(g), FiniteNodes(g)
  PROVE  Proper(g)
  <1>1. g \in Graph /\ Made(g) \subseteq Id
    BY MadeIds DEF Sound
  <1>2. \A i \in Made(g) : g.leader[i] \in Classes(g)
    BY <1>1 DEF Sound, LeadersAgree, Forest, Classes
  <1>3. \A c \in Classes(g) : g.leader[c] = c /\ c \in Id
    BY <1>1 DEF Classes
  <1>4. \A c \in Id : \A n \in g.nodes[c] : Kids(n) \subseteq Made(g)
    BY DEF Sound, NodesAgree, States, Kids
  <1> QED
    BY <1>1, <1>2, <1>3, <1>4 DEF Proper

----------------------------------------------------------------------------
(* The invariant of the loop.                                               *)

\* Where the graph is being rebuilt, and where it waits to be.
StepOrder ==
  /\ step \in {"first", "check", "search", "apply", "rebuild", "last", "done"}
  /\ step \in {"check", "search", "done"} => phase = "clean"
  /\ step = "apply" => phase \in {"clean", "dirty"}
  /\ step \notin {"search", "apply"} => found = <<>>

SInv ==
  /\ IInv /\ CInv /\ FiniteNodes(graph)
  /\ problem \in Problems
  /\ \A i \in Made(graph) : value[i] \in Values
  /\ StepOrder
  /\ found \in Seq(Piles(problem, graph, value))

\* The building that a run starts from.
Ground ==
  [graph |-> EmptyGraph, ids |-> <<>>,
   term |-> [i \in Id |-> <<>>], value |-> [i \in Id |-> None]]

LEMMA GroundStands == Stands(Ground, Values, 0) /\ 0 \in Id /\ Made(Ground.graph) = {}
  <1> DEFINE g == EmptyGraph
             u == [i \in Id |-> None]
             t == [i \in Id |-> <<>>]
  <1>1. g \in Graph
    BY MaxIdsIsNat DEF EmptyGraph, Graph, Known
  <1>2. Made(g) = {} /\ Classes(g) = {}
    BY DEF EmptyGraph, Made, Classes
  <1>3. u \in [Id -> Known] /\ t \in [Id -> Node \cup {<<>>}]
    BY DEF Known
  <1>4. Sound(g, u)
    BY <1>1, <1>2, <1>3 DEF EmptyGraph, Sound, LeadersAgree, NodesAgree, UsesAgree,
                            MemoAgrees, FactsAgree
  <1>5. Forest(g) /\ \A c \in Id : g.uses[c] = {}
    BY DEF EmptyGraph, Forest
  <1>6. Closed(g, t, {}, 0, {})
    BY <1>2, <1>5 DEF Closed, TermsAreNodes, NodesCover, NodesAreTerms, UsesCover,
                      UsesAreOver, CongruentTerms, MemoCovers
  <1>7. 0 \in Id
    BY BoundsAreFinite, FS_CardinalityType DEF Id, MaxIds
  <1>8. Ground = [graph |-> g, ids |-> <<>>, term |-> t, value |-> u] /\ <<>> \in Seq(Id)
    BY DEF Ground
  <1> HIDE DEF g, u, t
  <1>9. Ground \in Build
    BY <1>1, <1>3, <1>8 DEF Build
  <1> QED
    BY <1>2, <1>4, <1>6, <1>7, <1>8, <1>9 DEF Stands

\* The caller's expression may be built.
LEMMA StartBuilds ==
  ASSUME RInit
  PROVE  MayBuild(Ground, problem.start, <<>>, <<>>, Values, 0)
  <1> DEFINE p == problem.start
  <1>1. IsPattern(p) /\ HolesOf(p) = {} /\ SizeOf(p) <= CallerIds
    BY ProblemsAreRules DEF RInit
  <1>2. Ground.graph.made = 0 /\ Ground.ids = <<>>
    BY DEF Ground, EmptyGraph
  <1>3. Ground.graph.made + SizeOf(p) <= CallerIds
    <2>1. Len(p) \in 1 .. Len(p)
      BY <1>1 DEF IsPattern
    <2>2. SizeOf(p) \in Nat
      BY <1>1, <2>1, OperatorsCount
    <2> QED
      BY <1>1, <1>2, <2>2
  <1> QED
    BY <1>1, <1>2, <1>3, GroundStands, ValuesAreWorthy DEF MayBuild

\* What the caller hands over satisfies it.
LEMMA StartHolds == RInit => SInv
  <1> SUFFICES ASSUME RInit PROVE SInv
    OBVIOUS
  <1> DEFINE p == problem.start
             x == Instantiated(Ground, p, <<>>)
  <1>1. /\ problem \in Problems /\ IsPattern(p) /\ HolesOf(p) = {} /\ SizeOf(p) <= CallerIds
    BY ProblemsAreRules DEF RInit
  <1>2. /\ graph = x.graph /\ term = x.term /\ value = x.value
        /\ phase = "congruence" /\ rounds = 0 /\ todo = {} /\ repairing = 0 /\ left = {}
        /\ seen = {} /\ queue = <<>> /\ forced = {} /\ changed = {} /\ fuel = 0
        /\ curtailed = FALSE /\ step = "first" /\ found = <<>>
    BY DEF RInit, StartingFrom, Ground
  <1>3. MayBuild(Ground, p, <<>>, <<>>, Values, 0)
    BY StartBuilds
  <1>4. HasBuilt(Ground, p, Worths(p, <<>>), Values, 0, Len(p), x)
    BY <1>3, InstantiatedStands
  <1>5. Stands(x, Values, 0) /\ GoesOn(x, Ground)
    BY <1>4 DEF HasBuilt
  <1>6. FiniteNodes(Ground.graph) /\ Ground.graph \in Graph
    <2>1. Ground.graph \in Graph
      BY GroundStands DEF Stands, Sound
    <2>2. \A c \in Id : Ground.graph.nodes[c] = {}
      BY DEF Ground, EmptyGraph
    <2> QED
      BY <2>1, <2>2, FS_EmptySet DEF FiniteNodes
  <1>7. FiniteNodes(x.graph)
    BY <1>5, <1>6, GoesOnFinite
  <1> HIDE DEF x
  <1>8. /\ Sound(graph, value) /\ graph \in Graph /\ value \in [Id -> Known]
        /\ term \in [Id -> Node \cup {<<>>}] /\ Closed(graph, term, {}, 0, {})
        /\ \A i \in Made(graph) : value[i] \in Values
    BY <1>2, <1>5 DEF Stands, Build
  <1>9. RepairAgrees
    BY <1>2 DEF RepairAgrees
  <1>10. TypeOK
    <2>1. /\ rounds \in 0 .. MaxRounds + 1 /\ fuel \in Nat /\ queue \in Seq(Id)
          /\ repairing \in Id
      BY <1>2, GroundStands, BoundsAreFinite
    <2> QED
      BY <1>2, <1>8, <2>1 DEF TypeOK
  <1>11. IInv
    BY <1>2, <1>8, <1>9, <1>10 DEF IInv
  <1>12. CInv
    <2>1. Hand = {} /\ Others = {}
      BY <1>2 DEF Hand, Others
    <2> QED
      BY <1>2, <1>8, <2>1 DEF CInv, SeenIsOne, SeenIsCanonical, SeenIsKeyed, RepairsOrder,
                              CongruenceRestored
  <1> QED
    BY <1>1, <1>2, <1>7, <1>8, <1>11, <1>12 DEF SInv, StepOrder

\* The actions that leave the graph alone.
LEMMA GraphKept ==
  ASSUME SInv, UNCHANGED vars, UNCHANGED problem
  PROVE  /\ IInv' /\ CInv' /\ FiniteNodes(graph') /\ problem' \in Problems
         /\ \A i \in Made(graph') : value'[i] \in Values
         /\ \A f : f \in Seq(Piles(problem, graph, value)) => f \in Seq(Piles(problem', graph', value'))
         /\ phase' = phase
  <1>1. /\ UNCHANGED <<graph, phase, rounds, todo, repairing, left, seen, queue, forced, changed,
                       fuel, term, value, curtailed>>
    BY DEF vars, rebuildVars, ghosts
  <1>2. IInv'
    BY <1>1 DEF SInv, IInv, TypeOK, RepairAgrees
  <1>3. CInv'
    BY <1>1 DEF SInv, CInv, Others, Hand, SeenIsOne, SeenIsCanonical, SeenIsKeyed, RepairsOrder,
                CongruenceRestored
  <1> QED
    BY <1>1, <1>2, <1>3 DEF SInv

\* A step of a rebuild, or the start of one, with no matches to apply.
LEMMA RebuildKeepsAll ==
  ASSUME SInv, Rebuild \/ RebuildStep, UNCHANGED problem, found = <<>>, found' = <<>>,
         step' \in {"first", "rebuild", "last"}
  PROVE  SInv'
  <1>1. IInv'
    BY RebuildKeeps DEF SInv
  <1>2. CInv'
    BY <1>1, RebuildCloses DEF SInv
  <1>3. GoesOnWith(graph, graph', value, value')
    BY <1>1, RebuildGoesOn DEF SInv
  <1>4. \A i \in Made(graph') : value'[i] \in Values
    BY <1>3, ValuesAreWorthy DEF SInv, GoesOnWith, Worthy
  <1>5. StepOrder'
    BY DEF StepOrder
  <1> QED
    BY <1>1, <1>2, <1>3, <1>4, <1>5 DEF SInv, GoesOnWith

LEMMA RebuildOnIsStep ==
  ASSUME SInv, RebuildOn
  PROVE  RebuildStep
  <1>1. graph.uses \in [Id -> SUBSET (Node \X Id)] /\ graph \in Graph /\ queue \in Seq(Id)
    BY DEF SInv, IInv, TypeOK, Graph
  <1>2. queue # <<>> => Increasing(Untold) \in SetToSeqs(Untold)
    <2> SUFFICES ASSUME queue # <<>> PROVE Increasing(Untold) \in SetToSeqs(Untold)
      OBVIOUS
    <2>1. Last(queue) \in Id
      BY <1>1 DEF Last
    <2>2. Untold \subseteq Id
      BY <1>1, <2>1 DEF Untold, Find, Graph
    <2>3. IsFiniteSet(Untold) /\ Untold \in SUBSET Nat
      <3>1. IsFiniteSet(Id) /\ Id \subseteq Nat
        BY MaxIdsIsNat, FS_Interval DEF Id
      <3> QED
        BY <2>2, <3>1, FS_Subset
    <2>4. Lists(Increasing(Untold), Untold)
      BY <2>3, IncreasingLists
    <2> QED
      BY <2>4 DEF Lists
  <1>3. left # {} => (CHOOSE p \in left : TRUE) \in left
    OBVIOUS
  <1> QED
    BY <1>2, <1>3 DEF RebuildOn, RebuildStep

LEMMA SearchRuleKeeps ==
  ASSUME SInv, SearchRule
  PROVE  SInv'
  <1> DEFINE r == Rules[rule]
             got == SearchCapped(graph, r.lhs, Limits)
             over == Len(got.found) > Threshold(rule)
             entry == IF over \/ got.found = <<>> THEN <<>>
                      ELSE <<[rule |-> rule, matches |-> got.found]>>
             P == Piles(problem, graph, value)
  <1>1. /\ step = "search" /\ rule \in RuleIds /\ found' = found \o entry
        /\ UNCHANGED <<vars, problem, step>>
    BY DEF SearchRule
  <1>2. /\ problem \in Problems /\ IsRule(r) /\ IsLimits(Limits)
        /\ IsPattern(r.lhs) /\ ~ IsHole(r.lhs, Len(r.lhs))
    BY <1>1, RulesAreRules DEF SInv, Rules, RuleIds, Limits, IsRule
  <1>3. Proper(graph) /\ Sound(graph, value)
    BY SoundIsProper DEF SInv, IInv, CInv, Closed
  <1>4. Limits.perClass \in Nat /\ Limits.steps \in Nat
    BY <1>2 DEF IsLimits
  <1>5. /\ got.found \in Seq(AllMatches(graph, r.lhs))
        /\ ToSet(got.found) \subseteq Meanings(graph, r.lhs)
    BY <1>2, <1>3, <1>4, SearchFindsMeanings
  <1> HIDE DEF got
  <1>6. got.found \in Seq(HeldBy(r, graph, value))
    <2>1. \A m \in Meanings(graph, r.lhs) : m \in HeldBy(r, graph, value)
      BY <1>2, <1>3, MeaningHolds DEF HeldBy
    <2> DEFINE q == got.found
    <2>2. Len(q) \in Nat /\ DOMAIN q = 1 .. Len(q) /\ q \in [1 .. Len(q) -> ToSet(q)]
      BY <1>5, ElementsOfSeq
    <2>3. \A k \in 1 .. Len(q) : q[k] \in HeldBy(r, graph, value)
      BY <1>5, <2>1, <2>2
    <2> HIDE DEF q
    <2>4. q \in [1 .. Len(q) -> HeldBy(r, graph, value)]
      BY <2>2, <2>3
    <2>5. q \in Seq(HeldBy(r, graph, value))
      BY <2>2, <2>4, CountedIsSeq
    <2> QED
      BY <2>5 DEF q
  <1>7. [rule |-> rule, matches |-> got.found] \in P
    BY <1>1, <1>6, PileParts DEF Rules, RuleIds
  <1> HIDE DEF P
  <1>8. entry \in Seq(P)
    BY <1>7
  <1>9. found' \in Seq(P)
    BY <1>1, <1>8 DEF SInv, P
  <1>10. /\ IInv' /\ CInv' /\ FiniteNodes(graph') /\ problem' \in Problems
         /\ \A i \in Made(graph') : value'[i] \in Values
         /\ found' \in Seq(Piles(problem', graph', value'))
         /\ phase' = phase
    BY <1>1, <1>9, GraphKept DEF P
  <1>11. StepOrder'
    BY <1>1, <1>10 DEF SInv, StepOrder
  <1> QED
    BY <1>10, <1>11 DEF SInv

\* The graph as a building to go on from.
Begun == [graph |-> graph, ids |-> <<>>, term |-> term, value |-> value]

Joins(x, r, k, m) ==
  /\ Applies(x, Begun, r, m, repairing)
  /\ graph' = United(x.graph, m.class, Last(x.ids), RuleOf(k))
  /\ term' = x.term /\ value' = x.value
  /\ phase' = IF graph' = graph THEN phase ELSE "dirty"

\* What an application makes of the graph: nothing where the condition of the rule
\* does not hold, the right side and the union where it does.
Builds(x, r, m) ==
  /\ x = Instantiated(Begun, r.rhs, m.subst)
  /\ MayApply(Begun, problem, r, m, repairing)
  /\ unions' = unions + (IF graph' = x.graph THEN 0 ELSE 1)

LEMMA ApplyMatchJoins ==
  ASSUME SInv, ApplyMatch
  PROVE  LET head == found[1]
             m    == head.matches[1]
             r    == Rules[head.rule]
         IN  /\ head \in Piles(problem, graph, value) /\ head.rule \in RuleIds
             /\ head.matches \in Seq(HeldBy(r, graph, value)) /\ head.matches # <<>>
             /\ m \in HeldBy(r, graph, value) /\ IsRule(r)
             /\ Stands(Begun, Values, repairing)
             /\ \/ /\ ~ Holds(graph, r.needs, m.subst)
                   /\ graph' = graph /\ unions' = unions + 0 /\ UNCHANGED <<term, value, phase>>
                \/ \E x : Joins(x, r, head.rule, m) /\ Builds(x, r, m)
  <1> DEFINE head == found[1]
             m == head.matches[1]
             r == Rules[head.rule]
             P == Piles(problem, graph, value)
             x == Instantiated(Begun, r.rhs, m.subst)
  <1>1. /\ step = "apply" /\ found # <<>> /\ Head(found) = head /\ head.matches # <<>>
        /\ Head(head.matches) = m
        /\ graph.made + SizeOf(r.rhs) <= CallerIds
        /\ UNCHANGED <<rebuildVars, curtailed, problem>>
    <2>1. UNCHANGED <<rebuildVars, curtailed, problem>>
      BY DEF ApplyMatch
    <2> HIDE DEF head, m, r
    <2>2. Head(found) = head
      BY DEF head
    <2>3. /\ step = "apply" /\ found # <<>> /\ head.matches # <<>>
          /\ graph.made + SizeOf(r.rhs) <= CallerIds
      BY <2>2 DEF ApplyMatch, r
    <2> QED
      BY <2>1, <2>2, <2>3 DEF m
  <1>2. head \in P
    BY <1>1 DEF SInv
  <1>3. /\ head.rule \in RuleIds /\ head.matches \in Seq(HeldBy(r, graph, value))
    BY <1>2, PileParts DEF RuleIds, Rules
  <1> HIDE DEF head, P
  <1>4. m \in HeldBy(r, graph, value)
    BY <1>1, <1>3
  <1>5. IsRule(r) /\ problem \in Problems /\ r \in Range(problem.rules)
    BY <1>3, RulesAreRules DEF SInv, RuleIds, Rules
  <1>6. phase \in {"clean", "dirty"}
    BY <1>1 DEF SInv, StepOrder
  <1>7. todo = {} /\ Closed(graph, term, {}, repairing, {})
    BY <1>6, Idle DEF SInv, CInv, RepairsOrder
  <1>8. /\ repairing \in Id /\ graph \in Graph /\ term \in [Id -> Node \cup {<<>>}]
        /\ value \in [Id -> Known] /\ Sound(graph, value)
    BY DEF SInv, IInv, TypeOK
  <1>9. Stands(Begun, Values, repairing)
    <2>1. <<>> \in Seq(Id)
      OBVIOUS
    <2>2. Begun \in Build
      BY <1>8, <2>1 DEF Begun, Build
    <2> QED
      BY <1>7, <1>8, <2>2 DEF SInv, Stands, Begun
  <1> HIDE DEF r, m
  <1>10. CASE ~ Holds(graph, r.needs, m.subst)
    <2>1. /\ graph' = graph /\ term' = term /\ value' = value /\ phase' = phase
          /\ unions' = unions + 0
      BY <1>1, <1>10 DEF ApplyMatch, r, m
    <2> QED
      BY <1>1, <1>2, <1>3, <1>4, <1>5, <1>9, <1>10, <2>1 DEF P, head, r, m
  <1>11. CASE Holds(graph, r.needs, m.subst)
    <2>1. /\ graph' = United(x.graph, m.class, Last(x.ids), RuleOf(head.rule))
          /\ term' = x.term /\ value' = x.value
          /\ phase' = IF graph' = graph THEN phase ELSE "dirty"
          /\ unions' = unions + (IF graph' = x.graph THEN 0 ELSE 1)
      BY <1>1, <1>11 DEF ApplyMatch, Begun, r, m
    <2>2. MayApply(Begun, problem, r, m, repairing)
      <3>1. /\ Begun.graph = graph /\ Begun.value = value /\ Begun.ids = <<>>
        BY DEF Begun
      <3>2. graph.made + SizeOf(r.rhs) <= CallerIds
        BY <1>1 DEF r
      <3> QED
        BY <1>4, <1>5, <1>8, <1>9, <1>11, <3>1, <3>2 DEF MayApply, HeldBy
    <2> HIDE DEF x
    <2>3. Applies(x, Begun, r, m, repairing)
      BY <2>2, MatchIsApplied DEF x
    <2>4. Joins(x, r, head.rule, m) /\ Builds(x, r, m)
      BY <2>1, <2>2, <2>3 DEF Joins, Builds, x
    <2> QED
      BY <1>1, <1>2, <1>3, <1>4, <1>5, <1>9, <2>4 DEF P, head, r, m
  <1> QED
    BY <1>10, <1>11

\* The graph an application leaves.
LEMMA JoinedKeeps ==
  ASSUME SInv, step = "apply", UNCHANGED <<rebuildVars, curtailed, problem, step>>,
         Stands(Begun, Values, repairing), NEW x, NEW r, NEW k \in Nat, NEW m, Joins(x, r, k, m)
  PROVE  /\ IInv' /\ CInv' /\ FiniteNodes(graph')
         /\ \A i \in Made(graph') : value'[i] \in Values
         /\ \A i \in Made(graph) : i \in Made(graph') /\ value'[i] = value[i]
         /\ phase' \in {"clean", "dirty"}
  <1> DEFINE a == m.class
             b == Last(x.ids)
             g == x.graph
  <1>1. /\ Stands(x, Values, repairing) /\ GoesOn(x, Begun)
        /\ a \in Made(g) /\ b \in Made(g) /\ x.value[a] = x.value[b]
        /\ graph' = United(g, a, b, RuleOf(k))
        /\ term' = x.term /\ value' = x.value
        /\ phase' = IF graph' = graph THEN phase ELSE "dirty"
    BY DEF Joins, Applies
  <1>2. /\ Sound(g, x.value) /\ Closed(g, x.term, {}, repairing, {}) /\ g \in Graph
        /\ x.term \in [Id -> Node \cup {<<>>}] /\ x.value \in [Id -> Known]
        /\ \A i \in Made(g) : x.value[i] \in Values
    BY <1>1 DEF Stands, Build
  <1>3. RuleOf(k) \in Why
    BY DEF RuleOf, Why
  <1>4. /\ repairing \in Id /\ graph \in Graph /\ Begun.graph = graph /\ Begun.value = value
        /\ Begun.term = term /\ phase \in {"clean", "dirty"}
        /\ UNCHANGED <<rounds, todo, repairing, left, seen, queue, forced, changed, fuel, curtailed>>
    BY DEF SInv, StepOrder, IInv, TypeOK, Begun, rebuildVars
  <1>5. todo = {} /\ left = {} /\ seen = {}
    BY <1>4 DEF SInv, CInv, RepairsOrder
  <1> HIDE DEF a, b, g
  <1>6. Sound(graph', value') /\ graph'.made = g.made
    BY <1>1, <1>2, <1>3, UnitedIsSound
  <1>7. Closed(graph', term', {}, repairing, {})
    BY <1>1, <1>2, <1>3, <1>4, UnitedCloses
  <1>8. FiniteNodes(graph')
    <2>1. FiniteNodes(g)
      BY <1>1, <1>4, GoesOnFinite DEF SInv, g
    <2>2. a \in Id /\ b \in Id
      BY <1>1, <1>2, MadeIds
    <2> QED
      BY <1>1, <1>2, <2>1, <2>2, UnitedIsFinite
  <1>9. phase' \in {"clean", "dirty"}
    BY <1>1, <1>4
  <1>10. IInv'
    <2>1. graph' \in Graph
      BY <1>6 DEF Sound
    <2>2. TypeOK'
      BY <1>1, <1>2, <1>4, <1>9, <2>1 DEF SInv, IInv, TypeOK
    <2>3. RepairAgrees'
      BY <1>4, <1>5 DEF RepairAgrees
    <2> QED
      BY <1>6, <1>9, <2>2, <2>3 DEF IInv
  <1>11. \A i \in Made(graph') : value'[i] \in Values
    BY <1>1, <1>2, <1>6 DEF Made
  <1>12. \A i \in Made(graph) : i \in Made(graph') /\ value'[i] = value[i]
    BY <1>1, <1>4, <1>6 DEF GoesOn, Made, g
  <1>13. CongruenceRestored'
    <2> SUFFICES ASSUME phase' = "clean" PROVE CongruenceRestored'
      BY DEF CongruenceRestored
    <2>1. graph' = graph /\ phase = "clean"
      BY <1>1
    <2>2. g.made = Begun.graph.made
      BY <1>4, <1>6, <2>1
    <2>3. term' = term
      BY <1>1, <1>4, <2>2 DEF GoesOn, g
    <2> QED
      BY <2>1, <2>3 DEF SInv, CInv, CongruenceRestored
  <1>14. CInv'
    BY <1>4, <1>5, <1>7, <1>9, <1>13, IdleKeeps DEF SInv
  <1> QED
    BY <1>8, <1>9, <1>10, <1>11, <1>12, <1>14

LEMMA ApplyMatchKeeps ==
  ASSUME SInv, ApplyMatch
  PROVE  SInv'
  <1> DEFINE head == found[1]
             m == head.matches[1]
             r == Rules[head.rule]
             P == Piles(problem, graph, value)
             Q == Piles(problem', graph', value')
  <1>1. /\ head \in P /\ head.rule \in RuleIds
        /\ head.matches \in Seq(HeldBy(r, graph, value)) /\ head.matches # <<>>
        /\ Stands(Begun, Values, repairing)
        /\ \/ graph' = graph /\ UNCHANGED <<term, value, phase>>
           \/ \E x : Joins(x, r, head.rule, m)
    BY ApplyMatchJoins
  <1>2. PICK done \in BOOLEAN :
          /\ found' = [found EXCEPT ![1].matches = IF done THEN <<>> ELSE Tail(@)]
          /\ step = "apply" /\ found # <<>>
          /\ UNCHANGED <<rebuildVars, curtailed, problem, step>>
    <2> DEFINE stop == found'[1].matches = <<>> /\ found' = [found EXCEPT ![1].matches = <<>>]
    <2>1. /\ \/ found' = [found EXCEPT ![1].matches = <<>>]
             \/ found' = [found EXCEPT ![1].matches = Tail(@)]
          /\ step = "apply" /\ found # <<>>
          /\ UNCHANGED <<rebuildVars, curtailed, problem, step>>
      BY DEF ApplyMatch
    <2> QED
      BY <2>1
  <1>3. /\ IInv' /\ CInv' /\ FiniteNodes(graph')
        /\ \A i \in Made(graph') : value'[i] \in Values
        /\ \A i \in Made(graph) : i \in Made(graph') /\ value'[i] = value[i]
        /\ phase' \in {"clean", "dirty"}
    <2>1. CASE graph' = graph /\ UNCHANGED <<term, value, phase>>
      <3>1. UNCHANGED vars
        BY <1>2, <2>1 DEF vars, rebuildVars, ghosts
      <3> QED
        BY <1>2, <2>1, <3>1, GraphKept DEF SInv, StepOrder
    <2>2. ASSUME NEW x, Joins(x, r, head.rule, m)
          PROVE  /\ IInv' /\ CInv' /\ FiniteNodes(graph')
                 /\ \A i \in Made(graph') : value'[i] \in Values
                 /\ \A i \in Made(graph) : i \in Made(graph') /\ value'[i] = value[i]
                 /\ phase' \in {"clean", "dirty"}
      <3>1. head.rule \in Nat
        <4>1. problem.rules \in Seq(Range(problem.rules))
          BY RulesAreRules DEF SInv
        <4> QED
          BY <1>1, <4>1 DEF RuleIds, Rules
      <3>2. phase' \in {"clean", "dirty"}
        BY <1>2, <2>2 DEF Joins, SInv, StepOrder
      <3> HIDE DEF head, m, r
      <3> QED
        BY <1>1, <1>2, <2>2, <3>1, <3>2, JoinedKeeps
    <2> QED
      BY <1>1, <2>1, <2>2
  <1>4. problem' = problem /\ found \in Seq(P)
    BY <1>2 DEF SInv
  <1>5. found \in Seq(Q)
    BY <1>3, <1>4, PilesMove
  <1>6. found' \in Seq(Q)
    <2> DEFINE new == IF done THEN <<>> ELSE Tail(head.matches)
               B == HeldBy(problem.rules[head.rule], graph', value')
               e == [rule |-> head.rule, matches |-> new]
    <2>1. head \in Q
      BY <1>2, <1>5
    <2>2. /\ head = [rule |-> head.rule, matches |-> head.matches]
          /\ head.rule \in DOMAIN problem.rules /\ head.matches \in Seq(B)
      BY <1>4, <2>1, PileParts
    <2> HIDE DEF B, Q
    <2>3. new \in Seq(B)
      BY <1>1, <2>2
    <2> HIDE DEF new
    <2>4. e \in Q
      BY <1>4, <2>2, <2>3, PileParts DEF B, Q
    <2>5. found' = [found EXCEPT ![1] = e]
      <3>1. found' = [found EXCEPT ![1].matches = new]
        BY <1>2 DEF new
      <3>2. [head EXCEPT !.matches = new] = e
        <4> HIDE DEF head
        <4> QED
          BY <2>2
      <3> QED
        BY <3>1, <3>2
    <2> HIDE DEF e, head
    <2> DEFINE n == Len(found)
    <2>6. n \in Nat /\ 1 \in 1 .. n /\ found \in [1 .. n -> Q]
      BY <1>2, <1>5
    <2> HIDE DEF n
    <2>7. found' \in [1 .. n -> Q]
      BY <2>4, <2>5, <2>6
    <2> QED
      BY <2>6, <2>7, CountedIsSeq
  <1>7. StepOrder'
    BY <1>2, <1>3 DEF StepOrder, SInv
  <1> HIDE DEF head, m, r, P
  <1> QED
    BY <1>3, <1>4, <1>6, <1>7 DEF SInv

\* The actions that leave the graph alone, and the matches or some of them.
LEMMA LoopKeeps ==
  ASSUME SInv, UNCHANGED vars, UNCHANGED problem, StepOrder',
         found' = found \/ found' = <<>> \/ (found # <<>> /\ found' = Tail(found))
  PROVE  SInv'
  <1> DEFINE P == Piles(problem, graph, value)
  <1>1. found \in Seq(P)
    BY DEF SInv
  <1> HIDE DEF P
  <1>2. found' \in Seq(P)
    <2>1. <<>> \in Seq(P) /\ (found # <<>> => Tail(found) \in Seq(P))
      BY <1>1
    <2> QED
      BY <1>1, <2>1
  <1> QED
    BY <1>2, GraphKept DEF SInv, P

LEMMA LoopStepKeeps ==
  ASSUME SInv, RNext
  PROVE  SInv'
  <1>0. UNCHANGED vars => phase' = phase
    BY DEF vars
  <1>1. CASE Begin
    <2>1. UNCHANGED vars /\ UNCHANGED <<problem, found>> /\ StepOrder'
      BY <1>1 DEF Begin, SInv, StepOrder, vars
    <2> QED
      BY <2>1, LoopKeeps
  <1>2. ASSUME NEW why, Stop(why), step \in {"check", "rebuild"} PROVE SInv'
    <2>1. /\ Rebuild /\ step' = "last" /\ UNCHANGED <<problem, found>> /\ found = <<>>
      BY <1>2 DEF Stop, SInv, StepOrder
    <2> QED
      BY <2>1, RebuildKeepsAll
  <1>3. CASE BeginPass
    <2>1. CASE LimitAt # None /\ Stop(LimitAt)
      BY <1>2, <1>3, <2>1 DEF BeginPass
    <2>2. CASE ~ (LimitAt # None /\ Stop(LimitAt))
      <3>1. UNCHANGED vars /\ UNCHANGED <<problem, found>> /\ StepOrder'
        BY <1>3, <2>2 DEF BeginPass, SInv, StepOrder, vars
      <3> QED
        BY <3>1, LoopKeeps
    <2> QED
      BY <2>1, <2>2
  <1>4. CASE SearchRule
    BY <1>4, SearchRuleKeeps
  <1>5. CASE SkipBanned
    <2>1. UNCHANGED vars /\ UNCHANGED <<problem, found>> /\ StepOrder'
      BY <1>5 DEF SkipBanned, SInv, StepOrder, vars
    <2> QED
      BY <2>1, LoopKeeps
  <1>6. CASE EndSearch
    <2>1. UNCHANGED vars /\ UNCHANGED <<problem, found>> /\ StepOrder'
      BY <1>6 DEF EndSearch, SInv, StepOrder, vars
    <2> QED
      BY <2>1, LoopKeeps
  <1>7. CASE ApplyMatch
    BY <1>7, ApplyMatchKeeps
  <1>8. CASE EndRule
    <2>1. UNCHANGED vars /\ UNCHANGED problem /\ StepOrder'
      BY <1>8 DEF EndRule, SInv, StepOrder, vars
    <2>2. found' = <<>> \/ (found # <<>> /\ found' = Tail(found))
      BY <1>8 DEF EndRule
    <2> QED
      BY <2>1, <2>2, LoopKeeps
  <1>9. CASE EndApply
    BY <1>9, RebuildKeepsAll DEF EndApply
  <1>10. CASE RebuildOn
    <2>1. RebuildStep /\ UNCHANGED runVars /\ Rebuilding
      BY <1>10, RebuildOnIsStep DEF RebuildOn
    <2>2. UNCHANGED <<problem, found, step>> /\ found = <<>> /\ step \in {"first", "rebuild", "last"}
      BY <1>10, <2>1 DEF runVars, Rebuilding, SInv, StepOrder, RebuildOn
    <2> QED
      BY <2>1, <2>2, RebuildKeepsAll
  <1>11. CASE EndPass
    <2>1. \/ \E why : Stop(why)
          \/ NextPass
      BY <1>11 DEF EndPass
    <2>2. step = "rebuild" /\ phase = "clean"
      BY <1>11 DEF EndPass
    <2>3. CASE NextPass
      <3>1. UNCHANGED vars /\ UNCHANGED <<problem, found>> /\ StepOrder'
        BY <2>2, <2>3 DEF NextPass, SInv, StepOrder, vars
      <3> QED
        BY <3>1, LoopKeeps
    <2> QED
      BY <1>2, <2>1, <2>2, <2>3
  <1>12. CASE Done
    <2>1. UNCHANGED vars /\ UNCHANGED <<problem, found>> /\ StepOrder'
      BY <1>12 DEF Done, SInv, StepOrder, vars
    <2> QED
      BY <2>1, LoopKeeps
  <1>13. CASE TimePasses
    <2>1. UNCHANGED vars /\ UNCHANGED <<problem, found>> /\ StepOrder'
      BY <1>13 DEF TimePasses, SInv, StepOrder, vars
    <2> QED
      BY <2>1, LoopKeeps
  <1>14. CASE Ended
    <2>1. UNCHANGED vars /\ UNCHANGED <<problem, found>> /\ StepOrder'
      BY <1>14 DEF Ended, SInv, StepOrder, vars, allVars, runVars
    <2> QED
      BY <2>1, LoopKeeps
  <1> QED
    BY <1>1, <1>3, <1>4, <1>5, <1>6, <1>7, <1>8, <1>9, <1>10, <1>11, <1>12, <1>13, <1>14
    DEF RNext, Loop

LEMMA StepKeepsS == SInv /\ [RNext]_allVars => SInv'
  <1> SUFFICES ASSUME SInv, UNCHANGED allVars PROVE SInv'
    BY LoopStepKeeps
  <1>1. UNCHANGED vars /\ UNCHANGED <<problem, found>> /\ StepOrder'
    BY DEF SInv, StepOrder, vars, allVars, runVars
  <1> QED
    BY <1>1, LoopKeeps

\* No pass joins terms that are worth different things, whatever the rules, as long
\* as each is an identity, and whatever the limits cut off: the matches of a search
\* are still matches when they are applied, although the graph has changed
\* (apply_matches, Rewrite::apply).
THEOREM NoPassJoinsDifferentValues == RSpec => []ClassesHoldOneValue
  <1>1. SInv => ClassesHoldOneValue
    <2> SUFFICES ASSUME SInv, NEW i \in Made(graph) PROVE value[i] = value[Find(graph, i)]
      BY DEF ClassesHoldOneValue
    <2>1. i \in Id /\ Sound(graph, value)
      BY MadeIds DEF SInv, IInv, TypeOK
    <2> QED
      BY <2>1 DEF Sound, LeadersAgree, Find
  <1> QED
    BY StartHolds, StepKeepsS, <1>1, PTL DEF RSpec

\* Every search of every pass finds what the pattern means in the graph as it is,
\* and nothing else; all of it, unless a budget ran out (search_capped).
THEOREM SearchesAreExact == RSpec => []MatchesAreMeant
  <1>1. SInv => MatchesAreMeant
    <2> SUFFICES ASSUME SInv, step = "search", rule \in RuleIds
                 PROVE  LET got == SearchCapped(graph, Rules[rule].lhs, Limits)
                            all == Meanings(graph, Rules[rule].lhs)
                        IN  /\ ToSet(got.found) \subseteq all
                            /\ ~ got.cut /\ ~ got.short => ToSet(got.found) = all
      BY DEF MatchesAreMeant, IsExact
    <2>1. IsRule(Rules[rule]) /\ IsLimits(Limits)
      BY RulesAreRules DEF SInv, Rules, RuleIds, Limits
    <2>2. Proper(graph)
      BY SoundIsProper DEF SInv, IInv, CInv, Closed
    <2> QED
      BY <2>1, <2>2, SearchFindsMeanings DEF IsRule, IsLimits
  <1> QED
    BY StartHolds, StepKeepsS, <1>1, PTL DEF RSpec

\* A pass begins, and searches, in a graph that rebuild has made congruent again:
\* no two classes hold the same node, and a term that was added is found where its
\* class is (run_inner, rebuild before the first pass and after each).
THEOREM PassesSearchCongruence == RSpec => [](CongruenceRestored /\ FactsAreSound)
  <1>1. SInv => CongruenceRestored /\ FactsAreSound
    <2> SUFFICES ASSUME SInv, NEW i \in Made(graph), graph.fact[graph.leader[i]] # None
                 PROVE  graph.fact[graph.leader[i]] = value[i]
      BY DEF SInv, CInv, FactsAreSound, Find
    <2>1. i \in Id /\ graph.leader[i] \in Id
      BY MadeIds DEF SInv, IInv, TypeOK, Graph
    <2> QED
      BY <2>1 DEF SInv, IInv, Sound, LeadersAgree, FactsAgree
  <1> QED
    BY StartHolds, StepKeepsS, <1>1, PTL DEF RSpec

----------------------------------------------------------------------------
(* The node limit.                                                          *)

\* How near the limit the rule at the head may be: what the matches since the budget
\* was looked at may have added; at its end, all the matches between two looks.
HeadNear ==
  LET head == found[1]
      most == SizeOf(Rules[head.rule].rhs)
  IN  IF head.matches = <<>>
      THEN Nodes(graph) <= Limits.nodes + Limits.checkEvery * most
      ELSE since < Limits.checkEvery /\ Nodes(graph) <= Limits.nodes + since * most

Near ==
  /\ since \in Nat
  /\ step = "search" => Nodes(graph) <= Limits.nodes
  /\ step = "apply" /\ found # <<>> => HeadNear

\* The nodes of a graph can be counted.
LEMMA NodesCount ==
  ASSUME NEW g \in Graph, FiniteNodes(g)
  PROVE  IsFiniteSet(NodesOf(g)) /\ Nodes(g) \in Nat
  <1> DEFINE C == Classes(g)
             held == [c \in C |-> {<<c, n>> : n \in g.nodes[c]}]
             S == {held[c] : c \in C}
  <1>1. C \subseteq Id /\ IsFiniteSet(C)
    <2>1. IsFiniteSet(Id) /\ C \subseteq Id
      BY MaxIdsIsNat, MadeIds, FS_Interval DEF Id, Classes
    <2> QED
      BY <2>1, FS_Subset
  <1>2. \A c \in C : IsFiniteSet(held[c])
    <2> TAKE c \in C
    <2> DEFINE A == g.nodes[c]
               T == {<<c, n>> : n \in A}
               f == [n \in A |-> <<c, n>>]
    <2>1. f \in Surjection(A, T)
      BY DEF Surjection
    <2>2. IsFiniteSet(A)
      BY <1>1 DEF FiniteNodes
    <2>3. held[c] = T
      OBVIOUS
    <2> HIDE DEF A, T, f
    <2>4. IsFiniteSet(T)
      BY <2>1, <2>2, FS_Surjection
    <2> QED
      BY <2>3, <2>4
  <1>3. held \in Surjection(C, S)
    BY DEF Surjection
  <1>4. NodesOf(g) = UNION S
    BY DEF NodesOf
  <1> HIDE DEF C, held
  <1>5. \A T \in S : IsFiniteSet(T)
    BY <1>2
  <1> HIDE DEF S
  <1>6. IsFiniteSet(S)
    BY <1>1, <1>3, FS_Surjection
  <1>7. IsFiniteSet(NodesOf(g))
    BY <1>4, <1>5, <1>6, FS_UNION
  <1> QED
    BY <1>7, FS_CardinalityType DEF Nodes

\* A union makes no node: at most two become one.
LEMMA UnitedAddsNoNode ==
  ASSUME NEW g \in Graph, FiniteNodes(g), Forest(g),
         NEW a \in Made(g), NEW b \in Made(g), g.leader[a] \in Made(g), g.leader[b] \in Made(g),
         NEW why
  PROVE  Nodes(United(g, a, b, why)) <= Nodes(g)
  <1> DEFINE kept == Survivor(g, a, b)
             gone == Absorbed(g, a, b)
             h == United(g, a, b, why)
             S == NodesOf(g)
             goes == [p \in S |-> <<IF p[1] = gone THEN kept ELSE p[1], p[2]>>]
             T == {goes[p] : p \in S}
  <1>1. IsFiniteSet(S) /\ Nodes(g) = Cardinality(S) /\ Nodes(g) \in Nat
    BY NodesCount DEF Nodes
  <1>2. CASE kept = gone
    <2>1. h = g
      BY <1>2 DEF United
    <2> QED
      BY <1>1, <2>1
  <1>3. CASE kept # gone
    <2>1. /\ kept \in Id /\ gone \in Id /\ kept \in Classes(g) /\ gone \in Classes(g)
          /\ g.nodes \in [Id -> SUBSET Node] /\ g.leader \in [Id -> Id] /\ Made(g) \subseteq Id
      BY MadeIds DEF Survivor, Absorbed, Find, Forest, Classes, Graph
    <2>2. /\ h.nodes = [g.nodes EXCEPT ![kept] = @ \cup g.nodes[gone], ![gone] = {}]
          /\ h.leader = [i \in Id |-> IF g.leader[i] = gone THEN kept ELSE g.leader[i]]
          /\ h.made = g.made
      BY <1>3 DEF United, Graph
    <2> HIDE DEF h, kept, gone
    <2>3. \A c \in Classes(h) : c \in Classes(g)
      BY <2>1, <2>2 DEF Classes, Made
    <2>4. ASSUME NEW c \in Classes(h), NEW n \in h.nodes[c] PROVE <<c, n>> \in T
      <3>1. c \in Classes(g) /\ c \in Id
        BY <2>1, <2>3 DEF Classes
      <3>2. c # gone /\ (n \in g.nodes[c] \/ (c = kept /\ n \in g.nodes[gone]))
        BY <1>3, <2>1, <2>2, <2>4, <3>1
      <3>3. CASE n \in g.nodes[c]
        <4>1. <<c, n>> \in S
          BY <3>1, <3>3 DEF NodesOf
        <4>2. goes[<<c, n>>] = <<c, n>>
          BY <3>2, <4>1
        <4> QED
          BY <4>1, <4>2
      <3>4. CASE c = kept /\ n \in g.nodes[gone]
        <4>1. <<gone, n>> \in S
          BY <2>1, <3>4 DEF NodesOf
        <4>2. goes[<<gone, n>>] = <<c, n>>
          BY <3>4, <4>1
        <4> QED
          BY <4>1, <4>2
      <3> QED
        BY <3>2, <3>3, <3>4
    <2>5. NodesOf(h) \subseteq T
      <3> HIDE DEF T
      <3> QED
        BY <2>4 DEF NodesOf
    <2>6. goes \in Surjection(S, T)
      BY DEF Surjection
    <2> HIDE DEF goes, T, S
    <2>7. IsFiniteSet(T) /\ Cardinality(T) <= Cardinality(S)
      BY <1>1, <2>6, FS_Surjection
    <2>8. IsFiniteSet(NodesOf(h)) /\ Cardinality(NodesOf(h)) <= Cardinality(T)
      BY <2>5, <2>7, FS_Subset
    <2>9. /\ Cardinality(NodesOf(h)) \in Nat /\ Cardinality(T) \in Nat /\ Cardinality(S) \in Nat
      BY <1>1, <2>7, <2>8, FS_CardinalityType
    <2> QED
      BY <1>1, <2>7, <2>8, <2>9 DEF Nodes, h
  <1> QED
    BY <1>2, <1>3

\* What is built on a graph has a node more for each id that was made.
LEMMA GoesOnCounts ==
  ASSUME NEW x, NEW b, GoesOn(x, b), x.graph \in Graph, b.graph \in Graph,
         FiniteNodes(x.graph), FiniteNodes(b.graph)
  PROVE  Nodes(x.graph) <= Nodes(b.graph) + (x.graph.made - b.graph.made)
  <1> DEFINE g == x.graph
             h == b.graph
             New == h.made .. g.made - 1
             Z == UNION {{<<c, n>> : n \in g.nodes[c]} : c \in New}
             f == [p \in Z |-> p[1]]
  <1>1. /\ IsFiniteSet(NodesOf(g)) /\ Nodes(g) \in Nat /\ IsFiniteSet(NodesOf(h)) /\ Nodes(h) \in Nat
    BY NodesCount
  <1>2. /\ g.made \in Nat /\ h.made \in Nat /\ h.made <= g.made /\ g.leader = h.leader
        /\ \A c \in Made(h) : g.nodes[c] = h.nodes[c]
        /\ \A c \in New : \E n : g.nodes[c] = {n}
    <2>1. g.made \in Nat /\ h.made \in Nat
      BY MadeIds
    <2>2. \A c \in New : c \in Made(g) \ Made(h)
      BY <2>1 DEF Made
    <2> QED
      BY <2>1, <2>2 DEF GoesOn
  <1> HIDE DEF g, h
  <1>3. NodesOf(g) \subseteq NodesOf(h) \cup Z
    <2> SUFFICES ASSUME NEW c \in Classes(g), NEW n \in g.nodes[c]
                 PROVE  <<c, n>> \in NodesOf(h) \cup Z
      BY DEF NodesOf
    <2>1. c \in Made(h) \/ c \in New
      BY <1>2 DEF Classes, Made
    <2>2. CASE c \in Made(h)
      BY <1>2, <2>2 DEF NodesOf, Classes
    <2>3. CASE c \in New
      BY <2>3
    <2> QED
      BY <2>1, <2>2, <2>3
  <1>4. f \in Injection(Z, New)
    <2>1. \A p \in Z : p[1] \in New /\ p = <<p[1], p[2]>> /\ p[2] \in g.nodes[p[1]]
      OBVIOUS
    <2>2. \A p, q \in Z : p[1] = q[1] => p = q
      <3> TAKE p, q \in Z
      <3> HAVE p[1] = q[1]
      <3>1. p[2] = q[2]
        BY <1>2, <2>1
      <3> HIDE DEF Z
      <3> QED
        BY <2>1, <3>1
    <2> HIDE DEF Z, New
    <2> QED
      BY <2>1, <2>2 DEF Injection, IsInjective
  <1>5. IsFiniteSet(New) /\ Cardinality(New) = g.made - h.made
    <2> DEFINE from == h.made
               to == g.made - 1
    <2>1. from \in Int /\ to \in Int /\ from <= to + 1
      BY <1>2
    <2> HIDE DEF from, to
    <2>2. IsFiniteSet(from .. to) /\ Cardinality(from .. to) = IF from > to THEN 0 ELSE to - from + 1
      BY <2>1, FS_Interval
    <2>3. Cardinality(from .. to) = to + 1 - from
      BY <2>1, <2>2
    <2>4. g.made = to + 1 /\ h.made = from /\ New = from .. to
      BY <1>2 DEF from, to
    <2> HIDE DEF New
    <2>5. Cardinality(New) = to + 1 - from /\ IsFiniteSet(New)
      BY <2>2, <2>3, <2>4
    <2>6. to + 1 - from = g.made - h.made
      BY <2>1, <2>4
    <2> QED
      BY <2>5, <2>6
  <1> HIDE DEF f, Z, New
  <1>6. IsFiniteSet(Z) /\ Cardinality(Z) <= g.made - h.made /\ Cardinality(Z) \in Nat
    BY <1>4, <1>5, FS_Injection, FS_CardinalityType
  <1> DEFINE All == NodesOf(h) \cup Z
             Both == NodesOf(h) \cap Z
  <1>7. IsFiniteSet(All) /\ Cardinality(All) = Nodes(h) + Cardinality(Z) - Cardinality(Both)
    BY <1>1, <1>6, FS_Union DEF Nodes
  <1>8. Cardinality(Both) \in Nat
    BY <1>1, FS_Subset, FS_CardinalityType
  <1> HIDE DEF All, Both
  <1>9. Nodes(g) <= Cardinality(All)
    BY <1>3, <1>7, FS_Subset DEF Nodes, All
  <1>10. Cardinality(All) \in Nat
    BY <1>7, FS_CardinalityType
  <1>11. Nodes(g) <= Nodes(h) + (g.made - h.made)
    BY <1>1, <1>2, <1>6, <1>7, <1>8, <1>9, <1>10
  <1> QED
    BY <1>11 DEF g, h

\* A number times, and once more.
LEMMA OneMore ==
  ASSUME NEW n \in Nat, NEW all \in Nat, NEW s \in Nat, n < all
  PROVE  n * s \in Nat /\ n * s + s = (n + 1) * s /\ (n + 1) * s <= all * s /\ n * s <= all * s
  <1> DEFINE d == all - (n + 1)
  <1>1. d \in Nat /\ all = (n + 1) + d
    OBVIOUS
  <1> HIDE DEF d
  <1>2. n * s \in Nat /\ d * s \in Nat
    BY <1>1
  <1>3. (n + 1) * s = n * s + s
    OBVIOUS
  <1>4. all * s = (n + 1) * s + d * s
    BY <1>1
  <1> QED
    BY <1>2, <1>3, <1>4

\* What the head of the matches is, and how many nodes its rule may add.
LEMMA HeadIsARule ==
  ASSUME SInv, found # <<>>
  PROVE  /\ found[1].rule \in RuleIds /\ IsRule(Rules[found[1].rule])
         /\ SizeOf(Rules[found[1].rule].rhs) \in Nat
         /\ IsLimits(Limits) /\ Limits.nodes \in Nat /\ Limits.checkEvery \in Nat \ {0}
         /\ Nodes(graph) \in Nat
  <1> DEFINE r == Rules[found[1].rule]
  <1>1. found[1] \in Piles(problem, graph, value)
    BY DEF SInv
  <1>2. found[1].rule \in RuleIds
    BY <1>1, PileParts DEF RuleIds, Rules
  <1>3. IsRule(r) /\ IsLimits(Limits)
    BY <1>2, RulesAreRules DEF SInv, Rules, RuleIds, Limits
  <1>4. SizeOf(r.rhs) \in Nat
    <2>1. IsPattern(r.rhs) /\ Len(r.rhs) \in 1 .. Len(r.rhs)
      <3>1. IsPattern(r.rhs)
        BY <1>3 DEF IsRule
      <3> HIDE DEF r
      <3>2. Len(r.rhs) \in Nat \ {0}
        BY <3>1 DEF IsPattern
      <3> QED
        BY <3>1, <3>2
    <2> QED
      BY <2>1, OperatorsCount
  <1>5. Nodes(graph) \in Nat
    BY NodesCount DEF SInv, IInv, TypeOK
  <1> QED
    BY <1>2, <1>3, <1>4, <1>5 DEF IsLimits

\* A match adds no more nodes than the right side has operators.
LEMMA ApplyMatchAdds ==
  ASSUME SInv, ApplyMatch
  PROVE  Nodes(graph') <= Nodes(graph) + SizeOf(Rules[found[1].rule].rhs)
  <1> DEFINE r == Rules[found[1].rule]
             m == found[1].matches[1]
  <1>1. /\ Stands(Begun, Values, repairing)
        /\ \/ graph' = graph
           \/ \E x : Joins(x, r, found[1].rule, m)
    BY ApplyMatchJoins
  <1>2. /\ found # <<>> /\ SizeOf(r.rhs) \in Nat /\ Nodes(graph) \in Nat
        /\ graph \in Graph /\ FiniteNodes(graph) /\ Begun.graph = graph
    BY HeadIsARule DEF ApplyMatch, SInv, IInv, TypeOK, Begun
  <1>3. CASE graph' = graph
    BY <1>2, <1>3
  <1>4. ASSUME NEW x, Joins(x, r, found[1].rule, m)
        PROVE  Nodes(graph') <= Nodes(graph) + SizeOf(r.rhs)
    <2> DEFINE g == x.graph
               a == m.class
               b == Last(x.ids)
               s == SizeOf(r.rhs)
    <2>1. /\ Stands(x, Values, repairing) /\ GoesOn(x, Begun)
          /\ g.made <= graph.made + s /\ a \in Made(g) /\ b \in Made(g)
          /\ graph' = United(g, a, b, RuleOf(found[1].rule))
      BY <1>2, <1>4 DEF Joins, Applies
    <2>2. g \in Graph /\ Sound(g, x.value) /\ Forest(g) /\ FiniteNodes(g)
      BY <1>2, <2>1, GoesOnFinite DEF Stands, Closed, Sound
    <2>3. Nodes(g) <= Nodes(graph) + (g.made - graph.made)
      BY <1>2, <2>1, <2>2, GoesOnCounts
    <2>4. g.leader[a] \in Made(g) /\ g.leader[b] \in Made(g)
      BY <2>1, <2>2, MadeIds DEF Sound, LeadersAgree
    <2> HIDE DEF a, b, g
    <2>5. Nodes(graph') <= Nodes(g)
      BY <2>1, <2>2, <2>4, UnitedAddsNoNode
    <2>6. Nodes(g) \in Nat /\ g.made \in Nat /\ graph.made \in Nat /\ s \in Nat
      BY <1>2, <2>2, NodesCount, MadeIds
    <2>7. Nodes(graph') \in Nat
      <3>1. FiniteNodes(graph')
        BY <2>1, <2>2, MadeIds, UnitedIsFinite
      <3>2. graph' \in Graph
        BY ApplyMatchKeeps DEF SInv, IInv, TypeOK
      <3> QED
        BY <3>1, <3>2, NodesCount
    <2> HIDE DEF s
    <2>8. Nodes(graph') <= Nodes(graph) + s
      BY <1>2, <2>1, <2>3, <2>5, <2>6, <2>7
    <2> QED
      BY <2>8 DEF s
  <1> QED
    BY <1>1, <1>3, <1>4

LEMMA ApplyMatchNears ==
  ASSUME SInv, Near, ApplyMatch
  PROVE  Near'
  <1> DEFINE head == found[1]
             s == SizeOf(Rules[head.rule].rhs)
             L == Limits.nodes
             K == Limits.checkEvery
             n == Nodes(graph)
             n1 == Nodes(graph')
             now == Budgeted(since + 1)
             stop == now = 0 /\ (late \/ n1 > L)
             e == [head EXCEPT !.matches = IF stop THEN <<>> ELSE Tail(head.matches)]
  <1>1. /\ step = "apply" /\ found # <<>> /\ head.matches # <<>>
        /\ since' = now /\ step' = step /\ problem' = problem
        /\ found' = [found EXCEPT ![1].matches = IF stop THEN <<>> ELSE Tail(@)]
    <2>1. step = "apply" /\ found # <<>> /\ head.matches # <<>>
      <3> HIDE DEF head
      <3>1. Head(found) = head
        BY DEF head
      <3> QED
        BY <3>1 DEF ApplyMatch
    <2>2. since' = now /\ step' = step /\ problem' = problem
      BY DEF ApplyMatch
    <2>3. found' = [found EXCEPT ![1].matches = IF stop THEN <<>> ELSE Tail(@)]
      BY DEF ApplyMatch
    <2> QED
      BY <2>1, <2>2, <2>3
  <1>2. s \in Nat /\ L \in Nat /\ K \in Nat \ {0} /\ n \in Nat
    BY <1>1, HeadIsARule
  <1>3. n1 \in Nat
    BY ApplyMatchKeeps, NodesCount DEF SInv, IInv, TypeOK
  <1>4. n1 <= n + s
    BY ApplyMatchAdds
  <1>5. since \in Nat /\ since < K /\ n <= L + since * s
    BY <1>1 DEF Near, HeadNear
  <1>6. /\ Limits' = Limits /\ Rules' = Rules /\ Nodes(graph)' = n1
    BY <1>1 DEF Limits, Rules, Nodes, NodesOf
  <1>7. found'[1] = e /\ e.rule = head.rule
    <2>1. head \in Piles(problem, graph, value) /\ Len(found) \in Nat /\ 1 \in 1 .. Len(found)
          /\ DOMAIN found = 1 .. Len(found)
      BY <1>1 DEF SInv
    <2>2. head = [rule |-> head.rule, matches |-> head.matches]
      BY <2>1, PileParts
    <2>3. found'[1] = e
      BY <1>1, <2>1
    <2>4. e.rule = head.rule
      <3> HIDE DEF head, stop
      <3> QED
        BY <2>2
    <2> QED
      BY <2>3, <2>4
  <1>8. since' = IF since + 1 >= K THEN 0 ELSE since + 1
    BY <1>1 DEF Budgeted
  <1>9. stop => e.matches = <<>>
    <2>1. head \in Piles(problem, graph, value)
      BY <1>1 DEF SInv
    <2>2. head = [rule |-> head.rule, matches |-> head.matches]
      BY <2>1, PileParts
    <2> HIDE DEF head, stop
    <2> QED
      BY <2>2
  <1>10. ~ stop /\ since' = 0 => n1 <= L
    BY <1>1, <1>2, <1>3
  <1> HIDE DEF e, stop, now, n, n1, L, K, s, head
  <1>11. since' \in Nat /\ since' < K
    BY <1>2, <1>5, <1>8
  <1>12. n1 <= L + K * s
    BY <1>2, <1>3, <1>4, <1>5, OneMore
  <1>13. since' # 0 => n1 <= L + since' * s
    <2> SUFFICES ASSUME since' # 0 PROVE n1 <= L + since' * s
      OBVIOUS
    <2>1. since' = since + 1
      BY <1>8
    <2>2. n1 <= L + (since + 1) * s
      BY <1>2, <1>3, <1>4, <1>5, OneMore
    <2> QED
      BY <2>1, <2>2
  <1>14. e.matches # <<>> => n1 <= L + since' * s
    <2> SUFFICES ASSUME e.matches # <<>>, since' = 0 PROVE n1 <= L + since' * s
      BY <1>13
    <2>1. n1 <= L /\ 0 * s = 0
      BY <1>2, <1>9, <1>10
    <2> QED
      BY <1>2, <1>3, <2>1
  <1>15. HeadNear'
    <2>1. /\ SizeOf(Rules[found[1].rule].rhs)' = s /\ (Limits.nodes)' = L /\ (Limits.checkEvery)' = K
          /\ Nodes(graph)' = n1 /\ (found[1].matches)' = e.matches
      BY <1>6, <1>7 DEF s, L, K, head
    <2> QED
      BY <1>11, <1>12, <1>14, <2>1 DEF HeadNear
  <1> QED
    BY <1>1, <1>11, <1>15 DEF Near

\* Where a rule is about to be applied, and the budget was just looked at.
Fresh == SInv /\ found # <<>> /\ Nodes(graph) <= Limits.nodes /\ since = 0

LEMMA FreshIsNear == Fresh => HeadNear
  <1> SUFFICES ASSUME Fresh PROVE HeadNear
    OBVIOUS
  <1> DEFINE s == SizeOf(Rules[found[1].rule].rhs)
             L == Limits.nodes
             K == Limits.checkEvery
  <1>1. s \in Nat /\ L \in Nat /\ K \in Nat \ {0} /\ Nodes(graph) \in Nat
    BY HeadIsARule DEF Fresh
  <1> HIDE DEF s, L, K
  <1>2. 0 * s = 0 /\ 0 < K
    BY <1>1
  <1>3. K * s \in Nat
    BY <1>1
  <1>4. Nodes(graph) <= L + 0 * s /\ Nodes(graph) <= L + K * s
    BY <1>1, <1>2, <1>3 DEF L, Fresh
  <1> QED
    BY <1>2, <1>4 DEF HeadNear, Fresh, s, L, K

LEMMA FreshIsNearNext == (Fresh => HeadNear)'
  BY FreshIsNear, PTL

LEMMA LoopNears ==
  ASSUME SInv, SInv', Near, RNext
  PROVE  Near'
  <1> DEFINE same == UNCHANGED graph /\ UNCHANGED problem
  <1>1. same => Nodes(graph)' = Nodes(graph) /\ Limits' = Limits /\ Rules' = Rules
    BY DEF Nodes, NodesOf, Limits, Rules
  <1>2. ASSUME UNCHANGED since, step' \notin {"search", "apply"} PROVE Near'
    BY <1>2 DEF Near
  <1>3. ASSUME same, UNCHANGED <<found, since, step>> PROVE Near'
    BY <1>1, <1>3 DEF Near, HeadNear
  <1>4. Begin => Near'
    BY <1>2 DEF Begin
  <1>5. BeginPass => Near'
    <2> SUFFICES ASSUME BeginPass PROVE Near'
      OBVIOUS
    <2>1. CASE step' = "last"
      BY <1>2, <2>1 DEF BeginPass, Stop
    <2>2. CASE step' # "last"
      <3>1. LimitAt = None /\ same /\ UNCHANGED since /\ step' = "search"
        BY <2>2 DEF BeginPass, Stop, vars
      <3>2. ~ (Nodes(graph) > Limits.nodes)
        BY <3>1, NoneIsNoReason DEF LimitAt
      <3>3. Nodes(graph) \in Nat /\ Limits.nodes \in Nat
        BY NodesCount, RulesAreRules DEF SInv, IInv, TypeOK, Limits, IsLimits
      <3> QED
        BY <1>1, <3>1, <3>2, <3>3 DEF Near
    <2> QED
      BY <2>1, <2>2
  <1>6. SearchRule => Near'
    <2> SUFFICES ASSUME SearchRule PROVE Near'
      OBVIOUS
    <2>1. same /\ UNCHANGED since /\ step' = "search" /\ step = "search"
      BY DEF SearchRule, vars
    <2> QED
      BY <1>1, <2>1 DEF Near
  <1>7. SkipBanned => Near'
    BY <1>3 DEF SkipBanned, vars
  <1>8. EndSearch => Near'
    <2> SUFFICES ASSUME EndSearch PROVE Near'
      OBVIOUS
    <2>1. same /\ since' = 0 /\ step' = "apply" /\ step = "search"
      BY DEF EndSearch, vars
    <2>2. (Nodes(graph) <= Limits.nodes)'
      BY <1>1, <2>1 DEF Near
    <2>3. (found # <<>> => HeadNear)'
      BY <2>1, <2>2, FreshIsNearNext DEF Fresh
    <2> QED
      BY <2>1, <2>3 DEF Near
  <1>9. ApplyMatch => Near'
    BY ApplyMatchNears
  <1>10. EndRule => Near'
    <2> SUFFICES ASSUME EndRule PROVE Near'
      OBVIOUS
    <2> DEFINE full == IF Nodes(graph) > 2 * Limits.nodes THEN "nodes" ELSE Spent
    <2>1. /\ same /\ since' = 0 /\ step' = "apply"
          /\ found' = IF full # None THEN <<>> ELSE Tail(found)
      BY DEF EndRule, vars
    <2>2. Nodes(graph) \in Nat /\ Limits.nodes \in Nat
      BY NodesCount, RulesAreRules DEF SInv, IInv, TypeOK, Limits, IsLimits
    <2>3. full = None => Nodes(graph) <= Limits.nodes
      BY <2>2, NoneIsNoReason DEF Spent
    <2>4. (found # <<>> => Nodes(graph) <= Limits.nodes)'
      BY <1>1, <2>1, <2>3
    <2>5. (found # <<>> => HeadNear)'
      BY <2>1, <2>4, FreshIsNearNext DEF Fresh
    <2> QED
      BY <2>1, <2>5 DEF Near
  <1>11. EndApply => Near'
    BY <1>2 DEF EndApply
  <1>12. RebuildOn => Near'
    BY <1>2 DEF RebuildOn, Rebuilding, runVars
  <1>13. EndPass => Near'
    BY <1>2 DEF EndPass, Stop, NextPass
  <1>14. Done => Near'
    BY <1>2 DEF Done
  <1>15. TimePasses => Near'
    BY <1>3 DEF TimePasses, vars
  <1>16. Ended => Near'
    BY <1>3 DEF Ended, allVars, vars, runVars
  <1> QED
    BY <1>4, <1>5, <1>6, <1>7, <1>8, <1>9, <1>10, <1>11, <1>12, <1>13, <1>14, <1>15, <1>16
    DEF RNext, Loop

\* A rule that explodes is stopped near the node limit: past it by no more than the
\* matches between two looks at the budget may add, each of them as many nodes as
\* the right side has operators, whatever was found and whatever a union merges
\* (apply_matches, since_check, runner.rs:435-456).
THEOREM TheNodeLimitIsKept == RSpec => []StaysNearTheLimit
  <1>1. RInit => Near
    <2> SUFFICES ASSUME RInit PROVE Near
      OBVIOUS
    <2> QED
      BY DEF RInit, Near
  <1>2. SInv /\ SInv' /\ Near /\ [RNext]_allVars => Near'
    <2> SUFFICES ASSUME Near, UNCHANGED allVars PROVE Near'
      BY LoopNears
    <2> QED
      BY DEF Near, HeadNear, Nodes, NodesOf, Limits, Rules, allVars, vars, runVars
  <1>3. SInv /\ Near => StaysNearTheLimit
    <2> SUFFICES ASSUME SInv, Near, step = "apply", found # <<>>
                 PROVE  Nodes(graph) <= Limits.nodes + Limits.checkEvery * SizeOf(Rules[Head(found).rule].rhs)
      BY DEF StaysNearTheLimit
    <2> DEFINE s == SizeOf(Rules[found[1].rule].rhs)
               L == Limits.nodes
               K == Limits.checkEvery
    <2>1. s \in Nat /\ L \in Nat /\ K \in Nat \ {0} /\ Nodes(graph) \in Nat /\ since \in Nat
      BY HeadIsARule DEF Near
    <2>2. \/ Nodes(graph) <= L + K * s
          \/ since < K /\ Nodes(graph) <= L + since * s
      BY DEF Near, HeadNear
    <2>3. Head(found) = found[1]
      OBVIOUS
    <2> HIDE DEF s, L, K
    <2>4. Nodes(graph) <= L + K * s
      BY <2>1, <2>2, OneMore
    <2> QED
      BY <2>3, <2>4 DEF s, L, K
  <1> QED
    BY StartHolds, StepKeepsS, <1>1, <1>2, <1>3, PTL DEF RSpec

----------------------------------------------------------------------------
(* What a node costs: a natural number, more than any of its arguments, and  *)
(* no more when they get cheaper.                                           *)

LEMMA SumsOfTwo ==
  /\ SumOver(<<>>) = 0 /\ MaxOver(<<>>) = 0
  /\ \A x \in Nat : SumOver(<<x>>) = x /\ MaxOver(<<x>>) = x
  /\ \A x, y \in Nat : SumOver(<<x, y>>) = x + y /\ MaxOver(<<x, y>>) = Larger(y, x)
  <1> DEFINE IsSum(s, f) == f = [k \in 0 .. Len(s) |-> IF k = 0 THEN 0 ELSE f[k - 1] + s[k]]
             IsMax(s, f) == f = [k \in 0 .. Len(s) |-> IF k = 0 THEN 0 ELSE Larger(s[k], f[k - 1])]
  <1>1. \A s : /\ SumOver(s) = (CHOOSE f : IsSum(s, f))[Len(s)]
               /\ MaxOver(s) = (CHOOSE f : IsMax(s, f))[Len(s)]
    BY DEF SumOver, MaxOver
  <1>2. ASSUME NEW s, NEW f, IsSum(s, f) PROVE IsSum(s, CHOOSE g : IsSum(s, g))
    <2> HIDE DEF IsSum
    <2> QED
      BY <1>2
  <1>3. ASSUME NEW s, NEW f, IsMax(s, f) PROVE IsMax(s, CHOOSE g : IsMax(s, g))
    <2> HIDE DEF IsMax
    <2> QED
      BY <1>3
  <1>4. SumOver(<<>>) = 0 /\ MaxOver(<<>>) = 0
    <2>1. IsSum(<<>>, [k \in 0 .. 0 |-> 0]) /\ IsMax(<<>>, [k \in 0 .. 0 |-> 0])
      OBVIOUS
    <2>2. IsSum(<<>>, CHOOSE g : IsSum(<<>>, g)) /\ IsMax(<<>>, CHOOSE g : IsMax(<<>>, g))
      BY <2>1, <1>2, <1>3
    <2>3. \A f : (IsSum(<<>>, f) => f[0] = 0) /\ (IsMax(<<>>, f) => f[0] = 0)
      OBVIOUS
    <2>4. Len(<<>>) = 0
      OBVIOUS
    <2> HIDE DEF IsSum, IsMax
    <2> QED
      BY <1>1, <2>2, <2>3, <2>4
  <1>5. ASSUME NEW x \in Nat PROVE SumOver(<<x>>) = x /\ MaxOver(<<x>>) = x
    <2>1. /\ IsSum(<<x>>, [k \in 0 .. 1 |-> IF k = 0 THEN 0 ELSE x])
          /\ IsMax(<<x>>, [k \in 0 .. 1 |-> IF k = 0 THEN 0 ELSE x])
      BY DEF Larger
    <2>2. IsSum(<<x>>, CHOOSE g : IsSum(<<x>>, g)) /\ IsMax(<<x>>, CHOOSE g : IsMax(<<x>>, g))
      BY <2>1, <1>2, <1>3
    <2>3. \A f : (IsSum(<<x>>, f) => f[1] = x) /\ (IsMax(<<x>>, f) => f[1] = x)
      BY DEF Larger
    <2>4. Len(<<x>>) = 1
      OBVIOUS
    <2> HIDE DEF IsSum, IsMax
    <2> QED
      BY <1>1, <2>2, <2>3, <2>4
  <1>6. ASSUME NEW x \in Nat, NEW y \in Nat
        PROVE  SumOver(<<x, y>>) = x + y /\ MaxOver(<<x, y>>) = Larger(y, x)
    <2> DEFINE s == <<x, y>>
    <2>1. Len(s) = 2 /\ s[1] = x /\ s[2] = y
      OBVIOUS
    <2> HIDE DEF s
    <2>2. /\ IsSum(s, [k \in 0 .. 2 |-> IF k = 0 THEN 0 ELSE IF k = 1 THEN x ELSE x + y])
          /\ IsMax(s, [k \in 0 .. 2 |-> IF k = 0 THEN 0 ELSE IF k = 1 THEN x ELSE Larger(y, x)])
      BY <2>1 DEF Larger
    <2>3. IsSum(s, CHOOSE g : IsSum(s, g)) /\ IsMax(s, CHOOSE g : IsMax(s, g))
      BY <2>2, <1>2, <1>3
    <2>4. \A f : (IsSum(s, f) => f[2] = x + y) /\ (IsMax(s, f) => f[2] = Larger(y, x))
      <3> TAKE f
      <3>1. ASSUME IsSum(s, f) PROVE f[2] = x + y
        <4>1. f[0] = 0 /\ f[1] = f[0] + s[1] /\ f[2] = f[1] + s[2]
          BY <2>1, <3>1
        <4> QED
          BY <2>1, <4>1
      <3>2. ASSUME IsMax(s, f) PROVE f[2] = Larger(y, x)
        <4>1. f[0] = 0 /\ f[1] = Larger(s[1], f[0]) /\ f[2] = Larger(s[2], f[1])
          BY <2>1, <3>2
        <4>2. f[1] = x
          BY <2>1, <4>1 DEF Larger
        <4> QED
          BY <2>1, <4>1, <4>2
      <3> QED
        BY <3>1, <3>2
    <2> HIDE DEF IsSum, IsMax
    <2>5. SumOver(s) = x + y /\ MaxOver(s) = Larger(y, x)
      BY <1>1, <2>1, <2>3, <2>4
    <2> QED
      BY <2>5 DEF s
  <1> QED
    BY <1>4, <1>5, <1>6

LEMMA KidsAreFew ==
  ASSUME NEW n \in Node
  PROVE  /\ Price(n.op) \in Nat \ {0}
         /\ \/ n.kids = <<>>
            \/ \E i \in Id : n.kids = <<i>>
            \/ \E i, j \in Id : n.kids = <<i, j>>
  <1>1. CASE n \in [op : Var \cup Number, kids : {<<>>}]
    BY <1>1, NothingIsFree
  <1>2. CASE n \in [op : Unary, kids : {<<i>> : i \in Id}]
    BY <1>2, NothingIsFree
  <1>3. CASE n \in [op : Commutative, kids : Id \X Id]
    BY <1>3, NothingIsFree
  <1> QED
    BY <1>1, <1>2, <1>3 DEF Node

\* What is charged for an argument is less than for the node, and a node costs no
\* more when its arguments do not (CostFunction::cost).
LEMMA NodeCosts ==
  ASSUME NEW model, NEW n \in Node, NEW f \in [DOMAIN n.kids -> Nat]
  PROVE  /\ NodeCost(model, n, f) \in Nat \ {0}
         /\ \A k \in DOMAIN n.kids : f[k] < NodeCost(model, n, f)
         /\ \A h \in [DOMAIN n.kids -> Nat] :
              (\A k \in DOMAIN n.kids : h[k] <= f[k])
                => NodeCost(model, n, h) <= NodeCost(model, n, f)
  <1> DEFINE Is(h, s, t) == SumOver(h) = s /\ MaxOver(h) = t
  <1>1. Price(n.op) \in Nat \ {0}
    BY KidsAreFew
  <1>2. CASE n.kids = <<>>
    <2>1. \A h \in [DOMAIN n.kids -> Nat] : h = <<>>
      BY <1>2
    <2>2. \A h \in [DOMAIN n.kids -> Nat] : NodeCost(model, n, h) = IF model = "depth" THEN 1 ELSE Price(n.op)
      BY <1>1, <2>1, SumsOfTwo DEF NodeCost
    <2>3. DOMAIN n.kids = {}
      BY <1>2
    <2>4. \A h \in [DOMAIN n.kids -> Nat] : NodeCost(model, n, h) = NodeCost(model, n, f)
      BY <2>2
    <2>5. NodeCost(model, n, f) \in Nat \ {0}
      BY <1>1, <2>2
    <2> QED
      BY <2>3, <2>4, <2>5
  <1>3. ASSUME NEW i \in Id, n.kids = <<i>>
        PROVE  /\ NodeCost(model, n, f) \in Nat \ {0}
               /\ \A k \in DOMAIN n.kids : f[k] < NodeCost(model, n, f)
               /\ \A h \in [DOMAIN n.kids -> Nat] :
                    (\A k \in DOMAIN n.kids : h[k] <= f[k])
                      => NodeCost(model, n, h) <= NodeCost(model, n, f)
    <2>1. DOMAIN n.kids = 1 .. 1
      BY <1>3
    <2>2. \A h \in [1 .. 1 -> Nat] : h = <<h[1]>> /\ h[1] \in Nat
      OBVIOUS
    <2>3. \A h \in [1 .. 1 -> Nat] :
            NodeCost(model, n, h) = IF model = "depth" THEN 1 + h[1] ELSE Price(n.op) + h[1]
      BY <2>2, SumsOfTwo DEF NodeCost
    <2> QED
      BY <1>1, <2>1, <2>2, <2>3
  <1>4. ASSUME NEW i \in Id, NEW j \in Id, n.kids = <<i, j>>
        PROVE  /\ NodeCost(model, n, f) \in Nat \ {0}
               /\ \A k \in DOMAIN n.kids : f[k] < NodeCost(model, n, f)
               /\ \A h \in [DOMAIN n.kids -> Nat] :
                    (\A k \in DOMAIN n.kids : h[k] <= f[k])
                      => NodeCost(model, n, h) <= NodeCost(model, n, f)
    <2>1. DOMAIN n.kids = 1 .. 2
      BY <1>4
    <2>2. \A h \in [1 .. 2 -> Nat] : h = <<h[1], h[2]>> /\ h[1] \in Nat /\ h[2] \in Nat
      OBVIOUS
    <2>3. \A h \in [1 .. 2 -> Nat] :
            NodeCost(model, n, h) = IF model = "depth" THEN 1 + Larger(h[2], h[1])
                                    ELSE Price(n.op) + (h[1] + h[2])
      BY <2>2, SumsOfTwo DEF NodeCost
    <2> QED
      BY <1>1, <2>1, <2>2, <2>3 DEF Larger
  <1> QED
    BY <1>2, <1>3, <1>4, KidsAreFew

----------------------------------------------------------------------------
(* What is charged.                                                         *)

\* A graph that terms can be taken out of.
Extractable(g) ==
  /\ g \in Graph /\ FiniteNodes(g)
  /\ \A c \in Classes(g) : \A n \in g.nodes[c] :
       n \in Node /\ \A k \in DOMAIN n.kids : Find(g, n.kids[k]) \in Classes(g)

\* Each argument has a cost or none is asked for.
Priced(g, free, costs, n) ==
  ArgClasses(g, n) \subseteq free \cup DOMAIN costs
    /\ \A d \in ArgClasses(g, n) \ free : costs[d] \in Nat

LEMMA ChargeCounts ==
  ASSUME NEW g, NEW model, NEW free, NEW costs, NEW n \in Node, Priced(g, free, costs, n)
  PROVE  /\ Charge(g, model, free, costs, n) \in Nat \ {0}
         /\ \A d \in ArgClasses(g, n) \ free : costs[d] < Charge(g, model, free, costs, n)
  <1> DEFINE f == [k \in DOMAIN n.kids |->
                    LET c == Find(g, n.kids[k]) IN IF c \in free THEN 0 ELSE costs[c]]
  <1>1. f \in [DOMAIN n.kids -> Nat]
    BY DEF Priced, ArgClasses
  <1>2. Charge(g, model, free, costs, n) = NodeCost(model, n, f)
    BY DEF Charge
  <1>3. \A d \in ArgClasses(g, n) \ free : \E k \in DOMAIN n.kids : f[k] = costs[d]
    BY DEF ArgClasses
  <1> HIDE DEF f
  <1> QED
    BY <1>1, <1>2, <1>3, NodeCosts

\* Cheaper arguments make a node no dearer.
LEMMA ChargeFalls ==
  ASSUME NEW g, NEW model, NEW free, NEW costs, NEW lower, NEW n \in Node,
         Priced(g, free, costs, n),
         \A d \in ArgClasses(g, n) \ free :
           d \in DOMAIN lower /\ lower[d] \in Nat /\ lower[d] <= costs[d]
  PROVE  /\ Priced(g, free, lower, n)
         /\ Charge(g, model, free, lower, n) <= Charge(g, model, free, costs, n)
  <1> DEFINE At(u) == [k \in DOMAIN n.kids |->
                         LET c == Find(g, n.kids[k]) IN IF c \in free THEN 0 ELSE u[c]]
  <1>1. Priced(g, free, lower, n)
    BY DEF Priced
  <1>2. At(costs) \in [DOMAIN n.kids -> Nat] /\ At(lower) \in [DOMAIN n.kids -> Nat]
    BY <1>1 DEF Priced, ArgClasses
  <1>3. \A k \in DOMAIN n.kids : At(lower)[k] <= At(costs)[k]
    BY DEF ArgClasses
  <1>4. \A u : Charge(g, model, free, u, n) = NodeCost(model, n, At(u))
    BY DEF Charge
  <1> HIDE DEF At
  <1> QED
    BY <1>1, <1>2, <1>3, <1>4, NodeCosts

----------------------------------------------------------------------------
(* Selections: what they are, and what a visit to a class does to one.       *)

Entries == [node : Node, cost : Nat]
PartialSelections(g) == UNION {[D -> Entries] : D \in SUBSET Classes(g)}

\* Each class it has takes a node of it whose arguments it has or are free, and
\* costs what that node does, or more while arguments have become cheaper.
Selects(g, model, free, b) ==
  \A c \in DOMAIN b :
    /\ b[c].node \in g.nodes[c]
    /\ ArgClasses(g, b[c].node) \subseteq free \cup DOMAIN b
    /\ Charge(g, model, free, CostsOf(b), b[c].node) <= b[c].cost

Selections(g, model, free) == {b \in PartialSelections(g) : Selects(g, model, free, b)}

\* No class is lost or gets dearer.
Falls(b, h) ==
  DOMAIN b \subseteq DOMAIN h /\ \A c \in DOMAIN b : h[c].cost <= b[c].cost

\* The one is the other, or some class is new or cheaper.
Moves(b, h) ==
  h = b \/ \E c \in DOMAIN h : c \in DOMAIN b => h[c].cost < b[c].cost

\* A class costs no more than any node of it by the costs there were.
Covers(g, model, free, b, h, c) ==
  \A n \in Ready(g, free, CostsOf(b), c) :
    c \in DOMAIN h /\ h[c].cost <= Charge(g, model, free, CostsOf(b), n)

LEMMA SelectionParts ==
  ASSUME NEW g, NEW model, NEW free, NEW b \in Selections(g, model, free)
  PROVE  /\ b = [c \in DOMAIN b |-> b[c]]
         /\ DOMAIN b \subseteq Classes(g) /\ Selects(g, model, free, b)
         /\ \A c \in DOMAIN b : b[c] \in Entries /\ b[c].node \in Node /\ b[c].cost \in Nat
         /\ DOMAIN CostsOf(b) = DOMAIN b
         /\ \A c \in DOMAIN b : CostsOf(b)[c] = b[c].cost
  <1>1. PICK D \in SUBSET Classes(g) : b \in [D -> Entries]
    BY DEF Selections, PartialSelections
  <1>2. Selects(g, model, free, b)
    BY DEF Selections
  <1> QED
    BY <1>1, <1>2 DEF Entries, CostsOf

LEMMA SelectionIs ==
  ASSUME NEW g, NEW model, NEW free, NEW D \in SUBSET Classes(g), NEW b \in [D -> Entries],
         Selects(g, model, free, b)
  PROVE  b \in Selections(g, model, free)
  BY DEF Selections, PartialSelections

LEMMA FallsFurther ==
  ASSUME NEW g, NEW model, NEW free, NEW b \in Selections(g, model, free),
         NEW h \in Selections(g, model, free), NEW q \in Selections(g, model, free),
         Falls(b, h), Falls(h, q)
  PROVE  Falls(b, q)
  <1>1. \A c \in DOMAIN b : /\ b[c].cost \in Nat /\ h[c].cost \in Nat /\ q[c].cost \in Nat
                            /\ h[c].cost <= b[c].cost /\ q[c].cost <= h[c].cost
    BY SelectionParts DEF Falls
  <1> QED
    BY <1>1 DEF Falls

\* A node that can be taken is priced.
LEMMA ReadyIsPriced ==
  ASSUME NEW g, Extractable(g), NEW model, NEW free, NEW b \in Selections(g, model, free),
         NEW c \in Classes(g), NEW n \in Ready(g, free, CostsOf(b), c)
  PROVE  n \in Node /\ n \in g.nodes[c] /\ Priced(g, free, CostsOf(b), n)
  <1>1. n \in Node /\ n \in g.nodes[c] /\ ArgClasses(g, n) \subseteq free \cup DOMAIN CostsOf(b)
    BY DEF Ready, Extractable
  <1>2. \A d \in DOMAIN CostsOf(b) : CostsOf(b)[d] \in Nat
    BY SelectionParts
  <1> QED
    BY <1>1, <1>2 DEF Priced

\* A node that could be taken still can, and is charged no more.
LEMMA ReadyStays ==
  ASSUME NEW g, Extractable(g), NEW model, NEW free, NEW b \in Selections(g, model, free),
         NEW h \in Selections(g, model, free), Falls(b, h),
         NEW c \in Classes(g), NEW n \in Ready(g, free, CostsOf(b), c)
  PROVE  /\ n \in Ready(g, free, CostsOf(h), c)
         /\ Charge(g, model, free, CostsOf(h), n) <= Charge(g, model, free, CostsOf(b), n)
  <1>1. n \in Node /\ n \in g.nodes[c] /\ Priced(g, free, CostsOf(b), n)
    BY ReadyIsPriced
  <1>2. \A d \in ArgClasses(g, n) \ free :
          d \in DOMAIN CostsOf(h) /\ CostsOf(h)[d] \in Nat /\ CostsOf(h)[d] <= CostsOf(b)[d]
    <2> TAKE d \in ArgClasses(g, n) \ free
    <2>1. d \in DOMAIN b
      BY <1>1, SelectionParts DEF Priced
    <2> QED
      BY <2>1, SelectionParts DEF Falls
  <1>3. /\ Priced(g, free, CostsOf(h), n)
        /\ Charge(g, model, free, CostsOf(h), n) <= Charge(g, model, free, CostsOf(b), n)
    BY <1>1, <1>2, ChargeFalls
  <1> QED
    BY <1>1, <1>3 DEF Ready, Priced

LEMMA CoversStill ==
  ASSUME NEW g, Extractable(g), NEW model, NEW free, NEW b \in Selections(g, model, free),
         NEW h \in Selections(g, model, free), NEW q \in Selections(g, model, free),
         NEW c \in Classes(g), Falls(h, q), Covers(g, model, free, b, h, c)
  PROVE  Covers(g, model, free, b, q, c)
  <1> SUFFICES ASSUME NEW n \in Ready(g, free, CostsOf(b), c)
               PROVE  c \in DOMAIN q /\ q[c].cost <= Charge(g, model, free, CostsOf(b), n)
    BY DEF Covers
  <1>1. c \in DOMAIN h /\ h[c].cost <= Charge(g, model, free, CostsOf(b), n)
    BY DEF Covers
  <1>2. c \in DOMAIN q /\ q[c].cost <= h[c].cost /\ q[c].cost \in Nat /\ h[c].cost \in Nat
    BY <1>1, SelectionParts DEF Falls
  <1>3. Charge(g, model, free, CostsOf(b), n) \in Nat
    BY ReadyIsPriced, ChargeCounts
  <1> QED
    BY <1>1, <1>2, <1>3

\* If a node could be taken before, what covered it by the later costs does by the earlier.
LEMMA CoversBefore ==
  ASSUME NEW g, Extractable(g), NEW model, NEW free, NEW b \in Selections(g, model, free),
         NEW h \in Selections(g, model, free), NEW q \in Selections(g, model, free),
         NEW c \in Classes(g), Falls(b, h), Covers(g, model, free, h, q, c)
  PROVE  Covers(g, model, free, b, q, c)
  <1> SUFFICES ASSUME NEW n \in Ready(g, free, CostsOf(b), c)
               PROVE  c \in DOMAIN q /\ q[c].cost <= Charge(g, model, free, CostsOf(b), n)
    BY DEF Covers
  <1>1. /\ n \in Ready(g, free, CostsOf(h), c)
        /\ Charge(g, model, free, CostsOf(h), n) <= Charge(g, model, free, CostsOf(b), n)
    BY ReadyStays
  <1>2. c \in DOMAIN q /\ q[c].cost <= Charge(g, model, free, CostsOf(h), n)
    BY <1>1 DEF Covers
  <1>3. /\ Charge(g, model, free, CostsOf(b), n) \in Nat
        /\ Charge(g, model, free, CostsOf(h), n) \in Nat
    BY <1>1, ReadyIsPriced, ChargeCounts
  <1>4. q[c].cost \in Nat
    BY <1>2, SelectionParts
  <1> QED
    BY <1>1, <1>2, <1>3, <1>4

LEMMA TakenIsPriced ==
  ASSUME NEW g, Extractable(g), NEW model, NEW free, NEW b \in Selections(g, model, free),
         NEW c \in DOMAIN b
  PROVE  /\ b[c].node \in Node /\ b[c].node \in g.nodes[c]
         /\ b[c].node \in Ready(g, free, CostsOf(b), c)
         /\ Priced(g, free, CostsOf(b), b[c].node)
  <1>1. c \in Classes(g) /\ DOMAIN CostsOf(b) = DOMAIN b /\ Selects(g, model, free, b)
    BY SelectionParts
  <1>2. b[c].node \in Ready(g, free, CostsOf(b), c)
    BY <1>1 DEF Ready, Selects
  <1> QED
    BY <1>1, <1>2, ReadyIsPriced

\* A visit takes the cheapest node of the class, if there is one and it is cheaper
\* than what was taken (the body of solve's loop).
LEMMA VisitedMoves ==
  ASSUME NEW g, Extractable(g), NEW model, NEW free, NEW b \in Selections(g, model, free),
         NEW c \in Classes(g)
  PROVE  LET h == Visited(g, model, free, b, c)
         IN  /\ h \in Selections(g, model, free) /\ Falls(b, h) /\ Moves(b, h)
             /\ Covers(g, model, free, b, h, c)
  <1> DEFINE costs == CostsOf(b)
             R == Ready(g, free, costs, c)
             price(n) == Charge(g, model, free, costs, n)
             offers == Offers(g, model, free, costs, c)
             o == CHOOSE x \in offers : TRUE
             taken == [d \in DOMAIN b \cup {c} |-> IF d = c THEN o ELSE b[d]]
             h == Visited(g, model, free, b, c)
  <1>1. h = IF offers # {} /\ Improves(b, c, o) THEN taken ELSE b
    BY DEF Visited
  <1>2. /\ DOMAIN b \subseteq Classes(g) /\ Selects(g, model, free, b)
        /\ \A d \in DOMAIN b : b[d] \in Entries /\ b[d].node \in Node /\ b[d].cost \in Nat
        /\ DOMAIN costs = DOMAIN b /\ \A d \in DOMAIN b : costs[d] = b[d].cost
    BY SelectionParts
  <1>3. \A n \in R : n \in Node /\ n \in g.nodes[c] /\ Priced(g, free, costs, n)
    BY ReadyIsPriced
  <1>4. \A n \in R : price(n) \in Nat
    BY <1>3, ChargeCounts
  <1>5. offers = {[node |-> n, cost |-> price(n)] : n \in {m \in R : \A q \in R : price(m) <= price(q)}}
    BY DEF Offers
  <1>6. Falls(b, b) /\ Moves(b, b)
    BY <1>2 DEF Falls, Moves
  <1>7. CASE R = {}
    <2>1. offers = {}
      BY <1>5, <1>7
    <2>2. h = b
      BY <1>1, <2>1
    <2> QED
      BY <1>6, <1>7, <2>2 DEF Covers
  <1>8. CASE R # {}
    <2>1. PICK m \in R : \A q \in R : price(m) <= price(q)
      <3> DEFINE T == {price(n) : n \in R}
      <3>1. T \in SUBSET Nat /\ T # {}
        BY <1>4, <1>8
      <3> HIDE DEF T
      <3>2. PICK x \in T : \A y \in T : x <= y
        BY <3>1, NatHasLeast
      <3> USE DEF T
      <3> QED
        BY <3>2
    <2>2. offers # {}
      BY <1>5, <2>1
    <2>3. o \in offers
      BY <2>2
    <2>4. PICK cheap \in R : /\ o = [node |-> cheap, cost |-> price(cheap)]
                             /\ \A q \in R : price(cheap) <= price(q)
      BY <1>5, <2>3
    <2>5. o.node = cheap /\ o.cost = price(cheap) /\ o \in Entries
      <3>1. cheap \in Node /\ price(cheap) \in Nat
        BY <1>3, <1>4
      <3> HIDE DEF o, price, R
      <3> QED
        BY <2>4, <3>1 DEF Entries
    <2> HIDE DEF costs, R, price, offers, o
    <2>6. CASE Improves(b, c, o)
      <3>1. h = taken
        BY <1>1, <2>2, <2>6
      <3>2. DOMAIN b \cup {c} \in SUBSET Classes(g) /\ taken \in [DOMAIN b \cup {c} -> Entries]
        BY <1>2, <2>5
      <3>3. /\ DOMAIN taken = DOMAIN b \cup {c} /\ taken[c] = o
            /\ \A d \in DOMAIN b \ {c} : taken[d] = b[d]
        OBVIOUS
      <3>4. Falls(b, taken)
        <4>1. \A d \in DOMAIN b : taken[d].cost <= b[d].cost
          <5> TAKE d \in DOMAIN b
          <5>1. CASE d = c
            BY <1>2, <1>4, <2>4, <2>5, <2>6, <3>3, <5>1 DEF Improves
          <5>2. CASE d # c
            BY <1>2, <3>3, <5>2
          <5> QED
            BY <5>1, <5>2
        <4> QED
          BY <3>3, <4>1 DEF Falls
      <3>5. /\ DOMAIN CostsOf(taken) = DOMAIN b \cup {c}
            /\ \A d \in DOMAIN b : /\ CostsOf(taken)[d] \in Nat
                                   /\ CostsOf(taken)[d] <= costs[d]
        <4>1. \A d \in DOMAIN taken : CostsOf(taken)[d] = taken[d].cost /\ taken[d].cost \in Nat
          BY <3>2 DEF CostsOf, Entries
        <4>2. DOMAIN CostsOf(taken) = DOMAIN taken
          BY DEF CostsOf
        <4> HIDE DEF taken
        <4> QED
          BY <1>2, <3>3, <3>4, <4>1, <4>2 DEF Falls
      <3> HIDE DEF taken, h
      <3>6. ASSUME NEW n \in Node, Priced(g, free, costs, n)
            PROVE  /\ ArgClasses(g, n) \subseteq free \cup DOMAIN taken
                   /\ Charge(g, model, free, CostsOf(taken), n) <= price(n)
        <4>1. \A d \in ArgClasses(g, n) \ free :
                /\ d \in DOMAIN CostsOf(taken) /\ CostsOf(taken)[d] \in Nat
                /\ CostsOf(taken)[d] <= costs[d]
          BY <1>2, <3>5, <3>6 DEF Priced
        <4>2. /\ Priced(g, free, CostsOf(taken), n)
              /\ Charge(g, model, free, CostsOf(taken), n) <= Charge(g, model, free, costs, n)
          BY <3>6, <4>1, ChargeFalls
        <4> QED
          BY <3>3, <3>5, <4>2 DEF Priced, price
      <3>7. Selects(g, model, free, taken)
        <4> SUFFICES ASSUME NEW d \in DOMAIN taken
                     PROVE  /\ taken[d].node \in g.nodes[d]
                            /\ ArgClasses(g, taken[d].node) \subseteq free \cup DOMAIN taken
                            /\ Charge(g, model, free, CostsOf(taken), taken[d].node) <= taken[d].cost
          BY DEF Selects
        <4>1. CASE d = c
          BY <1>3, <2>4, <2>5, <3>3, <3>6, <4>1
        <4>2. CASE d # c
          <5>1. d \in DOMAIN b /\ taken[d] = b[d]
            BY <3>3, <4>2
          <5>2. b[d].node \in Node /\ b[d].node \in g.nodes[d] /\ Priced(g, free, costs, b[d].node)
            BY <5>1, TakenIsPriced DEF costs
          <5>3. price(b[d].node) <= b[d].cost
            BY <1>2, <5>1 DEF Selects, price, costs
          <5>4. /\ price(b[d].node) \in Nat
                /\ Charge(g, model, free, CostsOf(taken), b[d].node) \in Nat
            <6>1. Priced(g, free, CostsOf(taken), b[d].node)
              BY <1>2, <3>5, <3>3, <5>2 DEF Priced
            <6> QED
              BY <5>2, <6>1, ChargeCounts DEF price
          <5>5. b[d].cost \in Nat
            BY <1>2, <5>1
          <5> QED
            BY <3>6, <5>1, <5>2, <5>3, <5>4, <5>5
        <4> QED
          BY <4>1, <4>2
      <3>8. taken \in Selections(g, model, free)
        BY <3>2, <3>7, SelectionIs
      <3>9. Moves(b, taken)
        BY <2>6, <3>3 DEF Moves, Improves
      <3>10. Covers(g, model, free, b, taken, c)
        BY <2>4, <2>5, <3>3 DEF Covers, R, price, costs
      <3> QED
        BY <3>1, <3>4, <3>8, <3>9, <3>10 DEF h
    <2>7. CASE ~ Improves(b, c, o)
      <3>1. h = b /\ c \in DOMAIN b /\ ~ (o.cost < b[c].cost)
        BY <1>1, <2>7 DEF Improves
      <3>2. \A n \in R : b[c].cost <= price(n)
        <4> TAKE n \in R
        <4>1. b[c].cost \in Nat /\ price(cheap) \in Nat /\ price(n) \in Nat /\ price(cheap) <= price(n)
          BY <1>2, <1>4, <2>4, <3>1
        <4> QED
          BY <2>5, <3>1, <4>1
      <3>3. Covers(g, model, free, b, b, c)
        BY <3>1, <3>2 DEF Covers, R, price, costs
      <3> HIDE DEF h
      <3> QED
        BY <1>6, <3>1, <3>3 DEF h
    <2> QED
      BY <2>6, <2>7
  <1> QED
    BY <1>7, <1>8

LEMMA ClassesAreFew ==
  ASSUME NEW g \in Graph
  PROVE  /\ Classes(g) \in SUBSET Nat /\ IsFiniteSet(Classes(g)) /\ Cardinality(Classes(g)) \in Nat
         /\ Lists(Increasing(Classes(g)), Classes(g))
  <1>1. g.made \in Nat
    BY MadeIds
  <1>2. IsFiniteSet(0 .. g.made - 1) /\ Classes(g) \subseteq 0 .. g.made - 1
    BY <1>1, FS_Interval DEF Classes, Made
  <1>3. IsFiniteSet(Classes(g))
    BY <1>2, FS_Subset
  <1> QED
    BY <1>2, <1>3, FS_CardinalityType, IncreasingLists

LEMMA MovesFurther ==
  ASSUME NEW g, NEW model, NEW free, NEW b \in Selections(g, model, free),
         NEW h \in Selections(g, model, free), NEW q \in Selections(g, model, free),
         Falls(b, h), Moves(b, h), Falls(h, q), Moves(h, q)
  PROVE  Moves(b, q)
  <1>1. CASE h = b
    BY <1>1
  <1>2. CASE h # b
    <2>1. PICK c \in DOMAIN h : c \in DOMAIN b => h[c].cost < b[c].cost
      BY <1>2 DEF Moves
    <2>2. c \in DOMAIN q /\ q[c].cost <= h[c].cost /\ q[c].cost \in Nat /\ h[c].cost \in Nat
      BY <2>1, SelectionParts DEF Falls
    <2>3. c \in DOMAIN b => b[c].cost \in Nat
      BY SelectionParts
    <2> QED
      BY <2>1, <2>2, <2>3 DEF Moves
  <1> QED
    BY <1>1, <1>2

\* A sweep keeps what is a selection, makes nothing dearer, and leaves each class
\* no dearer than its nodes were; it is the same selection unless something moved.
LEMMA SweptMoves ==
  ASSUME NEW g, Extractable(g), NEW model, NEW free, NEW b \in Selections(g, model, free)
  PROVE  LET h == Swept(g, model, free, b)
         IN  /\ h \in Selections(g, model, free) /\ Falls(b, h) /\ Moves(b, h)
             /\ \A c \in Classes(g) : Covers(g, model, free, b, h, c)
  <1> DEFINE order == Increasing(Classes(g))
             n == Len(order)
             S == Selections(g, model, free)
             F == [i \in 1 .. n |-> [s \in S |-> Visited(g, model, free, s, order[i])]]
             Good(f) == f = [k \in 0 .. n |->
               IF k = 0 THEN b ELSE Visited(g, model, free, f[k - 1], order[k])]
  <1>1. g \in Graph
    BY DEF Extractable
  <1>2. /\ n \in Nat /\ \A i \in 1 .. n : order[i] \in Classes(g)
        /\ \A c \in Classes(g) : \E i \in 1 .. n : order[i] = c
    BY <1>1, ClassesAreFew DEF Lists
  <1>3. \A i \in 1 .. n : \A s \in S : Visited(g, model, free, s, order[i]) \in S
    BY <1>2, VisitedMoves
  <1> HIDE DEF order, n, S
  <1>4. Steps(F, n, S, b)
    BY <1>2, <1>3 DEF Steps, S
  <1>5. PICK w : Walks(w, F, n, S, b)
    <2> HIDE DEF F
    <2> QED
      BY <1>4, WalkExists
  <1>6. Good(w)
    <2>1. w = [k \in 0 .. n |-> w[k]]
      BY <1>5 DEF Walks
    <2>2. \A k \in 0 .. n : w[k] = IF k = 0 THEN b ELSE Visited(g, model, free, w[k - 1], order[k])
      <3> TAKE k \in 0 .. n
      <3>1. CASE k = 0
        BY <1>5, <3>1 DEF Walks
      <3>2. CASE k # 0
        <4>1. k \in 1 .. n /\ k - 1 \in 0 .. n
          BY <1>2, <3>2
        <4>2. w[k - 1] \in S /\ w[k] = F[k][w[k - 1]]
          BY <1>5, <4>1 DEF Walks
        <4> QED
          BY <3>2, <4>1, <4>2
      <3> QED
        BY <3>1, <3>2
    <2> QED
      BY <2>1, <2>2
  <1> DEFINE f == CHOOSE q : Good(q)
  <1>7. Good(f)
    <2> HIDE DEF Good
    <2> QED
      BY <1>6
  <1>8. Swept(g, model, free, b) = f[n]
    BY DEF Swept, n, order
  <1> HIDE DEF f
  <1>9. f[0] = b /\ \A k \in 1 .. n : f[k] = Visited(g, model, free, f[k - 1], order[k])
    BY <1>2, <1>7
  <1>10. \A k \in 1 .. n : f[k - 1] \in S => f[k] = F[k][f[k - 1]]
    BY <1>9
  <1>11. \A k \in 0 .. n : f[k] \in S
    <2> HIDE DEF F, Good
    <2> QED
      BY <1>4, <1>9, <1>10, WalkStays
  <1> DEFINE P == {k \in 0 .. n : /\ Falls(b, f[k]) /\ Moves(b, f[k])
                                  /\ \A j \in 1 .. k : Covers(g, model, free, b, f[k], order[j])}
  <1>12. 0 \in P
    <2>1. Falls(b, b) /\ Moves(b, b)
      BY SelectionParts DEF Falls, Moves
    <2> QED
      BY <1>2, <1>9, <2>1
  <1>13. \A k \in 0 .. n - 1 : k \in P => k + 1 \in P
    <2> SUFFICES ASSUME NEW k \in 0 .. n - 1, k \in P PROVE k + 1 \in P
      OBVIOUS
    <2>1. k + 1 \in 1 .. n /\ (k + 1) - 1 = k /\ k \in 0 .. n /\ k + 1 \in 0 .. n
      BY <1>2
    <2>2. f[k] \in S /\ f[k + 1] \in S /\ f[k + 1] = Visited(g, model, free, f[k], order[k + 1])
      BY <1>9, <1>11, <2>1
    <2>3. /\ Falls(f[k], f[k + 1]) /\ Moves(f[k], f[k + 1])
          /\ Covers(g, model, free, f[k], f[k + 1], order[k + 1])
      BY <1>2, <2>1, <2>2, VisitedMoves DEF S
    <2>4. /\ Falls(b, f[k]) /\ Moves(b, f[k])
          /\ \A j \in 1 .. k : Covers(g, model, free, b, f[k], order[j])
      OBVIOUS
    <2>5. Falls(b, f[k + 1]) /\ Moves(b, f[k + 1])
      BY <2>2, <2>3, <2>4, FallsFurther, MovesFurther DEF S
    <2>6. Covers(g, model, free, b, f[k + 1], order[k + 1])
      BY <1>2, <2>1, <2>2, <2>3, <2>4, CoversBefore DEF S
    <2>7. \A j \in 1 .. k : Covers(g, model, free, b, f[k + 1], order[j])
      BY <1>2, <2>1, <2>2, <2>3, <2>4, CoversStill DEF S
    <2>8. \A j \in 1 .. k + 1 : j \in 1 .. k \/ j = k + 1
      BY <2>1
    <2> QED
      BY <2>1, <2>5, <2>6, <2>7, <2>8
  <1>14. n \in P
    <2> HIDE DEF P
    <2>1. \A k \in 0 .. n : k \in P
      BY <1>2, <1>12, <1>13, CountingUp
    <2> QED
      BY <1>2, <2>1
  <1>15. \A c \in Classes(g) : Covers(g, model, free, b, f[n], c)
    BY <1>2, <1>14
  <1> QED
    BY <1>2, <1>8, <1>11, <1>14, <1>15 DEF S

----------------------------------------------------------------------------
(* The cheapest terms of each depth.                                        *)

CostMaps(g) == UNION {[D -> Nat] : D \in SUBSET Classes(g)}

LEMMA CostMapParts ==
  ASSUME NEW g, NEW u \in CostMaps(g)
  PROVE  DOMAIN u \subseteq Classes(g) /\ \A c \in DOMAIN u : u[c] \in Nat
  BY DEF CostMaps

LEMMA ReadyAtCosts ==
  ASSUME NEW g, Extractable(g), NEW free, NEW u \in CostMaps(g),
         NEW c \in Classes(g), NEW n \in Ready(g, free, u, c)
  PROVE  n \in Node /\ n \in g.nodes[c] /\ Priced(g, free, u, n)
  BY CostMapParts DEF Ready, Extractable, Priced

LEMMA DeeperIsLeast ==
  ASSUME NEW g, Extractable(g), NEW model, NEW free, NEW u \in CostMaps(g)
  PROVE  LET h == Deeper(g, model, free, u)
         IN  /\ h \in CostMaps(g)
             /\ DOMAIN h = {c \in Classes(g) : Ready(g, free, u, c) # {}}
             /\ \A c \in DOMAIN h :
                  /\ \E n \in Ready(g, free, u, c) : h[c] = Charge(g, model, free, u, n)
                  /\ \A n \in Ready(g, free, u, c) : h[c] <= Charge(g, model, free, u, n)
  <1> DEFINE R(c) == Ready(g, free, u, c)
             charged(c) == {Charge(g, model, free, u, n) : n \in R(c)}
             D == {c \in Classes(g) : R(c) # {}}
             h == Deeper(g, model, free, u)
  <1>1. h = [c \in D |-> CHOOSE x \in charged(c) : \A y \in charged(c) : x <= y]
    BY DEF Deeper
  <1>2. ASSUME NEW c \in D
        PROVE  h[c] \in Nat /\ h[c] \in charged(c) /\ \A y \in charged(c) : h[c] <= y
    <2>1. charged(c) \in SUBSET Nat /\ charged(c) # {}
      BY ReadyAtCosts, ChargeCounts
    <2>2. h[c] = CHOOSE x \in charged(c) : \A y \in charged(c) : x <= y
      BY <1>1
    <2> HIDE DEF charged, h, R, D
    <2>3. \E x \in charged(c) : \A y \in charged(c) : x <= y
      BY <2>1, NatHasLeast
    <2> QED
      BY <2>1, <2>2, <2>3
  <1>3. DOMAIN h = D
    BY <1>1
  <1>4. h \in [D -> Nat]
    <2> HIDE DEF charged, D
    <2>1. h = [c \in D |-> h[c]]
      BY <1>1
    <2> HIDE DEF h
    <2> QED
      BY <1>2, <2>1
  <1>5. h \in CostMaps(g)
    BY <1>4 DEF CostMaps
  <1> HIDE DEF h
  <1> QED
    BY <1>2, <1>3, <1>5 DEF h

\* CheapestWithin, depth by depth.
LeastBy(f, g, model, free, depth) ==
  /\ f[0] = [c \in {} |-> 0]
  /\ \A k \in 0 .. depth : f[k] \in CostMaps(g)
  /\ \A k \in 1 .. depth : f[k] = Deeper(g, model, free, f[k - 1])

LEMMA LeastGoes ==
  ASSUME NEW g, Extractable(g), NEW model, NEW free, NEW depth \in Nat
  PROVE  \E f : /\ LeastBy(f, g, model, free, depth)
                /\ CheapestWithin(g, model, free, depth) = f[depth]
  <1> DEFINE x == [c \in {} |-> 0]
             S == CostMaps(g)
             F == [i \in 1 .. depth |-> [u \in S |-> Deeper(g, model, free, u)]]
             Good(f) == f = [d \in 0 .. depth |->
               IF d = 0 THEN x ELSE Deeper(g, model, free, f[d - 1])]
  <1>1. x \in S
    <2>1. x \in [{} -> Nat] /\ {} \in SUBSET Classes(g)
      OBVIOUS
    <2> QED
      BY <2>1 DEF CostMaps
  <1>2. \A u \in S : Deeper(g, model, free, u) \in S
    BY DeeperIsLeast
  <1> HIDE DEF S, x
  <1>3. Steps(F, depth, S, x)
    BY <1>1, <1>2 DEF Steps
  <1>4. PICK w : Walks(w, F, depth, S, x)
    <2> HIDE DEF F
    <2> QED
      BY <1>3, WalkExists
  <1>5. Good(w)
    <2>1. w = [k \in 0 .. depth |-> w[k]]
      BY <1>4 DEF Walks
    <2>2. \A k \in 0 .. depth : w[k] = IF k = 0 THEN x ELSE Deeper(g, model, free, w[k - 1])
      <3> TAKE k \in 0 .. depth
      <3>1. CASE k = 0
        BY <1>4, <3>1 DEF Walks
      <3>2. CASE k # 0
        <4>1. k \in 1 .. depth /\ k - 1 \in 0 .. depth
          BY <3>2
        <4>2. w[k - 1] \in S /\ w[k] = F[k][w[k - 1]]
          BY <1>4, <4>1 DEF Walks
        <4> QED
          BY <3>2, <4>1, <4>2
      <3> QED
        BY <3>1, <3>2
    <2> QED
      BY <2>1, <2>2
  <1> DEFINE f == CHOOSE q : Good(q)
  <1>6. Good(f)
    <2> HIDE DEF Good
    <2> QED
      BY <1>5
  <1>7. CheapestWithin(g, model, free, depth) = f[depth]
    BY DEF CheapestWithin, x
  <1> HIDE DEF f
  <1>8. f[0] = x /\ \A k \in 1 .. depth : f[k] = Deeper(g, model, free, f[k - 1])
    BY <1>6
  <1>9. \A k \in 1 .. depth : f[k - 1] \in S => f[k] = F[k][f[k - 1]]
    BY <1>8
  <1>10. \A k \in 0 .. depth : f[k] \in S
    <2> HIDE DEF F, Good
    <2> QED
      BY <1>3, <1>8, <1>9, WalkStays
  <1> QED
    BY <1>7, <1>8, <1>10 DEF LeastBy, S, x

\* Where each step covers what was ready, k steps find what is k deep.
LEMMA CoversReachLeast ==
  ASSUME NEW g, Extractable(g), NEW model, NEW free, NEW depth \in Nat,
         NEW f, LeastBy(f, g, model, free, depth),
         NEW s, \A k \in 0 .. depth : s[k] \in Selections(g, model, free),
         \A k \in 0 .. depth - 1 : \A c \in Classes(g) : Covers(g, model, free, s[k], s[k + 1], c)
  PROVE  \A k \in 0 .. depth : \A c \in DOMAIN f[k] : c \in DOMAIN s[k] /\ s[k][c].cost <= f[k][c]
  <1> DEFINE P == {k \in 0 .. depth :
                     \A c \in DOMAIN f[k] : c \in DOMAIN s[k] /\ s[k][c].cost <= f[k][c]}
  <1>1. 0 \in P
    BY DEF LeastBy
  <1>2. \A k \in 0 .. depth - 1 : k \in P => k + 1 \in P
    <2> SUFFICES ASSUME NEW k \in 0 .. depth - 1, k \in P,
                        NEW c \in DOMAIN f[k + 1]
                 PROVE  c \in DOMAIN s[k + 1] /\ s[k + 1][c].cost <= f[k + 1][c]
      OBVIOUS
    <2>1. k + 1 \in 1 .. depth /\ (k + 1) - 1 = k /\ k \in 0 .. depth /\ k + 1 \in 0 .. depth
      OBVIOUS
    <2>2. /\ f[k] \in CostMaps(g) /\ f[k + 1] = Deeper(g, model, free, f[k])
          /\ s[k] \in Selections(g, model, free) /\ s[k + 1] \in Selections(g, model, free)
      BY <2>1 DEF LeastBy
    <2>3. PICK n \in Ready(g, free, f[k], c) : f[k + 1][c] = Charge(g, model, free, f[k], n)
      <3>1. \A e \in DOMAIN Deeper(g, model, free, f[k]) :
              \E n \in Ready(g, free, f[k], e) :
                Deeper(g, model, free, f[k])[e] = Charge(g, model, free, f[k], n)
        BY <2>2, DeeperIsLeast
      <3> QED
        BY <2>2, <3>1
    <2>4. c \in Classes(g)
      <3>1. f[k + 1] \in CostMaps(g)
        BY <2>1 DEF LeastBy
      <3> QED
        BY <3>1, CostMapParts
    <2>5. n \in Node /\ n \in g.nodes[c] /\ Priced(g, free, f[k], n)
      BY <2>2, <2>3, <2>4, ReadyAtCosts
    <2>6. \A d \in ArgClasses(g, n) \ free :
            /\ d \in DOMAIN CostsOf(s[k]) /\ CostsOf(s[k])[d] \in Nat
            /\ CostsOf(s[k])[d] <= f[k][d]
      <3> TAKE d \in ArgClasses(g, n) \ free
      <3>1. d \in DOMAIN f[k]
        BY <2>5 DEF Priced
      <3>2. d \in DOMAIN s[k] /\ s[k][d].cost <= f[k][d]
        BY <3>1
      <3> QED
        BY <2>2, <3>2, SelectionParts
    <2>7. /\ Priced(g, free, CostsOf(s[k]), n)
          /\ Charge(g, model, free, CostsOf(s[k]), n) <= f[k + 1][c]
      BY <2>3, <2>5, <2>6, ChargeFalls
    <2>8. n \in Ready(g, free, CostsOf(s[k]), c)
      BY <2>5, <2>7 DEF Ready, Priced
    <2>9. /\ c \in DOMAIN s[k + 1]
          /\ s[k + 1][c].cost <= Charge(g, model, free, CostsOf(s[k]), n)
      BY <2>4, <2>8 DEF Covers
    <2>10. /\ Charge(g, model, free, CostsOf(s[k]), n) \in Nat /\ f[k + 1][c] \in Nat
           /\ s[k + 1][c].cost \in Nat
      BY <2>2, <2>3, <2>5, <2>7, <2>9, ChargeCounts, SelectionParts
    <2> QED
      BY <2>7, <2>9, <2>10
  <1> HIDE DEF P
  <1>3. \A k \in 0 .. depth : k \in P
    BY <1>1, <1>2, CountingUp
  <1> QED
    BY <1>3 DEF P

\* What a class takes is over cheaper ones.
LEMMA TakenCostsMore ==
  ASSUME NEW g, Extractable(g), NEW model, NEW free, NEW b \in Selections(g, model, free),
         NEW c \in DOMAIN b, NEW d \in ArgClasses(g, b[c].node) \ free
  PROVE  d \in DOMAIN b /\ b[d].cost < b[c].cost
  <1>1. b[c].node \in Node /\ Priced(g, free, CostsOf(b), b[c].node)
    BY TakenIsPriced
  <1>2. /\ d \in DOMAIN b /\ CostsOf(b)[d] = b[d].cost /\ b[d].cost \in Nat /\ b[c].cost \in Nat
        /\ Charge(g, model, free, CostsOf(b), b[c].node) <= b[c].cost
    BY <1>1, SelectionParts DEF Priced, Selects
  <1>3. /\ Charge(g, model, free, CostsOf(b), b[c].node) \in Nat
        /\ CostsOf(b)[d] < Charge(g, model, free, CostsOf(b), b[c].node)
    BY <1>1, ChargeCounts
  <1> QED
    BY <1>2, <1>3

NoDearer(b, c) == {d \in DOMAIN b : b[d].cost <= b[c].cost}

LEMMA NoDearerIsFew ==
  ASSUME NEW g \in Graph, NEW model, NEW free, NEW b \in Selections(g, model, free),
         NEW c \in DOMAIN b
  PROVE  /\ IsFiniteSet(DOMAIN b) /\ Cardinality(DOMAIN b) \in Nat
         /\ Cardinality(DOMAIN b) <= Cardinality(Classes(g))
         /\ Cardinality(NoDearer(b, c)) \in 1 .. Cardinality(DOMAIN b)
         /\ \A d \in DOMAIN b : b[d].cost < b[c].cost =>
              /\ Cardinality(NoDearer(b, d)) \in Nat
              /\ Cardinality(NoDearer(b, d)) < Cardinality(NoDearer(b, c))
  <1>1. DOMAIN b \subseteq Classes(g) /\ \A d \in DOMAIN b : b[d].cost \in Nat
    BY SelectionParts
  <1>2. /\ IsFiniteSet(DOMAIN b) /\ Cardinality(DOMAIN b) \in Nat
        /\ Cardinality(DOMAIN b) <= Cardinality(Classes(g))
    BY <1>1, ClassesAreFew, FS_Subset, FS_CardinalityType
  <1>3. ASSUME NEW d \in DOMAIN b
        PROVE  /\ IsFiniteSet(NoDearer(b, d)) /\ Cardinality(NoDearer(b, d)) \in Nat
               /\ Cardinality(NoDearer(b, d)) <= Cardinality(DOMAIN b)
    <2>1. NoDearer(b, d) \subseteq DOMAIN b
      BY DEF NoDearer
    <2> QED
      BY <1>2, <2>1, FS_Subset, FS_CardinalityType
  <1>4. Cardinality(NoDearer(b, c)) # 0
    <2>1. c \in NoDearer(b, c)
      BY <1>1 DEF NoDearer
    <2> QED
      BY <1>3, <2>1, FS_EmptySet
  <1>5. ASSUME NEW d \in DOMAIN b, b[d].cost < b[c].cost
        PROVE  Cardinality(NoDearer(b, d)) < Cardinality(NoDearer(b, c))
    <2>1. NoDearer(b, d) \subseteq NoDearer(b, c) /\ c \in NoDearer(b, c) /\ c \notin NoDearer(b, d)
      BY <1>1, <1>5 DEF NoDearer
    <2>2. /\ Cardinality(NoDearer(b, d)) <= Cardinality(NoDearer(b, c))
          /\ Cardinality(NoDearer(b, d)) # Cardinality(NoDearer(b, c))
      BY <1>3, <2>1, FS_Subset
    <2> QED
      BY <1>3, <2>2
  <1> QED
    BY <1>2, <1>3, <1>4, <1>5

\* No selection is cheaper than the cheapest term of any depth.
LEMMA LeastIsLess ==
  ASSUME NEW g, Extractable(g), NEW model, NEW free, NEW b \in Selections(g, model, free),
         NEW depth \in Nat, NEW f, LeastBy(f, g, model, free, depth)
  PROVE  \A k \in 0 .. depth : \A c \in DOMAIN b :
           Cardinality(NoDearer(b, c)) <= k => c \in DOMAIN f[k] /\ f[k][c] <= b[c].cost
  <1> DEFINE P == {k \in 0 .. depth : \A c \in DOMAIN b :
                     Cardinality(NoDearer(b, c)) <= k => c \in DOMAIN f[k] /\ f[k][c] <= b[c].cost}
  <1>0. g \in Graph
    BY DEF Extractable
  <1>1. 0 \in P
    <2>1. \A c \in DOMAIN b : ~ (Cardinality(NoDearer(b, c)) <= 0)
      BY <1>0, NoDearerIsFew
    <2> QED
      BY <2>1
  <1>2. \A k \in 0 .. depth - 1 : k \in P => k + 1 \in P
    <2> SUFFICES ASSUME NEW k \in 0 .. depth - 1, k \in P, NEW c \in DOMAIN b,
                        Cardinality(NoDearer(b, c)) <= k + 1
                 PROVE  c \in DOMAIN f[k + 1] /\ f[k + 1][c] <= b[c].cost
      OBVIOUS
    <2> DEFINE n == b[c].node
    <2>1. k + 1 \in 1 .. depth /\ (k + 1) - 1 = k /\ k \in 0 .. depth /\ k + 1 \in 0 .. depth
      OBVIOUS
    <2>2. f[k] \in CostMaps(g) /\ f[k + 1] \in CostMaps(g) /\ f[k + 1] = Deeper(g, model, free, f[k])
      BY <2>1 DEF LeastBy
    <2>3. /\ n \in Node /\ n \in g.nodes[c] /\ Priced(g, free, CostsOf(b), n)
          /\ c \in Classes(g) /\ b[c].cost \in Nat
          /\ Charge(g, model, free, CostsOf(b), n) <= b[c].cost
      BY TakenIsPriced, SelectionParts DEF Selects
    <2>4. \A d \in ArgClasses(g, n) \ free :
            d \in DOMAIN f[k] /\ f[k][d] \in Nat /\ f[k][d] <= CostsOf(b)[d]
      <3> TAKE d \in ArgClasses(g, n) \ free
      <3>1. d \in DOMAIN b /\ b[d].cost < b[c].cost
        BY TakenCostsMore
      <3>2. /\ Cardinality(NoDearer(b, d)) \in Nat /\ Cardinality(NoDearer(b, c)) \in Nat
            /\ Cardinality(NoDearer(b, d)) < Cardinality(NoDearer(b, c))
        BY <1>0, <3>1, NoDearerIsFew
      <3>3. Cardinality(NoDearer(b, d)) <= k
        BY <3>2
      <3>4. d \in DOMAIN f[k] /\ f[k][d] <= b[d].cost
        BY <3>1, <3>3
      <3> QED
        BY <2>2, <3>1, <3>4, CostMapParts, SelectionParts
    <2>5. /\ Priced(g, free, f[k], n)
          /\ Charge(g, model, free, f[k], n) <= Charge(g, model, free, CostsOf(b), n)
      BY <2>3, <2>4, ChargeFalls
    <2>6. n \in Ready(g, free, f[k], c)
      BY <2>3, <2>5 DEF Ready, Priced
    <2>7. c \in DOMAIN f[k + 1] /\ f[k + 1][c] <= Charge(g, model, free, f[k], n)
      <3>1. /\ DOMAIN Deeper(g, model, free, f[k]) = {e \in Classes(g) : Ready(g, free, f[k], e) # {}}
            /\ \A e \in DOMAIN Deeper(g, model, free, f[k]) : \A m \in Ready(g, free, f[k], e) :
                 Deeper(g, model, free, f[k])[e] <= Charge(g, model, free, f[k], m)
        BY <2>2, DeeperIsLeast
      <3>2. c \in DOMAIN Deeper(g, model, free, f[k])
        BY <2>3, <2>6, <3>1
      <3> QED
        BY <2>2, <2>6, <3>1, <3>2
    <2>8. /\ Charge(g, model, free, f[k], n) \in Nat /\ f[k + 1][c] \in Nat
          /\ Charge(g, model, free, CostsOf(b), n) \in Nat
      BY <2>2, <2>3, <2>5, <2>7, ChargeCounts, CostMapParts
    <2> QED
      BY <2>3, <2>5, <2>7, <2>8
  <1> HIDE DEF P
  <1>3. \A k \in 0 .. depth : k \in P
    BY <1>1, <1>2, CountingUp
  <1> QED
    BY <1>3 DEF P

\* Where a class covers itself, costs are those of the cheapest terms.
LEMMA SettledIsLeast ==
  ASSUME NEW g, Extractable(g), NEW model, NEW free, NEW b \in Selections(g, model, free),
         \A c \in Classes(g) : Covers(g, model, free, b, b, c)
  PROVE  LET least == CheapestWithin(g, model, free, Cardinality(Classes(g)))
         IN  DOMAIN b = DOMAIN least /\ \A c \in DOMAIN b : b[c].cost = least[c]
  <1> DEFINE enough == Cardinality(Classes(g))
             s == [k \in 0 .. enough |-> b]
  <1>1. g \in Graph /\ enough \in Nat
    BY ClassesAreFew DEF Extractable
  <1>2. PICK f : /\ LeastBy(f, g, model, free, enough)
                 /\ CheapestWithin(g, model, free, enough) = f[enough]
    BY <1>1, LeastGoes
  <1>3. \A k \in 0 .. enough : s[k] = b
    OBVIOUS
  <1>4. enough \in 0 .. enough /\ \A k \in 0 .. enough - 1 : k + 1 \in 0 .. enough /\ k \in 0 .. enough
    BY <1>1
  <1> HIDE DEF s, enough
  <1>5. \A k \in 0 .. enough : s[k] \in Selections(g, model, free)
    BY <1>3
  <1>6. \A k \in 0 .. enough - 1 : \A c \in Classes(g) : Covers(g, model, free, s[k], s[k + 1], c)
    BY <1>3, <1>4
  <1>7. \A k \in 0 .. enough : \A c \in DOMAIN f[k] : c \in DOMAIN s[k] /\ s[k][c].cost <= f[k][c]
    BY <1>1, <1>2, <1>5, <1>6, CoversReachLeast
  <1>8. \A c \in DOMAIN f[enough] : c \in DOMAIN b /\ b[c].cost <= f[enough][c]
    BY <1>3, <1>4, <1>7
  <1>9. ASSUME NEW c \in DOMAIN b
        PROVE  c \in DOMAIN f[enough] /\ f[enough][c] <= b[c].cost
    <2>1. Cardinality(NoDearer(b, c)) <= enough
      <3>1. /\ Cardinality(NoDearer(b, c)) \in 1 .. Cardinality(DOMAIN b)
            /\ Cardinality(DOMAIN b) \in Nat /\ Cardinality(DOMAIN b) <= enough
        BY <1>1, NoDearerIsFew DEF enough
      <3> QED
        BY <1>1, <3>1
    <2> QED
      BY <1>1, <1>2, <1>4, <2>1, LeastIsLess
  <1>10. \A c \in DOMAIN b : b[c].cost \in Nat /\ f[enough][c] \in Nat
    <2>1. f[enough] \in CostMaps(g)
      BY <1>2, <1>4 DEF LeastBy
    <2> QED
      BY <1>9, <2>1, CostMapParts, SelectionParts
  <1>11. DOMAIN b = DOMAIN f[enough]
    BY <1>8, <1>9
  <1>12. \A c \in DOMAIN b : b[c].cost = f[enough][c]
    <2> TAKE c \in DOMAIN b
    <2>1. b[c].cost <= f[enough][c] /\ f[enough][c] <= b[c].cost
      BY <1>8, <1>9
    <2> QED
      BY <1>10, <2>1
  <1> QED
    BY <1>2, <1>11, <1>12 DEF enough

\* The loop of solve ends, and where it does nothing can get cheaper.
LEMMA SelectionSettles ==
  ASSUME NEW g, Extractable(g), NEW model, NEW free
  PROVE  LET b == Selection(g, model, free)
         IN  /\ b \in Selections(g, model, free)
             /\ \A c \in Classes(g) : Covers(g, model, free, b, b, c)
  <1> DEFINE enough == Cardinality(Classes(g))
             m == enough + 1
             x == [c \in {} |-> None]
             S == Selections(g, model, free)
             F == [i \in 1 .. m |-> [b \in S |-> Swept(g, model, free, b)]]
             Good(f) == f = [n \in 0 .. enough + 1 |->
               IF n = 0 THEN x ELSE Swept(g, model, free, f[n - 1])]
  <1>1. g \in Graph /\ enough \in Nat
    BY ClassesAreFew DEF Extractable
  <1>2. x \in S
    <2>1. x \in [{} -> Entries] /\ {} \in SUBSET Classes(g) /\ Selects(g, model, free, x)
      BY DEF Selects
    <2> QED
      BY <2>1, SelectionIs
  <1>3. \A b \in S : Swept(g, model, free, b) \in S
    BY SweptMoves
  <1> HIDE DEF enough, S, x
  <1>4. m \in Nat /\ m = enough + 1
    BY <1>1
  <1>5. Steps(F, m, S, x)
    BY <1>2, <1>3, <1>4 DEF Steps
  <1>6. PICK w : Walks(w, F, m, S, x)
    <2> HIDE DEF F
    <2> QED
      BY <1>5, WalkExists
  <1>7. Good(w)
    <2>1. w = [k \in 0 .. enough + 1 |-> w[k]]
      BY <1>6 DEF Walks
    <2>2. \A k \in 0 .. enough + 1 : w[k] = IF k = 0 THEN x ELSE Swept(g, model, free, w[k - 1])
      <3> TAKE k \in 0 .. enough + 1
      <3>1. CASE k = 0
        BY <1>6, <3>1 DEF Walks
      <3>2. CASE k # 0
        <4>1. k \in 1 .. m /\ k - 1 \in 0 .. m
          BY <1>1, <3>2
        <4>2. w[k - 1] \in S /\ w[k] = F[k][w[k - 1]]
          BY <1>6, <4>1 DEF Walks
        <4> QED
          BY <3>2, <4>1, <4>2
      <3> QED
        BY <3>1, <3>2
    <2> QED
      BY <2>1, <2>2
  <1> DEFINE f == CHOOSE q : Good(q)
  <1>8. Good(f)
    <2> HIDE DEF Good
    <2> QED
      BY <1>7
  <1>9. Selection(g, model, free) = f[CHOOSE n \in 0 .. enough : f[n + 1] = f[n]]
    BY DEF Selection, x, enough
  <1> HIDE DEF f
  <1>10. f[0] = x /\ \A k \in 1 .. m : f[k] = Swept(g, model, free, f[k - 1])
    BY <1>1, <1>8
  <1>11. \A k \in 1 .. m : f[k - 1] \in S => f[k] = F[k][f[k - 1]]
    BY <1>10
  <1>12. \A k \in 0 .. m : f[k] \in S
    <2> HIDE DEF F, Good
    <2> QED
      BY <1>5, <1>10, <1>11, WalkStays
  <1> HIDE DEF Good, F, m
  <1>13. ASSUME NEW k \in 0 .. enough
         PROVE  /\ f[k] \in S /\ f[k + 1] \in S
                /\ f[k + 1] = Swept(g, model, free, f[k])
                /\ Falls(f[k], f[k + 1]) /\ Moves(f[k], f[k + 1])
                /\ \A c \in Classes(g) : Covers(g, model, free, f[k], f[k + 1], c)
    <2>1. k + 1 \in 1 .. m /\ k + 1 \in 0 .. m /\ (k + 1) - 1 = k /\ k \in 0 .. m
      BY <1>1, <1>4
    <2>2. f[k] \in S /\ f[k + 1] \in S /\ f[k + 1] = Swept(g, model, free, f[k])
      BY <1>10, <1>12, <2>1
    <2>3. f[k] \in Selections(g, model, free)
      BY <2>2 DEF S
    <2>4. LET h == Swept(g, model, free, f[k])
          IN  /\ Falls(f[k], h) /\ Moves(f[k], h)
              /\ \A c \in Classes(g) : Covers(g, model, free, f[k], h, c)
      BY <2>3, SweptMoves
    <2> QED
      BY <2>2, <2>4
  <1>14. f[enough + 1] = f[enough]
    <2> DEFINE b == f[enough]
               h == f[enough + 1]
    <2>1. enough \in 0 .. enough /\ \A k \in 0 .. enough - 1 : k \in 0 .. enough
      BY <1>1
    <2>2. b \in Selections(g, model, free) /\ h \in Selections(g, model, free)
          /\ Falls(b, h) /\ Moves(b, h)
      BY <1>13, <2>1 DEF S
    <2>3. PICK l : /\ LeastBy(l, g, model, free, enough)
                   /\ CheapestWithin(g, model, free, enough) = l[enough]
      BY <1>1, LeastGoes
    <2>4. \A k \in 0 .. enough : f[k] \in Selections(g, model, free)
      BY <1>13 DEF S
    <2>5. \A k \in 0 .. enough - 1 : \A c \in Classes(g) : Covers(g, model, free, f[k], f[k + 1], c)
      BY <1>13, <2>1
    <2>6. \A k \in 0 .. enough : \A c \in DOMAIN l[k] : c \in DOMAIN f[k] /\ f[k][c].cost <= l[k][c]
      BY <1>1, <2>3, <2>4, <2>5, CoversReachLeast
    <2>7. SUFFICES ASSUME NEW c \in DOMAIN h, c \in DOMAIN b => h[c].cost < b[c].cost
                   PROVE  FALSE
      BY <2>2 DEF Moves
    <2>8. Cardinality(NoDearer(h, c)) <= enough
      <3>1. /\ Cardinality(NoDearer(h, c)) \in 1 .. Cardinality(DOMAIN h)
            /\ Cardinality(DOMAIN h) \in Nat /\ Cardinality(DOMAIN h) <= enough
        BY <1>1, <2>2, NoDearerIsFew DEF enough
      <3> QED
        BY <1>1, <3>1
    <2>9. c \in DOMAIN l[enough] /\ l[enough][c] <= h[c].cost
      BY <1>1, <2>1, <2>2, <2>3, <2>8, LeastIsLess
    <2>10. c \in DOMAIN b /\ b[c].cost <= l[enough][c]
      BY <2>1, <2>6, <2>9
    <2>11. b[c].cost \in Nat /\ h[c].cost \in Nat /\ l[enough][c] \in Nat
      <3>1. l[enough] \in CostMaps(g)
        BY <2>1, <2>3 DEF LeastBy
      <3> QED
        BY <2>2, <2>9, <2>10, <3>1, CostMapParts, SelectionParts
    <2> QED
      BY <2>7, <2>9, <2>10, <2>11
  <1> DEFINE z == CHOOSE n \in 0 .. enough : f[n + 1] = f[n]
  <1>15. z \in 0 .. enough /\ f[z + 1] = f[z]
    <2>1. enough \in 0 .. enough
      BY <1>1
    <2> QED
      BY <1>14, <2>1
  <1> HIDE DEF z
  <1>16. /\ f[z] \in Selections(g, model, free)
         /\ \A c \in Classes(g) : Covers(g, model, free, f[z], f[z], c)
    BY <1>13, <1>15 DEF S
  <1> QED
    BY <1>9, <1>16 DEF z

----------------------------------------------------------------------------
(* Building the term.                                                       *)

\* What Grounded counts up to.
GroundedBy(f, g, b) ==
  /\ f[0] = {}
  /\ \A k \in 0 .. Cardinality(DOMAIN b) : f[k] \in SUBSET DOMAIN b
  /\ \A k \in 1 .. Cardinality(DOMAIN b) : f[k] = Buildable(g, b, f[k - 1])

LEMMA GroundedGoes ==
  ASSUME NEW g, NEW b, Cardinality(DOMAIN b) \in Nat
  PROVE  \E f : GroundedBy(f, g, b) /\ Grounded(g, b) = f[Cardinality(DOMAIN b)]
  <1> DEFINE n == Cardinality(DOMAIN b)
             S == SUBSET DOMAIN b
             F == [i \in 1 .. n |-> [d \in S |-> Buildable(g, b, d)]]
             Good(f) == f = [k \in 0 .. n |-> IF k = 0 THEN {} ELSE Buildable(g, b, f[k - 1])]
  <1>1. {} \in S /\ \A d \in S : Buildable(g, b, d) \in S
    BY DEF Buildable
  <1> HIDE DEF S, n
  <1>2. n \in Nat
    BY DEF n
  <1>3. Steps(F, n, S, {})
    BY <1>1, <1>2 DEF Steps
  <1>4. PICK w : Walks(w, F, n, S, {})
    <2> HIDE DEF F
    <2> QED
      BY <1>3, WalkExists
  <1>5. Good(w)
    <2>1. w = [k \in 0 .. n |-> w[k]]
      BY <1>4 DEF Walks
    <2>2. \A k \in 0 .. n : w[k] = IF k = 0 THEN {} ELSE Buildable(g, b, w[k - 1])
      <3> TAKE k \in 0 .. n
      <3>1. CASE k = 0
        BY <1>4, <3>1 DEF Walks
      <3>2. CASE k # 0
        <4>1. k \in 1 .. n /\ k - 1 \in 0 .. n
          BY <1>2, <3>2
        <4>2. w[k - 1] \in S /\ w[k] = F[k][w[k - 1]]
          BY <1>4, <4>1 DEF Walks
        <4> QED
          BY <3>2, <4>1, <4>2
      <3> QED
        BY <3>1, <3>2
    <2> QED
      BY <2>1, <2>2
  <1> DEFINE f == CHOOSE q : Good(q)
  <1>6. Good(f)
    <2> HIDE DEF Good
    <2> QED
      BY <1>5
  <1>7. Grounded(g, b) = f[n]
    BY DEF Grounded, n
  <1> HIDE DEF f
  <1>8. f[0] = {} /\ \A k \in 1 .. n : f[k] = Buildable(g, b, f[k - 1])
    <2>1. \A k \in 0 .. n : f[k] = IF k = 0 THEN {} ELSE Buildable(g, b, f[k - 1])
      BY <1>6
    <2>2. 0 \in 0 .. n /\ \A k \in 1 .. n : k \in 0 .. n /\ k # 0
      BY <1>2
    <2> HIDE DEF Good
    <2> QED
      BY <2>1, <2>2
  <1>9. \A k \in 1 .. n : f[k - 1] \in S => f[k] = F[k][f[k - 1]]
    BY <1>8
  <1>10. \A k \in 0 .. n : f[k] \in S
    <2> HIDE DEF F, Good
    <2> QED
      BY <1>3, <1>8, <1>9, WalkStays
  <1> QED
    BY <1>7, <1>8, <1>10 DEF GroundedBy, n, S

\* What is taken of a class that can be built is over classes that can.
LEMMA GroundedGoesDown ==
  ASSUME NEW g, NEW b, Cardinality(DOMAIN b) \in Nat, NEW c \in Grounded(g, b)
  PROVE  c \in DOMAIN b /\ ArgClasses(g, b[c].node) \subseteq Grounded(g, b)
  <1> DEFINE n == Cardinality(DOMAIN b)
  <1>1. PICK f : GroundedBy(f, g, b) /\ Grounded(g, b) = f[n]
    BY GroundedGoes
  <1> HIDE DEF n
  <1>2. n \in Nat
    BY DEF n
  <1>3. /\ f[0] = {} /\ \A k \in 0 .. n : f[k] \in SUBSET DOMAIN b
        /\ \A k \in 1 .. n : f[k] = Buildable(g, b, f[k - 1])
    BY <1>1 DEF GroundedBy, n
  <1> DEFINE P == {k \in 0 .. n : k < n => f[k] \subseteq f[k + 1]}
  <1>4. 0 \in P
    BY <1>2, <1>3
  <1>5. \A k \in 0 .. n - 1 : k \in P => k + 1 \in P
    <2> SUFFICES ASSUME NEW k \in 0 .. n - 1, k \in P, k + 1 < n PROVE f[k + 1] \subseteq f[k + 2]
      BY <1>2
    <2>1. f[k] \subseteq f[k + 1]
      BY <1>2
    <2>2. f[k + 1] = Buildable(g, b, f[k]) /\ f[k + 2] = Buildable(g, b, f[k + 1])
      <3>1. k + 1 \in 1 .. n /\ k + 2 \in 1 .. n /\ (k + 1) - 1 = k /\ (k + 2) - 1 = k + 1
        BY <1>2
      <3> QED
        BY <1>3, <3>1
    <2> QED
      BY <2>1, <2>2 DEF Buildable
  <1>6. \A k \in 0 .. n : k \in P
    <2> HIDE DEF P
    <2> QED
      BY <1>2, <1>4, <1>5, CountingUp
  <1>7. n # 0
    BY <1>1, <1>3 DEF n
  <1>8. /\ n \in 1 .. n /\ n \in 0 .. n /\ n - 1 \in 0 .. n /\ n - 1 < n /\ (n - 1) + 1 = n
    BY <1>2, <1>7
  <1>9. f[n] = Buildable(g, b, f[n - 1]) /\ f[n - 1] \subseteq f[n]
    BY <1>3, <1>6, <1>8
  <1>10. Grounded(g, b) = f[n]
    BY <1>1 DEF n
  <1> QED
    BY <1>9, <1>10 DEF Buildable

\* Without free classes every class selected can be built: below it is cheaper.
LEMMA CostsGround ==
  ASSUME NEW g, Extractable(g), NEW model, NEW b \in Selections(g, model, {})
  PROVE  DOMAIN b \subseteq Grounded(g, b)
  <1> SUFFICES ASSUME NEW c0 \in DOMAIN b PROVE c0 \in Grounded(g, b)
    OBVIOUS
  <1> DEFINE n == Cardinality(DOMAIN b)
  <1>1. g \in Graph /\ n \in Nat
    BY NoDearerIsFew DEF Extractable
  <1>2. PICK f : GroundedBy(f, g, b) /\ Grounded(g, b) = f[n]
    BY <1>1, GroundedGoes
  <1> DEFINE P == {k \in 0 .. n : \A c \in DOMAIN b : Cardinality(NoDearer(b, c)) <= k => c \in f[k]}
  <1>3. 0 \in P
    <2>1. \A c \in DOMAIN b : ~ (Cardinality(NoDearer(b, c)) <= 0)
      BY <1>1, NoDearerIsFew
    <2> QED
      BY <1>1, <2>1
  <1>4. \A k \in 0 .. n - 1 : k \in P => k + 1 \in P
    <2> SUFFICES ASSUME NEW k \in 0 .. n - 1, k \in P, NEW c \in DOMAIN b,
                        Cardinality(NoDearer(b, c)) <= k + 1
                 PROVE  c \in f[k + 1]
      BY <1>1
    <2>1. k + 1 \in 1 .. n /\ (k + 1) - 1 = k
      BY <1>1
    <2>2. f[k + 1] = Buildable(g, b, f[k])
      BY <1>2, <2>1 DEF GroundedBy
    <2>3. \A d \in ArgClasses(g, b[c].node) : d \in f[k]
      <3> TAKE d \in ArgClasses(g, b[c].node)
      <3>1. d \in DOMAIN b /\ b[d].cost < b[c].cost
        BY TakenCostsMore
      <3>2. /\ Cardinality(NoDearer(b, d)) \in Nat /\ Cardinality(NoDearer(b, c)) \in Nat
            /\ Cardinality(NoDearer(b, d)) < Cardinality(NoDearer(b, c))
        BY <1>1, <3>1, NoDearerIsFew
      <3>3. Cardinality(NoDearer(b, d)) <= k
        BY <3>2
      <3> QED
        BY <3>1, <3>3
    <2> QED
      BY <2>2, <2>3 DEF Buildable
  <1>5. \A k \in 0 .. n : k \in P
    <2> HIDE DEF P, n
    <2> QED
      BY <1>1, <1>3, <1>4, CountingUp
  <1>6. n \in P /\ Cardinality(NoDearer(b, c0)) <= n
    <2>1. n \in 0 .. n
      BY <1>1
    <2>2. Cardinality(NoDearer(b, c0)) \in 1 .. n
      BY <1>1, NoDearerIsFew
    <2> HIDE DEF P, n
    <2> QED
      BY <1>1, <1>5, <2>1, <2>2
  <1> QED
    BY <1>2, <1>6

\* The term that is built costs what its class does (tree_cost).
LEMMA TermsCostThat ==
  ASSUME NEW g, Extractable(g), NEW model, NEW b \in Selections(g, model, {}),
         \A c \in Classes(g) : Covers(g, model, {}, b, b, c), NEW c0 \in DOMAIN b
  PROVE  TreeCost(g, model, b, c0) = b[c0].cost
  <1> DEFINE args(f, c) == [k \in DOMAIN b[c].node.kids |-> f[Find(g, b[c].node.kids[k])]]
             Good(f) == f = [c \in DOMAIN b |-> NodeCost(model, b[c].node, args(f, c))]
  <1>1. /\ DOMAIN b \subseteq Classes(g) /\ DOMAIN CostsOf(b) = DOMAIN b
        /\ \A c \in DOMAIN b : CostsOf(b)[c] = b[c].cost /\ b[c].cost \in Nat
    BY SelectionParts
  <1>2. ASSUME NEW c \in DOMAIN b
        PROVE  b[c].cost = NodeCost(model, b[c].node, args(CostsOf(b), c))
    <2>1. /\ Charge(g, model, {}, CostsOf(b), b[c].node) <= b[c].cost
          /\ b[c].node \in Ready(g, {}, CostsOf(b), c)
          /\ b[c].node \in Node /\ Priced(g, {}, CostsOf(b), b[c].node)
      BY TakenIsPriced, SelectionParts DEF Selects
    <2>2. b[c].cost <= Charge(g, model, {}, CostsOf(b), b[c].node)
      BY <1>1, <2>1 DEF Covers
    <2>3. Charge(g, model, {}, CostsOf(b), b[c].node) \in Nat
      BY <2>1, ChargeCounts
    <2>4. b[c].cost = Charge(g, model, {}, CostsOf(b), b[c].node)
      BY <1>1, <2>1, <2>2, <2>3
    <2>5. Charge(g, model, {}, CostsOf(b), b[c].node) = NodeCost(model, b[c].node, args(CostsOf(b), c))
      BY DEF Charge
    <2> QED
      BY <2>4, <2>5
  <1>3. Good(CostsOf(b))
    <2>1. CostsOf(b) = [c \in DOMAIN b |-> b[c].cost]
      BY DEF CostsOf
    <2> HIDE DEF args
    <2>2. [c \in DOMAIN b |-> b[c].cost]
            = [c \in DOMAIN b |-> NodeCost(model, b[c].node, args(CostsOf(b), c))]
      BY <1>2
    <2> QED
      BY <2>1, <2>2
  <1> DEFINE f == CHOOSE q : Good(q)
  <1>4. Good(f)
    <2> HIDE DEF Good
    <2> QED
      BY <1>3
  <1>5. TreeCost(g, model, b, c0) = f[c0]
    <2>1. TreeCost(g, model, b, c0) = f[Find(g, c0)]
      BY DEF TreeCost
    <2>2. Find(g, c0) = c0
      BY <1>1 DEF Classes, Find
    <2> QED
      BY <2>1, <2>2
  <1> HIDE DEF f
  <1>6. \A c \in DOMAIN b : f[c] = NodeCost(model, b[c].node, args(f, c))
    <2> HIDE DEF args
    <2> QED
      BY <1>4
  <1> DEFINE Off == {c \in DOMAIN b : f[c] # b[c].cost}
             T == {b[c].cost : c \in Off}
  <1>7. SUFFICES ASSUME Off # {} PROVE FALSE
    BY <1>5
  <1>8. T \in SUBSET Nat /\ T # {}
    BY <1>1, <1>7
  <1>9. PICK t \in T : \A u \in T : t <= u
    <2> HIDE DEF T
    <2> QED
      BY <1>8, NatHasLeast
  <1>10. PICK c \in Off : \A d \in Off : b[c].cost <= b[d].cost
    BY <1>9
  <1>11. \A k \in DOMAIN b[c].node.kids :
            f[Find(g, b[c].node.kids[k])] = CostsOf(b)[Find(g, b[c].node.kids[k])]
    <2> TAKE k \in DOMAIN b[c].node.kids
    <2> DEFINE d == Find(g, b[c].node.kids[k])
    <2>1. d \in ArgClasses(g, b[c].node) \ {}
      BY DEF ArgClasses
    <2>2. d \in DOMAIN b /\ b[d].cost < b[c].cost
      BY <1>10, <2>1, TakenCostsMore
    <2>3. d \notin Off
      BY <1>1, <1>10, <2>2
    <2> HIDE DEF d
    <2>4. f[d] = CostsOf(b)[d]
      BY <1>1, <2>2, <2>3
    <2> QED
      BY <2>4 DEF d
  <1>12. args(f, c) = args(CostsOf(b), c)
    BY <1>11
  <1> QED
    BY <1>2, <1>6, <1>10, <1>12

\* The classes a term is built of are classes that can be built.
LEMMA MaterializedIsGrounded ==
  ASSUME NEW g, NEW b, Cardinality(DOMAIN b) \in Nat, Cardinality(Classes(g)) \in Nat,
         NEW r, CanBuild(g, b, r)
  PROVE  Materialized(g, b, r) \subseteq Grounded(g, b)
  <1> DEFINE n == Cardinality(Classes(g))
             x == {Find(g, r)}
             S == SUBSET Grounded(g, b)
             F == [i \in 1 .. n |-> [from \in S |-> Further(g, b, from)]]
             Good(f) == f = [k \in 0 .. n |-> IF k = 0 THEN x ELSE Further(g, b, f[k - 1])]
  <1>1. x \in S
    BY DEF CanBuild
  <1>2. \A from \in S : Further(g, b, from) \in S
    BY GroundedGoesDown DEF Further
  <1> HIDE DEF S, n, x
  <1>3. n \in Nat
    BY DEF n
  <1>4. Steps(F, n, S, x)
    BY <1>1, <1>2, <1>3 DEF Steps
  <1>5. PICK w : Walks(w, F, n, S, x)
    <2> HIDE DEF F
    <2> QED
      BY <1>4, WalkExists
  <1>6. Good(w)
    <2>1. w = [k \in 0 .. n |-> w[k]]
      BY <1>5 DEF Walks
    <2>2. \A k \in 0 .. n : w[k] = IF k = 0 THEN x ELSE Further(g, b, w[k - 1])
      <3> TAKE k \in 0 .. n
      <3>1. CASE k = 0
        BY <1>5, <3>1 DEF Walks
      <3>2. CASE k # 0
        <4>1. k \in 1 .. n /\ k - 1 \in 0 .. n
          BY <1>3, <3>2
        <4>2. w[k - 1] \in S /\ w[k] = F[k][w[k - 1]]
          BY <1>5, <4>1 DEF Walks
        <4> QED
          BY <3>2, <4>1, <4>2
      <3> QED
        BY <3>1, <3>2
    <2> QED
      BY <2>1, <2>2
  <1> DEFINE f == CHOOSE q : Good(q)
  <1>7. Good(f)
    <2> HIDE DEF Good
    <2> QED
      BY <1>6
  <1>8. Materialized(g, b, r) = f[n]
    BY DEF Materialized, n, x
  <1> HIDE DEF f
  <1>9. f[0] = x /\ \A k \in 1 .. n : f[k] = Further(g, b, f[k - 1])
    <2>1. \A k \in 0 .. n : f[k] = IF k = 0 THEN x ELSE Further(g, b, f[k - 1])
      BY <1>7
    <2>2. 0 \in 0 .. n /\ \A k \in 1 .. n : k \in 0 .. n /\ k # 0
      BY <1>3
    <2> HIDE DEF Good
    <2> QED
      BY <2>1, <2>2
  <1>10. \A k \in 1 .. n : f[k - 1] \in S => f[k] = F[k][f[k - 1]]
    BY <1>9
  <1>11. \A k \in 0 .. n : f[k] \in S
    <2> HIDE DEF F, Good
    <2> QED
      BY <1>4, <1>9, <1>10, WalkStays
  <1>12. f[n] \in S
    BY <1>3, <1>11
  <1> QED
    BY <1>8, <1>12 DEF S

LEMMA SumIsNat ==
  ASSUME NEW s \in Seq(Nat)
  PROVE  SumOver(s) \in Nat
  <1> DEFINE n == Len(s)
             F == [i \in 1 .. n |-> [y \in Nat |-> y + s[i]]]
             Good(f) == f = [k \in 0 .. n |-> IF k = 0 THEN 0 ELSE f[k - 1] + s[k]]
  <1>1. n \in Nat /\ \A i \in 1 .. n : s[i] \in Nat
    OBVIOUS
  <1> HIDE DEF n
  <1>2. F \in [1 .. n -> [Nat -> Nat]]
    BY <1>1
  <1>3. Steps(F, n, Nat, 0)
    BY <1>1, <1>2 DEF Steps
  <1>4. PICK w : Walks(w, F, n, Nat, 0)
    <2> HIDE DEF F
    <2> QED
      BY <1>3, WalkExists
  <1>5. Good(w)
    <2>1. w = [k \in 0 .. n |-> w[k]]
      BY <1>4 DEF Walks
    <2>2. \A k \in 0 .. n : w[k] = IF k = 0 THEN 0 ELSE w[k - 1] + s[k]
      <3> TAKE k \in 0 .. n
      <3>1. CASE k = 0
        BY <1>4, <3>1 DEF Walks
      <3>2. CASE k # 0
        <4>1. k \in 1 .. n /\ k - 1 \in 0 .. n
          BY <1>1, <3>2
        <4>2. w[k - 1] \in Nat /\ w[k] = F[k][w[k - 1]]
          BY <1>4, <4>1 DEF Walks
        <4> QED
          BY <3>2, <4>1, <4>2
      <3> QED
        BY <3>1, <3>2
    <2> QED
      BY <2>1, <2>2
  <1> DEFINE f == CHOOSE q : Good(q)
  <1>6. Good(f)
    <2> HIDE DEF Good
    <2> QED
      BY <1>5
  <1>7. SumOver(s) = f[n]
    BY DEF SumOver, n
  <1> HIDE DEF f
  <1>8. f[0] = 0 /\ \A k \in 1 .. n : f[k] = f[k - 1] + s[k]
    <2>1. \A k \in 0 .. n : f[k] = IF k = 0 THEN 0 ELSE f[k - 1] + s[k]
      BY <1>6
    <2>2. 0 \in 0 .. n /\ \A k \in 1 .. n : k \in 0 .. n /\ k # 0
      BY <1>1
    <2> HIDE DEF Good
    <2> QED
      BY <2>1, <2>2
  <1>9. \A k \in 1 .. n : f[k - 1] \in Nat => f[k] = F[k][f[k - 1]]
    BY <1>8
  <1>10. \A k \in 0 .. n : f[k] \in Nat
    <2> HIDE DEF F, Good
    <2> QED
      BY <1>3, <1>8, <1>9, WalkStays
  <1> QED
    BY <1>1, <1>7, <1>10

LEMMA DagCostIsNat ==
  ASSUME NEW g, Extractable(g), NEW model, NEW free, NEW b \in Selections(g, model, free),
         NEW r, CanBuild(g, b, r)
  PROVE  DagCost(g, model, b, r) \in Nat /\ Materialized(g, b, r) \subseteq Classes(g)
  <1> DEFINE M == Materialized(g, b, r)
             list == Increasing(M)
             n == Cardinality(M)
             own(c) == NodeCost(model, b[c].node, [j \in DOMAIN b[c].node.kids |-> 0])
             s == [k \in DOMAIN list |-> own(list[k])]
  <1>1. g \in Graph /\ DOMAIN b \subseteq Classes(g)
    BY SelectionParts DEF Extractable
  <1>2. /\ Classes(g) \in SUBSET Nat /\ IsFiniteSet(Classes(g)) /\ Cardinality(Classes(g)) \in Nat
    BY <1>1, ClassesAreFew
  <1>3. IsFiniteSet(DOMAIN b) /\ Cardinality(DOMAIN b) \in Nat
    BY <1>1, <1>2, FS_Subset, FS_CardinalityType
  <1>4. M \subseteq Grounded(g, b)
    BY <1>2, <1>3, MaterializedIsGrounded
  <1>5. M \subseteq DOMAIN b
    BY <1>3, <1>4, GroundedGoesDown
  <1>6. Lists(list, M)
    <2>1. M \in SUBSET Nat /\ IsFiniteSet(M)
      BY <1>1, <1>2, <1>5, FS_Subset
    <2> QED
      BY <2>1, IncreasingLists
  <1>7. \A c \in DOMAIN b : own(c) \in Nat
    <2> TAKE c \in DOMAIN b
    <2>1. b[c].node \in Node /\ [j \in DOMAIN b[c].node.kids |-> 0] \in [DOMAIN b[c].node.kids -> Nat]
      BY SelectionParts
    <2> QED
      BY <2>1, NodeCosts
  <1> HIDE DEF M, own
  <1>8. n \in Nat /\ DOMAIN list = 1 .. n /\ \A k \in 1 .. n : list[k] \in M
    BY <1>6 DEF Lists
  <1>9. s \in [1 .. n -> Nat]
    BY <1>5, <1>7, <1>8
  <1>10. DagCost(g, model, b, r) = SumOver(s)
    BY DEF DagCost, M, own
  <1> HIDE DEF s, n
  <1>11. s \in Seq(Nat)
    BY <1>8, <1>9, CountedIsSeq
  <1> QED
    BY <1>1, <1>5, <1>10, <1>11, SumIsNat DEF M

----------------------------------------------------------------------------
(* Extraction with sharing.                                                 *)

\* Each round keeps a selection that can be built and is no dearer.
LEMMA SharedIsNoDearer ==
  ASSUME NEW g, Extractable(g), NEW model, NEW r, CanBuild(g, Selection(g, model, {}), r)
  PROVE  LET shared == SharedSelection(g, model, r)
         IN  /\ CanBuild(g, shared, r)
             /\ DagCost(g, model, shared, r) <= DagCost(g, model, Selection(g, model, {}), r)
  <1> DEFINE n == DagRounds
             x == Selection(g, model, {})
             All == UNION {Selections(g, model, free) : free \in SUBSET Classes(g)}
             Cost(b) == DagCost(g, model, b, r)
             S == {b \in All : CanBuild(g, b, r) /\ Cost(b) <= Cost(x)}
             F == [i \in 1 .. n |-> [b \in S |-> Refined(g, model, b, r)]]
             Good(f) == f = [k \in 0 .. n |-> IF k = 0 THEN x ELSE Refined(g, model, f[k - 1], r)]
  <1>1. n \in Nat
    BY NothingIsFree
  <1>2. x \in Selections(g, model, {})
    BY SelectionSettles
  <1>3. \A b \in All : CanBuild(g, b, r) =>
          Cost(b) \in Nat /\ Materialized(g, b, r) \subseteq Classes(g)
    <2> TAKE b \in All
    <2>1. PICK free \in SUBSET Classes(g) : b \in Selections(g, model, free)
      OBVIOUS
    <2> QED
      BY <2>1, DagCostIsNat
  <1>4. x \in All
    <2>1. {} \in SUBSET Classes(g)
      OBVIOUS
    <2> QED
      BY <1>2, <2>1
  <1>5. x \in S
    <2>1. CanBuild(g, x, r) /\ Cost(x) \in Nat
      BY <1>3, <1>4
    <2> HIDE DEF Cost, x, All
    <2> QED
      BY <1>4, <2>1
  <1>6. \A b \in S : Refined(g, model, b, r) \in S
    <2> SUFFICES ASSUME NEW b \in S PROVE Refined(g, model, b, r) \in S
      OBVIOUS
    <2> DEFINE next == Selection(g, model, Freed(g, b, r))
    <2>1. b \in All /\ CanBuild(g, b, r) /\ Cost(b) <= Cost(x)
      OBVIOUS
    <2>2. CASE ~ (Usable(g, next, r) /\ Cost(next) < Cost(b))
      <3>1. Refined(g, model, b, r) = b
        BY <2>2 DEF Refined
      <3> QED
        BY <3>1
    <2>3. CASE Usable(g, next, r) /\ Cost(next) < Cost(b)
      <3>1. Refined(g, model, b, r) = next
        BY <2>3 DEF Refined
      <3>2. Freed(g, b, r) \in SUBSET Classes(g)
        BY <1>3, <2>1 DEF Freed
      <3>3. next \in Selections(g, model, Freed(g, b, r))
        BY SelectionSettles
      <3>4. next \in All
        BY <3>2, <3>3
      <3> HIDE DEF next, All
      <3>5. CanBuild(g, next, r)
        BY <2>3 DEF Usable
      <3>6. Cost(next) \in Nat /\ Cost(b) \in Nat /\ Cost(x) \in Nat
        BY <1>3, <1>4, <2>1, <3>4, <3>5
      <3> HIDE DEF Cost, x
      <3>7. Cost(next) <= Cost(x)
        BY <2>1, <2>3, <3>6
      <3> QED
        BY <3>1, <3>4, <3>5, <3>7
    <2> QED
      BY <2>2, <2>3
  <1> HIDE DEF S, n, x
  <1>7. Steps(F, n, S, x)
    BY <1>1, <1>5, <1>6 DEF Steps
  <1>8. PICK w : Walks(w, F, n, S, x)
    <2> HIDE DEF F
    <2> QED
      BY <1>7, WalkExists
  <1>9. Good(w)
    <2>1. w = [k \in 0 .. n |-> w[k]]
      BY <1>8 DEF Walks
    <2>2. \A k \in 0 .. n : w[k] = IF k = 0 THEN x ELSE Refined(g, model, w[k - 1], r)
      <3> TAKE k \in 0 .. n
      <3>1. CASE k = 0
        BY <1>8, <3>1 DEF Walks
      <3>2. CASE k # 0
        <4>1. k \in 1 .. n /\ k - 1 \in 0 .. n
          BY <1>1, <3>2
        <4>2. w[k - 1] \in S /\ w[k] = F[k][w[k - 1]]
          BY <1>8, <4>1 DEF Walks
        <4> QED
          BY <3>2, <4>1, <4>2
      <3> QED
        BY <3>1, <3>2
    <2> QED
      BY <2>1, <2>2
  <1> DEFINE f == CHOOSE q : Good(q)
  <1>10. Good(f)
    <2> HIDE DEF Good
    <2> QED
      BY <1>9
  <1>11. SharedSelection(g, model, r) = f[n]
    BY DEF SharedSelection, n, x
  <1> HIDE DEF f
  <1>12. f[0] = x /\ \A k \in 1 .. n : f[k] = Refined(g, model, f[k - 1], r)
    <2>1. \A k \in 0 .. n : f[k] = IF k = 0 THEN x ELSE Refined(g, model, f[k - 1], r)
      BY <1>10
    <2>2. 0 \in 0 .. n /\ \A k \in 1 .. n : k \in 0 .. n /\ k # 0
      BY <1>1
    <2> HIDE DEF Good
    <2> QED
      BY <2>1, <2>2
  <1>13. \A k \in 1 .. n : f[k - 1] \in S => f[k] = F[k][f[k - 1]]
    BY <1>12
  <1>14. \A k \in 0 .. n : f[k] \in S
    <2> HIDE DEF F, Good
    <2> QED
      BY <1>7, <1>12, <1>13, WalkStays
  <1>15. f[n] \in S
    BY <1>1, <1>14
  <1> HIDE DEF All
  <1> QED
    BY <1>11, <1>15 DEF S, x

----------------------------------------------------------------------------
(* What a run leaves behind is a graph that terms can be taken out of.       *)

LEMMA SoundIsExtractable ==
  ASSUME NEW g, NEW u, Sound(g, u), Forest(g), FiniteNodes(g)
  PROVE  Extractable(g)
  <1>1. g \in Graph /\ Made(g) \subseteq Id
    BY MadeIds DEF Sound
  <1>2. \A i \in Made(g) : Find(g, i) \in Classes(g)
    BY <1>1 DEF Sound, LeadersAgree, Forest, Classes, Find
  <1>3. \A c \in Classes(g) : \A n \in g.nodes[c] :
          n \in Node /\ \A k \in DOMAIN n.kids : n.kids[k] \in Made(g)
    BY <1>1 DEF Sound, NodesAgree, States, Classes
  <1> QED
    BY <1>1, <1>2, <1>3 DEF Extractable

\* Every id that was made has a term, over ids that were there before it: its class
\* has a cost.
LEMMA EveryIdHasATerm ==
  ASSUME NEW g, NEW u, Sound(g, u), Extractable(g), NEW t,
         TermsAreNodes(g, t), Forest(g), NodesCover(g, t),
         NEW model, NEW b \in Selections(g, model, {}),
         \A c \in Classes(g) : Covers(g, model, {}, b, b, c)
  PROVE  \A i \in Made(g) : Find(g, i) \in DOMAIN b
  <1> DEFINE T == {i \in Made(g) : Find(g, i) \notin DOMAIN b}
  <1>1. SUFFICES ASSUME T # {} PROVE FALSE
    OBVIOUS
  <1>2. g \in Graph /\ Made(g) \subseteq Id /\ g.made \in Nat /\ T \in SUBSET Nat
    BY MadeIds DEF Extractable, Made
  <1>3. PICK i \in T : \A j \in T : i <= j
    <2> HIDE DEF T
    <2> QED
      BY <1>1, <1>2, NatHasLeast
  <1>4. /\ i \in Made(g) /\ t[i] \in Node
        /\ \A k \in Kids(t[i]) : k < i
    BY DEF TermsAreNodes, Kids
  <1>5. Find(g, i) \in Classes(g)
    BY <1>2, <1>4 DEF Sound, LeadersAgree, Forest, Classes, Find
  <1>6. PICK n \in g.nodes[Find(g, i)] : Canonical(g, n) = Canonical(g, t[i])
    BY <1>4 DEF NodesCover, HasForm, Find
  <1>7. n \in Node /\ \A k \in Kids(n) : k \in Made(g)
    BY <1>2, <1>5, <1>6 DEF Sound, NodesAgree, States, Kids, Classes
  <1>8. Under(g, Kids(n)) = Under(g, Kids(t[i])) /\ Kids(t[i]) \subseteq Id
    BY <1>2, <1>4, <1>6, <1>7, FormIsNode
  <1>9. ArgClasses(g, n) = Under(g, Kids(n))
    BY DEF ArgClasses, Under, Kids, Find
  <1>10. \A d \in Under(g, Kids(t[i])) : d \in DOMAIN b
    <2> SUFFICES ASSUME NEW k \in Kids(t[i]) PROVE Find(g, k) \in DOMAIN b
      BY DEF Under, Find
    <2>1. k \in Nat /\ k < i /\ i \in Nat
      BY <1>2, <1>4, <1>8, MaxIdsIsNat DEF Id
    <2>2. k \in Made(g)
      BY <1>2, <1>4, <2>1 DEF Made
    <2>3. k \notin T
      BY <1>3, <2>1
    <2> QED
      BY <2>2, <2>3
  <1>11. n \in Ready(g, {}, CostsOf(b), Find(g, i))
    BY <1>6, <1>8, <1>9, <1>10, SelectionParts DEF Ready
  <1>12. Find(g, i) \in DOMAIN b
    BY <1>5, <1>11 DEF Covers
  <1> QED
    BY <1>12

LEMMA SIsExtractable ==
  ASSUME SInv
  PROVE  Extractable(graph)
  BY SoundIsExtractable DEF SInv, IInv, CInv, Closed

\* Extraction finds the cheapest term of every class, whatever a run leaves behind and
\* whatever operators cost, as long as none is free: the loop of solve ends, no
\* selection leads back to itself, and the term that is built costs what was
\* computed (solve, build_into, tree_cost).
THEOREM ExtractedIsCheapest == RSpec => []ExtractionIsCheapest
  <1>1. SInv => ExtractionIsCheapest
    <2> SUFFICES ASSUME SInv, NEW model \in Models
                 PROVE  LET best  == Selection(graph, model, {})
                            least == Cheapest(graph, model)
                        IN  /\ DOMAIN best = DOMAIN least
                            /\ \A k \in DOMAIN best :
                                 /\ best[k].cost = least[k]
                                 /\ CanBuild(graph, best, k)
                                 /\ TreeCost(graph, model, best, k) = least[k]
      BY DEF ExtractionIsCheapest
    <2> DEFINE best == Selection(graph, model, {})
               least == Cheapest(graph, model)
    <2>1. Extractable(graph)
      BY SIsExtractable
    <2>2. /\ best \in Selections(graph, model, {})
          /\ \A c \in Classes(graph) : Covers(graph, model, {}, best, best, c)
      BY <2>1, SelectionSettles
    <2> HIDE DEF best
    <2>3. DOMAIN best = DOMAIN least /\ \A k \in DOMAIN best : best[k].cost = least[k]
      BY <2>1, <2>2, SettledIsLeast DEF Cheapest
    <2>4. \A k \in DOMAIN best : CanBuild(graph, best, k)
      <3> TAKE k \in DOMAIN best
      <3>1. Find(graph, k) = k
        BY <2>2, SelectionParts DEF Classes, Find
      <3> QED
        BY <2>1, <2>2, <3>1, CostsGround DEF CanBuild
    <2>5. \A k \in DOMAIN best : TreeCost(graph, model, best, k) = best[k].cost
      BY <2>1, <2>2, TermsCostThat
    <2> QED
      BY <2>3, <2>4, <2>5 DEF best
  <1> QED
    BY StartHolds, StepKeepsS, <1>1, PTL DEF RSpec

\* The class the caller asked about stays there.
RootIsMade == root \in Made(graph)

LEMMA RootStarts == RInit => RootIsMade
  <1> SUFFICES ASSUME RInit PROVE RootIsMade
    OBVIOUS
  <1> DEFINE p == problem.start
             x == Instantiated(Ground, p, <<>>)
  <1>1. /\ problem \in Problems /\ IsPattern(p) /\ HolesOf(p) = {} /\ SizeOf(p) <= CallerIds
        /\ Len(p) \in 1 .. Len(p)
    <2>1. /\ problem \in Problems /\ IsPattern(p) /\ HolesOf(p) = {} /\ SizeOf(p) <= CallerIds
      BY ProblemsAreRules DEF RInit
    <2> QED
      BY <2>1 DEF IsPattern
  <1>2. graph = x.graph /\ root = Last(x.ids)
    BY DEF RInit, StartingFrom, Ground
  <1>3. MayBuild(Ground, p, <<>>, <<>>, Values, 0)
    <2>1. Ground.graph.made = 0 /\ Ground.ids = <<>>
      BY DEF Ground, EmptyGraph
    <2>2. SizeOf(p) \in Nat
      BY <1>1, OperatorsCount
    <2>3. Ground.graph.made + SizeOf(p) <= CallerIds
      BY <1>1, <2>1, <2>2
    <2> QED
      BY <1>1, <2>1, <2>3, GroundStands, ValuesAreWorthy DEF MayBuild
  <1>4. HasBuilt(Ground, p, Worths(p, <<>>), Values, 0, Len(p), x)
    BY <1>3, InstantiatedStands
  <1>5. Len(x.ids) = Len(p) /\ x.ids[Len(p)] \in Made(x.graph)
    BY <1>1, <1>4 DEF HasBuilt
  <1> QED
    BY <1>2, <1>5 DEF RootIsMade, Last

LEMMA RootStays == SInv /\ SInv' /\ RootIsMade /\ [RNext]_allVars => RootIsMade'
  <1> SUFFICES ASSUME SInv, SInv', RootIsMade, [RNext]_allVars PROVE RootIsMade'
    OBVIOUS
  <1>1. SUFFICES Made(graph) \subseteq Made(graph') /\ root' = root
    BY DEF RootIsMade
  <1>2. root' = root
    BY DEF RNext, Loop, Begin, BeginPass, Stop, SearchRule, SkipBanned, EndSearch, ApplyMatch,
           EndRule, EndApply, RebuildOn, EndPass, NextPass, Done, TimePasses, Ended, allVars, runVars
  <1>3. CASE graph' = graph
    BY <1>2, <1>3
  <1>4. CASE ApplyMatch
    <2> DEFINE k == found[1].rule
               m == found[1].matches[1]
               r == Rules[k]
    <2>1. /\ k \in RuleIds /\ Stands(Begun, Values, repairing)
          /\ graph' = graph \/ \E x : Joins(x, r, k, m)
      BY <1>4, ApplyMatchJoins
    <2>2. k \in Nat
      <3>1. Rules \in Seq(Range(Rules))
        BY ProblemsAreRules DEF SInv, Rules
      <3> QED
        BY <2>1, <3>1 DEF RuleIds
    <2>3. step = "apply" /\ UNCHANGED <<rebuildVars, curtailed, problem, step>>
      BY <1>4 DEF ApplyMatch
    <2> HIDE DEF k, m, r
    <2>4. CASE \E x : Joins(x, r, k, m)
      <3>1. PICK x : Joins(x, r, k, m)
        BY <2>4
      <3>2. \A i \in Made(graph) : i \in Made(graph')
        BY <2>1, <2>2, <2>3, <3>1, JoinedKeeps
      <3> QED
        BY <1>2, <3>2
    <2> QED
      BY <1>3, <2>1, <2>4
  <1>5. CASE RebuildOn
    <2>1. RebuildStep
      BY <1>5, RebuildOnIsStep
    <2>2. GoesOnWith(graph, graph', value, value')
      BY <2>1, RebuildGoesOn DEF SInv
    <2> QED
      BY <1>2, <2>2 DEF GoesOnWith
  <1>6. CASE ~ ApplyMatch /\ ~ RebuildOn
    <2>1. graph' = graph
      BY <1>6 DEF RNext, Loop, Begin, BeginPass, Stop, Rebuild, SearchRule, SkipBanned, EndSearch,
             EndRule, EndApply, EndPass, NextPass, Done, TimePasses, Ended, allVars, vars
    <2> QED
      BY <1>3, <2>1
  <1> QED
    BY <1>4, <1>5, <1>6

\* Extraction with sharing returns a term, and never one dearer than the cheapest tree,
\* although what it prices at nothing may lead in circles (DagExtractor::try_find_best).
THEOREM SharedIsCheaper == RSpec => []SharingNeverCosts
  <1>1. SInv /\ RootIsMade => SharingNeverCosts
    <2> SUFFICES ASSUME SInv, RootIsMade, NEW model \in Models
                 PROVE  LET tree   == Selection(graph, model, {})
                            shared == SharedSelection(graph, model, root)
                        IN  /\ CanBuild(graph, shared, root)
                            /\ DagCost(graph, model, shared, root) <= DagCost(graph, model, tree, root)
      BY DEF SharingNeverCosts
    <2> DEFINE tree == Selection(graph, model, {})
    <2>1. Extractable(graph)
      BY SIsExtractable
    <2>2. /\ tree \in Selections(graph, model, {})
          /\ \A c \in Classes(graph) : Covers(graph, model, {}, tree, tree, c)
      BY <2>1, SelectionSettles
    <2>3. CanBuild(graph, tree, root)
      <3> HIDE DEF tree
      <3>1. /\ Sound(graph, value) /\ TermsAreNodes(graph, term) /\ Forest(graph)
            /\ NodesCover(graph, term)
        BY DEF SInv, IInv, CInv, Closed
      <3>2. Find(graph, root) \in DOMAIN tree
        BY <2>1, <2>2, <3>1, EveryIdHasATerm DEF RootIsMade
      <3> QED
        BY <2>1, <2>2, <3>2, CostsGround DEF CanBuild
    <2> QED
      BY <2>1, <2>3, SharedIsNoDearer
  <1> QED
    BY StartHolds, StepKeepsS, RootStarts, RootStays, <1>1, PTL DEF RSpec

----------------------------------------------------------------------------
(* Why two terms are equal.                                                 *)

\* Each recorded union joins what is one class, and a set of ids that none of them
\* leads out of holds whole classes.
Unbroken(g, S) == \A e \in DOMAIN g.history : g.history[e].ids[1] \in S <=> g.history[e].ids[2] \in S

Spelled(g) ==
  /\ \A e \in DOMAIN g.history : Find(g, g.history[e].ids[1]) = Find(g, g.history[e].ids[2])
  /\ \A S \in SUBSET Id : Unbroken(g, S) =>
       \A i, j \in Id : Find(g, i) = Find(g, j) /\ i \in S => j \in S

LEMMA SameSpells ==
  ASSUME NEW g, NEW h, Spelled(g), h.leader = g.leader, h.history = g.history
  PROVE  Spelled(h)
  BY DEF Spelled, Unbroken, Find

LEMMA RecordedEnds ==
  ASSUME NEW g \in Graph, NEW e \in DOMAIN g.history
  PROVE  /\ e \in Nat /\ g.history[e].ids \in Id \X Id
         /\ g.history[e].ids[1] \in Id /\ g.history[e].ids[2] \in Id
  <1> DEFINE R == [ids : Id \X Id, why : Why]
  <1>1. g.history \in Seq(R)
    BY DEF Graph
  <1>2. \A x \in R : x.ids \in Id \X Id
    OBVIOUS
  <1> HIDE DEF R
  <1>3. e \in Nat /\ g.history[e] \in R
    BY <1>1
  <1> QED
    BY <1>2, <1>3

LEMMA UnitedSpells ==
  ASSUME NEW g \in Graph, Forest(g), Spelled(g), NEW a \in Id, NEW b \in Id, NEW why
  PROVE  Spelled(United(g, a, b, why))
  <1> DEFINE kept == Survivor(g, a, b)
             gone == Absorbed(g, a, b)
             h == United(g, a, b, why)
             n == Len(g.history)
  <1>1. /\ g.leader \in [Id -> Id] /\ g.history \in Seq([ids : Id \X Id, why : Why])
        /\ \A i \in Id : g.leader[g.leader[i]] = g.leader[i]
    BY DEF Graph, Forest
  <1>2. /\ kept \in Id /\ gone \in Id /\ {kept, gone} = {Find(g, a), Find(g, b)}
        /\ Find(g, a) \in Id /\ Find(g, b) \in Id
    BY <1>1 DEF Survivor, Absorbed, Find
  <1>3. CASE kept = gone
    BY <1>3 DEF United
  <1>4. CASE kept # gone
    <2>1. /\ h.leader = [i \in Id |-> IF g.leader[i] = gone THEN kept ELSE g.leader[i]]
          /\ h.history = Append(g.history, [ids |-> <<Find(g, a), Find(g, b)>>, why |-> why])
      BY <1>4 DEF United, Graph, Recorded
    <2>2. /\ n \in Nat /\ DOMAIN g.history = 1 .. n /\ DOMAIN h.history = 1 .. n + 1
          /\ \A e \in 1 .. n : h.history[e] = g.history[e]
          /\ h.history[n + 1].ids = <<Find(g, a), Find(g, b)>>
      BY <1>1, <2>1
    <2>3. \A e \in 1 .. n : g.history[e].ids[1] \in Id /\ g.history[e].ids[2] \in Id
      BY <2>2, RecordedEnds
    <2>4. /\ h.history[n + 1].ids[1] = Find(g, a) /\ h.history[n + 1].ids[2] = Find(g, b)
      BY <2>2
    <2> HIDE DEF h, n, kept, gone
    <2>5. \A i \in Id : Find(h, i) = IF Find(g, i) = gone THEN kept ELSE Find(g, i)
      BY <2>1 DEF Find
    <2>6. Find(h, Find(g, a)) = Find(h, Find(g, b))
      BY <1>1, <1>2, <2>5 DEF Find
    <2>7. \A e \in 1 .. n + 1 : Find(h, h.history[e].ids[1]) = Find(h, h.history[e].ids[2])
      <3> TAKE e \in 1 .. n + 1
      <3>1. CASE e \in 1 .. n
        BY <2>2, <2>3, <2>5, <3>1 DEF Spelled
      <3>2. CASE e = n + 1
        BY <2>4, <2>6, <3>2
      <3> QED
        BY <2>2, <3>1, <3>2
    <2>8. ASSUME NEW S \in SUBSET Id, Unbroken(h, S), NEW i \in Id, NEW j \in Id,
                 Find(h, i) = Find(h, j), i \in S
          PROVE  j \in S
      <3>1. Unbroken(g, S)
        <4>1. \A e \in 1 .. n : e \in 1 .. n + 1
          BY <2>2
        <4> QED
          BY <2>2, <2>8, <4>1 DEF Unbroken
      <3>2. Find(g, a) \in S <=> Find(g, b) \in S
        <4>1. n + 1 \in 1 .. n + 1
          BY <2>2
        <4> QED
          BY <2>2, <2>4, <2>8, <4>1 DEF Unbroken
      <3>3. \A k, l \in Id : Find(g, k) = Find(g, l) /\ k \in S => l \in S
        BY <3>1 DEF Spelled
      <3>4. Find(g, i) \in Id /\ Find(g, Find(g, i)) = Find(g, i)
            /\ Find(g, j) \in Id /\ Find(g, Find(g, j)) = Find(g, j)
        BY <1>1 DEF Find
      <3>5. Find(g, i) \in S
        BY <2>8, <3>3, <3>4
      <3>6. kept \in S <=> gone \in S
        BY <1>2, <3>2
      <3>7. Find(g, j) \in S
        BY <2>5, <2>8, <3>5, <3>6
      <3> QED
        BY <3>3, <3>4, <3>7
    <2>9. Spelled(h)
      BY <2>2, <2>7, <2>8 DEF Spelled
    <2> QED
      BY <2>9 DEF h
  <1> QED
    BY <1>3, <1>4

\* The ends of a recorded union.
LEMMA EdgeEnds ==
  ASSUME NEW g \in Graph, NEW e \in DOMAIN g.history
  PROVE  LET p == g.history[e].ids[1]
             q == g.history[e].ids[2]
         IN  /\ p \in Id /\ q \in Id /\ Edge(g, e) = {p, q} /\ e \in Nat
             /\ \A i \in {p, q} : Across(g, e, i) \in {p, q} /\ {i, Across(g, e, i)} = {p, q}
  <1>2. g.history[e].ids \in Id \X Id /\ e \in Nat
    BY RecordedEnds
  <1>3. PICK p \in Id, q \in Id : g.history[e].ids = <<p, q>>
    BY <1>2
  <1>4. ToSet(<<p, q>>) = {p, q}
    BY DEF ToSet
  <1> QED
    BY <1>2, <1>3, <1>4 DEF Edge, Across

----------------------------------------------------------------------------
(* The ways from one id to the others.                                      *)

Alike(g, a) == {i \in Id : Find(g, i) = Find(g, a)}

Hop(g) == [from : Id, to : Id, edge : DOMAIN g.history]

\* A way that leads from a to j, each hop across a recorded union.
LeadsTo(g, way, a, j) ==
  /\ way \in Seq(Hop(g))
  /\ IF way = <<>> THEN a = j ELSE way[1].from = a /\ way[Len(way)].to = j
  /\ \A k \in 2 .. Len(way) : way[k].from = way[k - 1].to
  /\ \A k \in 1 .. Len(way) : Edge(g, way[k].edge) = {way[k].from, way[k].to}

WaysFrom(g, a) ==
  {w \in UNION {[D -> Seq(Hop(g))] : D \in SUBSET Alike(g, a)} :
     a \in DOMAIN w /\ \A j \in DOMAIN w : LeadsTo(g, w[j], a, j)}

LEMMA WaysParts ==
  ASSUME NEW g, NEW a, NEW w
  PROVE  w \in WaysFrom(g, a) <=>
           /\ w \in [DOMAIN w -> Seq(Hop(g))] /\ DOMAIN w \subseteq Alike(g, a) /\ a \in DOMAIN w
           /\ \A j \in DOMAIN w : LeadsTo(g, w[j], a, j)
  BY DEF WaysFrom

\* A way goes on by a hop.
LEMMA OneHopOn ==
  ASSUME NEW g, NEW a, NEW i, NEW way, LeadsTo(g, way, a, i), NEW hop \in Hop(g),
         hop.from = i, Edge(g, hop.edge) = {hop.from, hop.to}
  PROVE  LeadsTo(g, Append(way, hop), a, hop.to)
  <1> DEFINE n == Len(way)
             on == Append(way, hop)
  <1>1. way \in Seq(Hop(g)) /\ n \in Nat
    BY DEF LeadsTo
  <1>2. /\ on \in Seq(Hop(g)) /\ Len(on) = n + 1 /\ on[n + 1] = hop
        /\ \A k \in 1 .. n : on[k] = way[k]
    BY <1>1
  <1>3. on # <<>>
    BY <1>1, <1>2
  <1> HIDE DEF on
  <1>4. CASE way = <<>>
    <2>1. n = 0 /\ a = i
      BY <1>4 DEF LeadsTo
    <2> QED
      BY <1>2, <1>3, <2>1 DEF LeadsTo, on
  <1>5. CASE way # <<>>
    <2>1. n \in 1 .. n /\ 1 \in 1 .. n
      BY <1>1, <1>5
    <2>2. way[1].from = a /\ way[n].to = i
      BY <1>5 DEF LeadsTo
    <2>3. on[1].from = a /\ on[n].to = i
      BY <1>2, <2>1, <2>2
    <2>4. \A k \in 2 .. n + 1 : on[k].from = on[k - 1].to
      <3> TAKE k \in 2 .. n + 1
      <3>1. CASE k \in 2 .. n
        <4>1. k \in 1 .. n /\ k - 1 \in 1 .. n
          BY <1>1, <3>1
        <4> QED
          BY <1>2, <3>1, <4>1 DEF LeadsTo
      <3>2. CASE k = n + 1
        <4>1. k - 1 = n
          BY <1>1, <3>2
        <4> QED
          BY <1>2, <2>3, <3>2, <4>1
      <3> QED
        BY <1>1, <3>1, <3>2
    <2>5. \A k \in 1 .. n + 1 : Edge(g, on[k].edge) = {on[k].from, on[k].to}
      <3> TAKE k \in 1 .. n + 1
      <3>1. CASE k \in 1 .. n
        BY <1>2, <3>1 DEF LeadsTo
      <3>2. CASE k = n + 1
        BY <1>2, <3>2
      <3> QED
        BY <1>1, <3>1, <3>2
    <2>6. LeadsTo(g, on, a, hop.to)
      BY <1>2, <1>3, <2>3, <2>4, <2>5 DEF LeadsTo
    <2> QED
      BY <2>6 DEF on
  <1> QED
    BY <1>4, <1>5

\* A round goes on to ids of the class, and stands still only where no union leads on.
LEMMA ExploredGoes ==
  ASSUME NEW g \in Graph, Spelled(g), NEW a \in Id, NEW w \in WaysFrom(g, a)
  PROVE  /\ Explored(g, w) \in WaysFrom(g, a)
         /\ DOMAIN w \subseteq DOMAIN Explored(g, w)
         /\ Unbroken(g, DOMAIN w) <=> DOMAIN Explored(g, w) = DOMAIN w
  <1> DEFINE D == DOMAIN w
             hops == {x \in D \X (DOMAIN g.history) :
                        x[1] \in Edge(g, x[2]) /\ Across(g, x[2], x[1]) \notin D}
             next == {Across(g, x[2], x[1]) : x \in hops}
             last(j) == CHOOSE x \in hops : Across(g, x[2], x[1]) = j
             hop(j) == [from |-> last(j)[1], to |-> j, edge |-> last(j)[2]]
             e == Explored(g, w)
  <1>1. /\ w \in [D -> Seq(Hop(g))] /\ D \subseteq Alike(g, a) /\ a \in D
        /\ \A j \in D : LeadsTo(g, w[j], a, j)
    BY WaysParts
  <1>2. D \subseteq Id /\ \A i \in D : Find(g, i) = Find(g, a)
    BY <1>1 DEF Alike
  <1>3. e = [j \in D \cup next |-> IF j \in D THEN w[j] ELSE Append(w[last(j)[1]], hop(j))]
    BY DEF Explored
  <1> HIDE DEF e
  <1>4. ASSUME NEW x \in hops
        PROVE  LET to == Across(g, x[2], x[1]) IN
               /\ x[1] \in D /\ x[2] \in DOMAIN g.history /\ to \notin D
               /\ to \in Alike(g, a) /\ Edge(g, x[2]) = {x[1], to}
    <2> DEFINE to == Across(g, x[2], x[1])
               p == g.history[x[2]].ids[1]
               q == g.history[x[2]].ids[2]
    <2>1. /\ x[1] \in D /\ x[2] \in DOMAIN g.history /\ to \notin D /\ x[1] \in Edge(g, x[2])
      OBVIOUS
    <2>2. /\ p \in Id /\ q \in Id /\ Edge(g, x[2]) = {p, q} /\ to \in {p, q}
          /\ {x[1], to} = {p, q}
      BY <2>1, EdgeEnds
    <2>3. Find(g, p) = Find(g, q)
      BY <2>1 DEF Spelled
    <2> HIDE DEF to, p, q
    <2>4. Find(g, to) = Find(g, x[1]) /\ to \in Id
      BY <2>2, <2>3
    <2> QED
      BY <1>2, <2>1, <2>2, <2>4 DEF Alike, to
  <1>5. ASSUME NEW j \in next
        PROVE  /\ j \in Alike(g, a) /\ j \notin D /\ last(j)[1] \in D
               /\ hop(j) \in Hop(g) /\ hop(j).from = last(j)[1] /\ hop(j).to = j
               /\ Edge(g, hop(j).edge) = {hop(j).from, hop(j).to}
    <2>1. last(j) \in hops /\ Across(g, last(j)[2], last(j)[1]) = j
      <3> HIDE DEF hops
      <3> QED
        BY <1>5
    <2> DEFINE x == last(j)
    <2> HIDE DEF last, hops
    <2>2. /\ x[1] \in D /\ x[2] \in DOMAIN g.history /\ j \notin D
          /\ j \in Alike(g, a) /\ Edge(g, x[2]) = {x[1], j}
      BY <1>4, <2>1
    <2> QED
      BY <1>2, <2>2 DEF Hop, Alike
  <1> HIDE DEF last, hop, next
  <1>6. \A j \in D \cup next : e[j] \in Seq(Hop(g)) /\ LeadsTo(g, e[j], a, j)
    <2> TAKE j \in D \cup next
    <2>1. CASE j \in D
      BY <1>1, <1>3, <2>1
    <2>2. CASE j \notin D
      <3>1. j \in next /\ e[j] = Append(w[last(j)[1]], hop(j))
        BY <1>3, <2>2
      <3>2. LeadsTo(g, w[last(j)[1]], a, last(j)[1])
        BY <1>1, <1>5, <3>1
      <3>3. /\ hop(j) \in Hop(g) /\ hop(j).from = last(j)[1] /\ hop(j).to = j
            /\ Edge(g, hop(j).edge) = {hop(j).from, hop(j).to}
        BY <1>5, <3>1
      <3>4. LeadsTo(g, Append(w[last(j)[1]], hop(j)), a, hop(j).to)
        <4> DEFINE h == hop(j)
                   i == last(j)[1]
                   way == w[i]
        <4>1. LeadsTo(g, way, a, i) /\ h \in Hop(g) /\ h.from = i /\ Edge(g, h.edge) = {h.from, h.to}
          BY <3>2, <3>3
        <4> HIDE DEF h, i, way
        <4>2. LeadsTo(g, Append(way, h), a, h.to)
          BY <4>1, OneHopOn
        <4> QED
          BY <4>2 DEF h, i, way
      <3>5. LeadsTo(g, e[j], a, j)
        BY <3>1, <3>3, <3>4
      <3> QED
        BY <3>5 DEF LeadsTo
    <2> QED
      BY <2>1, <2>2
  <1>7. e \in WaysFrom(g, a) /\ DOMAIN e = D \cup next
    <2>1. DOMAIN e = D \cup next /\ e = [j \in D \cup next |-> e[j]]
      BY <1>3
    <2>2. DOMAIN e \subseteq Alike(g, a)
      BY <1>1, <1>5, <2>1
    <2> QED
      BY <1>1, <1>6, <2>1, <2>2, WaysParts
  <1>8. \A j \in next : j \notin D
    BY <1>5
  <1>9. Unbroken(g, D) <=> next = {}
    <2>1. ASSUME Unbroken(g, D), next # {} PROVE FALSE
      <3>1. PICK x \in hops : TRUE
        BY <2>1 DEF next
      <3> DEFINE to == Across(g, x[2], x[1])
                 p == g.history[x[2]].ids[1]
                 q == g.history[x[2]].ids[2]
      <3>2. x[1] \in D /\ x[2] \in DOMAIN g.history /\ to \notin D /\ x[1] \in Edge(g, x[2])
        OBVIOUS
      <3>3. Edge(g, x[2]) = {p, q} /\ {x[1], to} = {p, q}
        BY <3>2, EdgeEnds
      <3>4. p \in D <=> q \in D
        BY <2>1, <3>2 DEF Unbroken
      <3> HIDE DEF p, q, to
      <3> QED
        BY <3>2, <3>3, <3>4
    <2>2. ASSUME next = {} PROVE Unbroken(g, D)
      <3> SUFFICES ASSUME NEW k \in DOMAIN g.history
                   PROVE  g.history[k].ids[1] \in D <=> g.history[k].ids[2] \in D
        BY DEF Unbroken
      <3> DEFINE p == g.history[k].ids[1]
                 q == g.history[k].ids[2]
      <3>1. /\ Edge(g, k) = {p, q}
            /\ \A i \in {p, q} : Across(g, k, i) \in {p, q} /\ {i, Across(g, k, i)} = {p, q}
        BY EdgeEnds
      <3>2. \A i \in D : i \in Edge(g, k) => Across(g, k, i) \in D
        <4> SUFFICES ASSUME NEW i \in D, i \in Edge(g, k), Across(g, k, i) \notin D PROVE FALSE
          OBVIOUS
        <4>1. <<i, k>> \in hops
          OBVIOUS
        <4> HIDE DEF hops
        <4> QED
          BY <2>2, <4>1 DEF next
      <3> HIDE DEF p, q
      <3>3. (p \in D => q \in D) /\ (q \in D => p \in D)
        BY <3>1, <3>2
      <3> QED
        BY <3>3 DEF p, q
    <2> QED
      BY <2>1, <2>2
  <1> HIDE DEF D
  <1>10. (next = {}) <=> (D \cup next = D)
    BY <1>8
  <1> QED
    BY <1>7, <1>9, <1>10 DEF e, D

\* What Ways counts up to.
WaysBy(f, g, a, n) ==
  /\ f[0] = [i \in {a} |-> <<>>]
  /\ \A k \in 0 .. n : f[k] \in WaysFrom(g, a)
  /\ \A k \in 1 .. n : f[k] = Explored(g, f[k - 1])

LEMMA WaysGo ==
  ASSUME NEW g \in Graph, Spelled(g), NEW a \in Id
  PROVE  LET n == Cardinality(Alike(g, a)) IN
         n \in Nat /\ \E f : WaysBy(f, g, a, n) /\ Ways(g, a) = f[n]
  <1> DEFINE n == Cardinality(Alike(g, a))
             S == WaysFrom(g, a)
             x == [i \in {a} |-> <<>>]
             F == [i \in 1 .. n |-> [d \in S |-> Explored(g, d)]]
             Good(f) == f = [k \in 0 .. n |-> IF k = 0 THEN x ELSE Explored(g, f[k - 1])]
  <1>1. \A d \in S : Explored(g, d) \in S
    BY ExploredGoes
  <1>2. x \in S
    <2>1. a \in Alike(g, a)
      BY DEF Alike
    <2>2. LeadsTo(g, <<>>, a, a)
      BY DEF LeadsTo
    <2>3. DOMAIN x = {a} /\ x[a] = <<>> /\ x \in [{a} -> Seq(Hop(g))]
      OBVIOUS
    <2> HIDE DEF x
    <2> QED
      BY <2>1, <2>2, <2>3, WaysParts
  <1>3. n \in Nat
    <2>1. IsFiniteSet(Id)
      BY MaxIdsIsNat, FS_Interval DEF Id
    <2>2. Alike(g, a) \in SUBSET Id
      BY DEF Alike
    <2> QED
      BY <2>1, <2>2, FS_Subset, FS_CardinalityType
  <1>4. Ways(g, a) = (CHOOSE f : Good(f))[n]
    BY DEF Ways, Alike
  <1> HIDE DEF S, n, x
  <1>5. Steps(F, n, S, x)
    BY <1>1, <1>2, <1>3 DEF Steps
  <1>6. PICK w : Walks(w, F, n, S, x)
    <2> HIDE DEF F
    <2> QED
      BY <1>5, WalkExists
  <1>7. Good(w)
    <2>1. w = [k \in 0 .. n |-> w[k]]
      BY <1>6 DEF Walks
    <2>2. \A k \in 0 .. n : w[k] = IF k = 0 THEN x ELSE Explored(g, w[k - 1])
      <3> TAKE k \in 0 .. n
      <3>1. CASE k = 0
        BY <1>6, <3>1 DEF Walks
      <3>2. CASE k # 0
        <4>1. k \in 1 .. n /\ k - 1 \in 0 .. n
          BY <1>3, <3>2
        <4>2. w[k - 1] \in S /\ w[k] = F[k][w[k - 1]]
          BY <1>6, <4>1 DEF Walks
        <4> QED
          BY <3>2, <4>1, <4>2
      <3> QED
        BY <3>1, <3>2
    <2> QED
      BY <2>1, <2>2
  <1> DEFINE f == CHOOSE q : Good(q)
  <1>8. Good(f)
    <2> HIDE DEF Good
    <2> QED
      BY <1>7
  <1> HIDE DEF f
  <1>9. f[0] = x /\ \A k \in 1 .. n : f[k] = Explored(g, f[k - 1])
    <2>1. \A k \in 0 .. n : f[k] = IF k = 0 THEN x ELSE Explored(g, f[k - 1])
      BY <1>8
    <2>2. 0 \in 0 .. n /\ \A k \in 1 .. n : k \in 0 .. n /\ k # 0
      BY <1>3
    <2> HIDE DEF Good
    <2> QED
      BY <2>1, <2>2
  <1>10. \A k \in 1 .. n : f[k - 1] \in S => f[k] = F[k][f[k - 1]]
    BY <1>9
  <1>11. \A k \in 0 .. n : f[k] \in S
    <2> HIDE DEF F, Good
    <2> QED
      BY <1>5, <1>9, <1>10, WalkStays
  <1>12. WaysBy(f, g, a, n)
    BY <1>9, <1>11 DEF WaysBy, S, x
  <1> HIDE DEF Good, F
  <1> QED
    BY <1>3, <1>4, <1>12 DEF n, f, Good

\* The search reaches the whole class, by ways that lead there.
LEMMA WaysReach ==
  ASSUME NEW g \in Graph, Spelled(g), NEW a \in Id
  PROVE  DOMAIN Ways(g, a) = Alike(g, a) /\ \A j \in Alike(g, a) : LeadsTo(g, Ways(g, a)[j], a, j)
  <1> DEFINE n == Cardinality(Alike(g, a))
  <1>1. n \in Nat
    BY WaysGo
  <1>2. PICK f : WaysBy(f, g, a, n) /\ Ways(g, a) = f[n]
    BY WaysGo
  <1>3. IsFiniteSet(Alike(g, a))
    <2>1. IsFiniteSet(Id)
      BY MaxIdsIsNat, FS_Interval DEF Id
    <2>2. Alike(g, a) \in SUBSET Id
      BY DEF Alike
    <2> QED
      BY <2>1, <2>2, FS_Subset
  <1> HIDE DEF n
  <1>4. \A k \in 0 .. n :
          /\ f[k] \in WaysFrom(g, a) /\ DOMAIN f[k] \in SUBSET Alike(g, a) /\ a \in DOMAIN f[k]
          /\ IsFiniteSet(DOMAIN f[k]) /\ Cardinality(DOMAIN f[k]) \in Nat
          /\ Cardinality(DOMAIN f[k]) <= n
    <2> TAKE k \in 0 .. n
    <2>1. f[k] \in WaysFrom(g, a)
      BY <1>2 DEF WaysBy
    <2>2. DOMAIN f[k] \in SUBSET Alike(g, a) /\ a \in DOMAIN f[k]
      BY <2>1, WaysParts
    <2>3. IsFiniteSet(DOMAIN f[k]) /\ Cardinality(DOMAIN f[k]) <= Cardinality(Alike(g, a))
      BY <1>3, <2>2, FS_Subset
    <2> QED
      BY <2>1, <2>2, <2>3, FS_CardinalityType DEF n
  <1> DEFINE Far(k) == Unbroken(g, DOMAIN f[k]) \/ Cardinality(DOMAIN f[k]) > k
             P == {k \in 0 .. n : Far(k)}
  <1>5. 0 \in P
    <2>1. 0 \in 0 .. n /\ DOMAIN f[0] = {a}
      BY <1>1, <1>2 DEF WaysBy
    <2>2. Cardinality(DOMAIN f[0]) = 1
      BY <2>1, FS_Singleton
    <2> QED
      BY <2>1, <2>2
  <1>6. \A k \in 0 .. n - 1 : k \in P => k + 1 \in P
    <2> SUFFICES ASSUME NEW k \in 0 .. n - 1, Far(k) PROVE k + 1 \in P
      OBVIOUS
    <2>1. k \in 0 .. n /\ k + 1 \in 1 .. n /\ k + 1 \in 0 .. n /\ (k + 1) - 1 = k
      BY <1>1
    <2>2. f[k + 1] = Explored(g, f[k]) /\ f[k] \in WaysFrom(g, a)
      BY <1>2, <2>1 DEF WaysBy
    <2>3. /\ DOMAIN f[k] \subseteq DOMAIN f[k + 1]
          /\ Unbroken(g, DOMAIN f[k]) <=> DOMAIN f[k + 1] = DOMAIN f[k]
      BY <2>2, ExploredGoes
    <2>4. CASE Unbroken(g, DOMAIN f[k])
      BY <2>1, <2>3, <2>4
    <2>5. CASE ~ Unbroken(g, DOMAIN f[k])
      <3>1. Cardinality(DOMAIN f[k]) > k
        BY <2>5
      <3>2. Cardinality(DOMAIN f[k]) < Cardinality(DOMAIN f[k + 1])
        <4>1. DOMAIN f[k] \subseteq DOMAIN f[k + 1] /\ DOMAIN f[k] # DOMAIN f[k + 1]
          BY <2>3, <2>5
        <4>2. IsFiniteSet(DOMAIN f[k + 1])
          BY <1>4, <2>1
        <4> QED
          BY <1>4, <2>1, <4>1, <4>2, FS_Subset
      <3>3. Cardinality(DOMAIN f[k]) \in Nat /\ Cardinality(DOMAIN f[k + 1]) \in Nat
        BY <1>4, <2>1
      <3>4. Cardinality(DOMAIN f[k + 1]) > k + 1
        BY <2>1, <3>1, <3>2, <3>3
      <3> QED
        BY <2>1, <3>4
    <2> QED
      BY <2>4, <2>5
  <1>7. n \in 0 .. n
    BY <1>1
  <1>8. Far(n)
    <2> HIDE DEF Far
    <2>1. \A k \in 0 .. n - 1 : k \in P => k + 1 \in P
      BY <1>6
    <2> HIDE DEF P
    <2>2. \A k \in 0 .. n : k \in P
      BY <1>1, <1>5, <2>1, CountingUp
    <2> QED
      BY <1>7, <2>2 DEF P
  <1>9. Unbroken(g, DOMAIN f[n])
    BY <1>4, <1>7, <1>8
  <1>10. Alike(g, a) \subseteq DOMAIN f[n]
    <2> SUFFICES ASSUME NEW j \in Alike(g, a) PROVE j \in DOMAIN f[n]
      OBVIOUS
    <2>1. DOMAIN f[n] \in SUBSET Id /\ a \in DOMAIN f[n] /\ j \in Id /\ Find(g, a) = Find(g, j)
      BY <1>4, <1>7 DEF Alike
    <2> QED
      BY <1>9, <2>1 DEF Spelled
  <1>11. DOMAIN f[n] = Alike(g, a)
    BY <1>4, <1>7, <1>10
  <1>12. \A j \in DOMAIN f[n] : LeadsTo(g, f[n][j], a, j)
    BY <1>4, <1>7, WaysParts
  <1> QED
    BY <1>2, <1>11, <1>12

\* What is derived leads from the one to the other.
LEMMA ExplainLeads ==
  ASSUME NEW g \in Graph, Spelled(g), NEW a \in Id, NEW b \in Id
  PROVE  /\ Connected(g, a, b) <=> Find(g, a) = Find(g, b)
         /\ Connected(g, a, b) => Leads(g, Explain(g, a, b), a, b)
  <1>1. Connected(g, a, b) <=> Find(g, a) = Find(g, b)
    BY WaysReach DEF Connected, Alike
  <1>2. \E within : Explain(g, a, b) = Derivation(g, within, a, b, MaxDepth, {})
    <2> HIDE DEF Derivation
    <2> QED
      BY DEF Explain
  <1>3. PICK within : Explain(g, a, b) = Derivation(g, within, a, b, MaxDepth, {})
    BY <1>2
  <1>4. CASE a = b
    BY <1>1, <1>3, <1>4 DEF Derivation, Leads
  <1>5. CASE a # b /\ Connected(g, a, b)
    <2> DEFINE path == Path(g, a, b)
               n == Len(path)
               why(k) == g.history[path[k].edge].why
               s == Explain(g, a, b)
    <2>1. LeadsTo(g, path, a, b)
      BY <1>1, <1>5, WaysReach DEF Path, Alike
    <2>2. MaxDepth # 0 /\ {a, b} \notin {}
      BY DepthIsPositive
    <2>3. s = [k \in DOMAIN path |->
                [from |-> path[k].from, to |-> path[k].to, why |-> why(k),
                 because |-> Because(g, why(k), within, MaxDepth, {} \cup {{a, b}})]]
      BY <1>3, <1>5, <2>2 DEF Derivation
    <2> HIDE DEF s, path
    <2>4. path \in Seq(Hop(g)) /\ DOMAIN path = 1 .. n /\ n \in Nat /\ path # <<>>
      BY <1>5, <2>1 DEF LeadsTo
    <2>5. 1 \in 1 .. n /\ n \in 1 .. n
      BY <2>4
    <2>6. DOMAIN s = 1 .. n /\ Len(s) = n /\ s # <<>>
      BY <2>3, <2>4, <2>5
    <2>7. \A k \in 1 .. n : s[k].from = path[k].from /\ s[k].to = path[k].to /\ s[k].why = why(k)
      BY <2>3, <2>4
    <2>8. \A k \in 1 .. n : path[k].edge \in DOMAIN g.history
      <3>1. \A h \in Hop(g) : h.edge \in DOMAIN g.history
        BY DEF Hop
      <3>2. \A k \in 1 .. n : path[k] \in Hop(g)
        BY <2>4
      <3> QED
        BY <3>1, <3>2
    <2>9. s[1].from = a /\ s[n].to = b
      BY <2>1, <2>4, <2>5, <2>7 DEF LeadsTo
    <2>10. \A k \in 2 .. n : s[k].from = s[k - 1].to
      <3> TAKE k \in 2 .. n
      <3>1. k \in 1 .. n /\ k - 1 \in 1 .. n
        BY <2>4
      <3> QED
        BY <2>1, <2>7, <3>1 DEF LeadsTo
    <2>11. \A k \in 1 .. n : Edge(g, path[k].edge) = {s[k].from, s[k].to}
      BY <2>1, <2>7 DEF LeadsTo
    <2> HIDE DEF n
    <2>12. Leads(g, s, a, b)
      BY <2>6, <2>7, <2>8, <2>9, <2>10, <2>11 DEF Leads
    <2> QED
      BY <1>1, <2>12 DEF s
  <1> QED
    BY <1>1, <1>4, <1>5

----------------------------------------------------------------------------
(* What a run records.                                                      *)

\* The record of the run accounts for its classes.
RecordSpells == Spelled(graph)

LEMMA SpelledStarts == RInit => RecordSpells
  <1> SUFFICES ASSUME RInit PROVE Spelled(graph)
    BY DEF RecordSpells
  <1> DEFINE p == problem.start
             x == Instantiated(Ground, p, <<>>)
  <1>1. /\ problem \in Problems /\ IsPattern(p) /\ HolesOf(p) = {} /\ SizeOf(p) <= CallerIds
        /\ Len(p) \in 1 .. Len(p)
    <2>1. /\ problem \in Problems /\ IsPattern(p) /\ HolesOf(p) = {} /\ SizeOf(p) <= CallerIds
      BY ProblemsAreRules DEF RInit
    <2> QED
      BY <2>1 DEF IsPattern
  <1>2. graph = x.graph
    BY DEF RInit, StartingFrom, Ground
  <1>3. MayBuild(Ground, p, <<>>, <<>>, Values, 0)
    <2>1. Ground.graph.made = 0 /\ Ground.ids = <<>>
      BY DEF Ground, EmptyGraph
    <2>2. SizeOf(p) \in Nat
      BY <1>1, OperatorsCount
    <2>3. Ground.graph.made + SizeOf(p) <= CallerIds
      BY <1>1, <2>1, <2>2
    <2> QED
      BY <1>1, <2>1, <2>3, GroundStands, ValuesAreWorthy DEF MayBuild
  <1>4. GoesOn(x, Ground)
    BY <1>3, InstantiatedStands DEF HasBuilt
  <1>5. /\ x.graph.leader = [i \in Id |-> i] /\ x.graph.history = <<>>
    BY <1>4 DEF GoesOn, Ground, EmptyGraph
  <1> HIDE DEF x
  <1>6. \A i \in Id : Find(x.graph, i) = i
    BY <1>5 DEF Find
  <1> QED
    BY <1>2, <1>5, <1>6 DEF Spelled

LEMMA RepairParentSpells ==
  ASSUME IInv, Forest(graph), Spelled(graph), NEW p \in left, RepairParent(p)
  PROVE  Spelled(graph')
  <1> DEFINE node == Canonical(graph, p[1])
             owner == Find(graph, p[2])
  <1>1. /\ graph \in Graph /\ left \subseteq Node \X Id
        /\ seen \subseteq [node : Node, owner : Id, stored : Node]
        /\ NewParent(node, owner, p[1]) \/ CongruentParent(node, owner, p[1])
    BY DEF RepairParent, IInv, TypeOK
  <1>2. owner \in Id
    BY <1>1 DEF Find, Graph
  <1> HIDE DEF node, owner
  <1>3. CASE NewParent(node, owner, p[1])
    <2>1. graph'.leader = graph.leader /\ graph'.history = graph.history
      BY <1>1, <1>3 DEF NewParent, Keyed, Graph
    <2> QED
      BY <2>1, SameSpells
  <1>4. CASE CongruentParent(node, owner, p[1])
    <2>1. PICK s \in seen :
            graph' = Keyed(United(graph, s.owner, owner, Congruence(s.stored, p[1])), node,
                       Find(United(graph, s.owner, owner, Congruence(s.stored, p[1])), owner))
      BY <1>4 DEF CongruentParent
    <2> DEFINE g == United(graph, s.owner, owner, Congruence(s.stored, p[1]))
    <2>2. s.owner \in Id
      BY <1>1
    <2>3. Spelled(g)
      BY <1>1, <1>2, <2>2, UnitedSpells
    <2>4. g = [made |-> g.made, leader |-> g.leader, nodes |-> g.nodes, uses |-> g.uses,
               fact |-> g.fact, memo |-> g.memo, pending |-> g.pending,
               learned |-> g.learned, history |-> g.history]
      BY <1>1 DEF United, Graph
    <2> HIDE DEF g
    <2>5. graph'.leader = g.leader /\ graph'.history = g.history
      BY <2>1, <2>4 DEF Keyed, g
    <2> QED
      BY <2>3, <2>5, SameSpells
  <1> QED
    BY <1>1, <1>3, <1>4

LEMMA ModifySpells ==
  ASSUME IInv, Forest(graph), Spelled(graph), NEW id \in changed, Modify(id)
  PROVE  Spelled(graph')
  <1> DEFINE c == graph.fact[Find(graph, id)]
             lit == LiteralNode(c)
             folds == c # None /\ lit \notin graph.nodes[Find(graph, id)]
             g == Added(graph, lit)
             lands == LandsIn(graph, lit)
  <1>1. /\ graph \in Graph /\ id \in Id /\ Sound(graph, value) /\ value \in [Id -> Known]
        /\ graph' = IF folds THEN United(g, id, lands, Folded) ELSE graph
        /\ folds => HasRoom(graph, lit)
    BY DEF Modify, IInv, TypeOK
  <1>2. CASE ~ folds
    BY <1>1, <1>2
  <1>3. CASE folds
    <2>1. c \in Number
      BY <1>1, <1>3 DEF Graph, Known, Find
    <2>2. /\ lit \in Node /\ Worth(value, lit) = c
          /\ \A k \in DOMAIN lit.kids : lit.kids[k] \in Made(graph)
      BY <2>1 DEF LiteralNode, Node, Worth
    <2>3. graph' = United(g, id, lands, Folded) /\ HasRoom(graph, lit)
      BY <1>1, <1>3
    <2> HIDE DEF c, lit, folds
    <2>4. Sound(g, Grown(graph, value, lit)) /\ lands \in Made(g)
      BY <1>1, <2>2, <2>3, AddedIsSound
    <2>5. g \in Graph /\ lands \in Id
      BY <2>4, MadeIds DEF Sound
    <2>6. g.leader = graph.leader /\ g.history = graph.history
      BY <1>1 DEF Added, Graph
    <2> HIDE DEF g, lands
    <2>7. Forest(g) /\ Spelled(g)
      BY <2>6, SameSpells DEF Forest
    <2> QED
      BY <1>1, <2>3, <2>5, <2>7, UnitedSpells
  <1> QED
    BY <1>2, <1>3

LEMMA RebuildSpells ==
  ASSUME IInv, Forest(graph), Spelled(graph), RebuildStep
  PROVE  Spelled(graph')
  <1>0. graph \in Graph
    BY DEF IInv, TypeOK
  <1>1. CASE graph'.leader = graph.leader /\ graph'.history = graph.history
    BY <1>1, SameSpells
  <1>2. CASE TakePending
    BY <1>0, <1>1, <1>2 DEF TakePending, Graph
  <1>3. ASSUME NEW i \in todo, BeginRepair(i) PROVE Spelled(graph')
    BY <1>0, <1>1, <1>3 DEF BeginRepair, Graph
  <1>4. ASSUME NEW p \in left, RepairParent(p) PROVE Spelled(graph')
    BY <1>4, RepairParentSpells
  <1>5. CASE EndRepair
    BY <1>0, <1>1, <1>5 DEF EndRepair, Graph
  <1>6. CASE BeginFacts
    BY <1>0, <1>1, <1>6 DEF BeginFacts, Graph
  <1>7. ASSUME NEW order, PopClass(order) PROVE Spelled(graph')
    BY <1>0, <1>1, <1>7 DEF PopClass, Graph
  <1>8. CASE EndFacts
    BY <1>1, <1>8 DEF EndFacts
  <1>9. ASSUME NEW i \in changed, Modify(i) PROVE Spelled(graph')
    BY <1>9, ModifySpells
  <1>10. CASE NextRound
    BY <1>0, <1>1, <1>10 DEF NextRound, Graph
  <1>11. CASE Finish
    BY <1>0, <1>1, <1>11 DEF Finish, Reindexed, Graph
  <1> QED
    BY <1>2, <1>3, <1>4, <1>5, <1>6, <1>7, <1>8, <1>9, <1>10, <1>11 DEF RebuildStep

LEMMA SpelledStays == SInv /\ RecordSpells /\ [RNext]_allVars => RecordSpells'
  <1> SUFFICES ASSUME SInv, Spelled(graph), [RNext]_allVars PROVE Spelled(graph')
    BY DEF RecordSpells, Spelled, Unbroken, Find
  <1>1. CASE graph' = graph
    BY <1>1
  <1>2. CASE ApplyMatch
    <2> DEFINE k == found[1].rule
               m == found[1].matches[1]
               r == Rules[k]
    <2>1. /\ Stands(Begun, Values, repairing)
          /\ graph' = graph \/ \E x : Joins(x, r, k, m)
      BY <1>2, ApplyMatchJoins
    <2> HIDE DEF k, m, r
    <2>2. ASSUME NEW x, Joins(x, r, k, m) PROVE Spelled(graph')
      <3> DEFINE a == m.class
                 b == Last(x.ids)
                 g == x.graph
      <3>1. /\ Stands(x, Values, repairing) /\ GoesOn(x, Begun)
            /\ a \in Made(g) /\ b \in Made(g)
            /\ graph' = United(g, a, b, RuleOf(k))
        BY <2>2 DEF Joins, Applies
      <3>2. /\ g \in Graph /\ Forest(g)
            /\ g.leader = graph.leader /\ g.history = graph.history
        BY <3>1 DEF Stands, Build, Closed, GoesOn, Begun
      <3> HIDE DEF a, b, g
      <3>3. Spelled(g)
        BY <3>2, SameSpells
      <3>4. a \in Id /\ b \in Id
        BY <3>1, <3>2, MadeIds
      <3> QED
        BY <3>1, <3>2, <3>3, <3>4, UnitedSpells
    <2> QED
      BY <1>1, <2>1, <2>2
  <1>3. CASE RebuildOn
    <2>1. RebuildStep
      BY <1>3, RebuildOnIsStep
    <2>2. IInv /\ Forest(graph)
      BY DEF SInv, CInv, Closed
    <2> QED
      BY <2>1, <2>2, RebuildSpells
  <1>4. CASE ~ ApplyMatch /\ ~ RebuildOn
    <2>1. graph' = graph
      BY <1>4 DEF RNext, Loop, Begin, BeginPass, Stop, Rebuild, SearchRule, SkipBanned, EndSearch,
             EndRule, EndApply, EndPass, NextPass, Done, TimePasses, Ended, allVars, vars
    <2> QED
      BY <1>1, <2>1
  <1> QED
    BY <1>2, <1>3, <1>4

\* Any two terms of one class have an explanation, a chain of recorded unions from
\* the one to the other, and no others have one: what a rebuild or a rule joins is
\* always recorded, with the classes it joined (union, explain; egraph.rs:362-411).
THEOREM EqualsAreExplained == RSpec => []EqualIsExplained
  <1>1. SInv /\ RecordSpells => EqualIsExplained
    <2> SUFFICES ASSUME SInv, Spelled(graph), NEW i \in Made(graph), NEW j \in Made(graph)
                 PROVE  /\ Find(graph, i) = Find(graph, j) <=> Connected(graph, i, j)
                        /\ Connected(graph, i, j) => Leads(graph, Explain(graph, i, j), i, j)
      BY DEF EqualIsExplained, RecordSpells
    <2>1. graph \in Graph
      BY DEF SInv, IInv, TypeOK
    <2>2. i \in Id /\ j \in Id
      BY <2>1, MadeIds
    <2> QED
      BY <2>1, <2>2, ExplainLeads
  <1> QED
    BY StartHolds, StepKeepsS, SpelledStarts, SpelledStays, <1>1, PTL DEF RSpec

----------------------------------------------------------------------------
(* What a rebuild leaves: canonical nodes, each known to the hashcons by its  *)
(* class, and literals whose value the graph knows.                          *)

\* Classes hold their nodes in canonical form.
NodesAreForms(g) == \A c \in Classes(g) : \A n \in g.nodes[c] : Canonical(g, n) = n

\* Nothing is pending, and the hashcons leads each node to a class that holds it.
Tidy(g) ==
  /\ g.pending = {} /\ NodesAreForms(g)
  /\ \A e \in g.memo : e[2] \in Classes(g) /\ e[1] \in g.nodes[e[2]]

\* A class with a literal has a fact, and a literal in the hashcons is in its class.
LiteralsStand(g) ==
  /\ \A c \in Id : \A n \in g.nodes[c] : n.op \in Number => g.fact[c] # None
  /\ \A e \in g.memo : e[1].op \in Number => e[1] \in g.nodes[g.leader[e[2]]]

\* A number is the operator of its literal only, which has no arguments.
LEMMA NumberNode ==
  /\ \A c \in Number : LiteralNode(c) \in Node /\ LiteralNode(c).op = c /\ Kids(LiteralNode(c)) = {}
  /\ \A n \in Node : n.op \in Number => n = LiteralNode(n.op)
  /\ \A n \in Node : Kids(n) # {} => n.op \notin Number
  /\ \A g : \A c \in Number : Canonical(g, LiteralNode(c)) = LiteralNode(c)
  <1>1. \A c \in Number : /\ LiteralNode(c) \in Node /\ LiteralNode(c).op = c
                          /\ Kids(LiteralNode(c)) = {} /\ c \notin Commutative
    BY OperatorsDiffer DEF LiteralNode, Node, Kids
  <1>2. \A n \in Node : n.op \in Number => n = LiteralNode(n.op)
    BY NodeShape, OperatorsDiffer, HolesAreNoOperators DEF LiteralNode
  <1>3. \A n \in Node : Kids(n) # {} => n.op \notin Number
    BY <1>1, <1>2
  <1>4. ASSUME NEW g, NEW c \in Number PROVE Canonical(g, LiteralNode(c)) = LiteralNode(c)
    BY <1>1, FormOfLeaf DEF LiteralNode
  <1> QED
    BY <1>1, <1>2, <1>3, <1>4

\* What reindex changes.
LEMMA ReindexedParts ==
  ASSUME NEW g \in Graph, NEW h, h = Reindexed(g)
  PROVE  /\ h.made = g.made /\ h.leader = g.leader /\ h.fact = g.fact
         /\ h.pending = g.pending /\ h.learned = g.learned
         /\ Classes(h) = Classes(g)
         /\ \A c \in Id : h.nodes[c] = {Canonical(g, n) : n \in g.nodes[c]}
         /\ \A e \in h.memo : e[2] \in Classes(g) /\ e[1] \in h.nodes[e[2]]
  <1>1. /\ h.made = g.made /\ h.leader = g.leader /\ h.fact = g.fact
        /\ h.pending = g.pending /\ h.learned = g.learned
        /\ h.nodes = [c \in Id |-> {Canonical(g, n) : n \in g.nodes[c]}]
    BY DEF Reindexed, Graph
  <1> DEFINE nodes == [c \in Id |-> {Canonical(g, n) : n \in g.nodes[c]}]
             held == UNION {{<<n, c>> : n \in nodes[c]} : c \in Classes(g)}
  <1>2. h.memo = {e \in held : \A f \in held : f[1] = e[1] => f[2] <= e[2]}
    BY DEF Reindexed, Graph
  <1>3. Classes(h) = Classes(g)
    BY <1>1 DEF Classes, Made
  <1>4. ASSUME NEW e \in h.memo PROVE e[2] \in Classes(g) /\ e[1] \in h.nodes[e[2]]
    <2>1. e \in held
      <3> HIDE DEF held
      <3> QED
        BY <1>2
    <2>2. PICK c \in Classes(g) : e \in {<<n, c>> : n \in nodes[c]}
      BY <2>1
    <2>3. PICK n \in nodes[c] : e = <<n, c>>
      BY <2>2
    <2> QED
      BY <1>1, <2>3
  <1> QED
    BY <1>1, <1>3, <1>4

\* What reindex leaves, of a graph in which nothing is pending (EGraph::reindex).
LEMMA ReindexedIsTidy ==
  ASSUME NEW g, NEW v, Sound(g, v), Forest(g), g.pending = {}, NEW h, h = Reindexed(g)
  PROVE  Tidy(h)
  <1>1. g \in Graph /\ h \in Graph
    BY ReindexedIsSound DEF Sound
  <1>2. Classes(g) \subseteq Id
    BY <1>1, MadeIds DEF Classes
  <1>3. ASSUME NEW c \in Classes(h), NEW n \in h.nodes[c] PROVE Canonical(h, n) = n
    <2>1. PICK m \in g.nodes[c] : n = Canonical(g, m)
      BY <1>1, <1>2, <1>3, ReindexedParts
    <2>2. m \in Node /\ Kids(m) \subseteq Id
      <3>1. c \in Id /\ g.nodes \in [Id -> SUBSET Node]
        BY <1>1, <1>2, <1>3, ReindexedParts DEF Graph
      <3>2. m \in Node
        BY <3>1
      <3> QED
        BY <1>1, <3>2, FormIsNode
    <2>3. h.leader = g.leader /\ \A i \in Id : h.leader[g.leader[i]] = h.leader[i]
      BY <1>1, ReindexedParts DEF Forest
    <2>4. Canonical(h, Canonical(g, m)) = Canonical(h, m)
      BY <1>1, <2>2, <2>3, FormOfForm
    <2>5. Canonical(h, m) = Canonical(g, m)
      BY <1>1, <2>2, <2>3, FormByKids
    <2> QED
      BY <2>1, <2>4, <2>5
  <1> QED
    BY <1>1, <1>3, ReindexedParts DEF Tidy, NodesAreForms

\* Literals stand through reindex,
LEMMA ReindexedLiterals ==
  ASSUME NEW g, NEW v, Sound(g, v), LiteralsStand(g), NEW h, h = Reindexed(g)
  PROVE  LiteralsStand(h)
  <1>1. g \in Graph /\ h \in Graph
    BY ReindexedIsSound DEF Sound
  <1>2. ASSUME NEW c \in Id, NEW n \in h.nodes[c], n.op \in Number PROVE h.fact[c] # None
    <2>1. PICK m \in g.nodes[c] : n = Canonical(g, m)
      BY <1>1, <1>2, ReindexedParts
    <2>2. m.op = n.op
      BY <2>1 DEF Canonical, Normalized
    <2> QED
      BY <1>1, <1>2, <2>2, ReindexedParts DEF LiteralsStand
  <1>3. ASSUME NEW e \in h.memo PROVE e[1] \in h.nodes[h.leader[e[2]]]
    BY <1>1, ReindexedParts DEF Classes
  <1> QED
    BY <1>2, <1>3 DEF LiteralsStand

\* through a union,
LEMMA UnitedLiterals ==
  ASSUME NEW g, NEW v, Sound(g, v), LiteralsStand(g), NEW a \in Made(g), NEW b \in Made(g),
         NEW why, NEW h, h = United(g, a, b, why)
  PROVE  LiteralsStand(h)
  <1> DEFINE kept == Survivor(g, a, b)
             gone == Absorbed(g, a, b)
  <1>1. CASE kept = gone
    BY <1>1 DEF United
  <1>2. CASE kept # gone
    <2>1. /\ h.made = g.made /\ h.memo = g.memo /\ h.pending = g.pending \cup {kept}
          /\ h.leader = [i \in Id |-> IF g.leader[i] = gone THEN kept ELSE g.leader[i]]
          /\ h.nodes = [g.nodes EXCEPT ![kept] = @ \cup g.nodes[gone], ![gone] = {}]
          /\ h.uses = [g.uses EXCEPT ![kept] = @ \cup g.uses[gone], ![gone] = {}]
          /\ kept \in {g.leader[a], g.leader[b]} /\ gone \in {g.leader[a], g.leader[b]}
          /\ kept \in Made(g) /\ gone \in Made(g) /\ kept \in Id /\ gone \in Id
      BY <1>2, UnitedParts
    <2>2. g \in Graph
      BY DEF Sound
    <2>3. h.fact = [g.fact EXCEPT ![kept] = Meet(g.fact[kept], g.fact[gone]), ![gone] = None]
      BY <1>2, <2>2 DEF United, Graph
    <2>4. /\ g.nodes \in [Id -> SUBSET Node] /\ g.fact \in [Id -> Known]
          /\ g.leader \in [Id -> Id] /\ g.memo \in SUBSET (Node \X Id)
      BY <2>2 DEF Graph
    <2> HIDE DEF kept, gone
    <2>5. ASSUME NEW c \in Id, NEW n \in h.nodes[c], n.op \in Number PROVE h.fact[c] # None
      BY <1>2, <2>1, <2>3, <2>4, <2>5 DEF LiteralsStand, Meet
    <2>6. ASSUME NEW e \in h.memo, e[1].op \in Number PROVE e[1] \in h.nodes[h.leader[e[2]]]
      <3>1. e[2] \in Id /\ e[1] \in g.nodes[g.leader[e[2]]] /\ g.leader[e[2]] \in Id
        BY <2>1, <2>4, <2>6 DEF LiteralsStand
      <3> QED
        BY <1>2, <2>1, <2>4, <3>1
    <2> QED
      BY <2>5, <2>6 DEF LiteralsStand
  <1> QED
    BY <1>1, <1>2

\* through an add,
LEMMA AddedLiterals ==
  ASSUME NEW g, NEW v, Sound(g, v), LiteralsStand(g), NEW n \in Node, HasRoom(g, n),
         NEW h, h = Added(g, n)
  PROVE  LiteralsStand(h)
  <1>1. CASE Owners(g, n) # {}
    BY <1>1 DEF Added
  <1>2. CASE Owners(g, n) = {}
    <2>1. g \in Graph
      BY DEF Sound
    <2>2. /\ h.memo = g.memo \cup {<<n, g.made>>} /\ h.leader = g.leader
          /\ h.nodes = [g.nodes EXCEPT ![g.made] = {n}]
          /\ h.fact = [g.fact EXCEPT ![g.made] = Fact(g, n)]
      BY <1>2, <2>1 DEF Added, Graph
    <2>3. g.made \in Id /\ g.made \notin Made(g)
      BY <1>2, <2>1, MaxIdsIsNat DEF HasRoom, Graph, Id, Made
    <2>4. g.leader[g.made] = g.made
      BY <2>3 DEF Sound, LeadersAgree
    <2>5. n.op \in Number => Fact(g, n) # None
      BY OperatorsDiffer DEF Fact
    <2>6. /\ g.nodes \in [Id -> SUBSET Node] /\ g.fact \in [Id -> Known]
          /\ g.leader \in [Id -> Id] /\ g.memo \in SUBSET (Node \X Id)
      BY <2>1 DEF Graph
    <2>7. ASSUME NEW c \in Id, NEW m \in h.nodes[c], m.op \in Number PROVE h.fact[c] # None
      BY <2>2, <2>3, <2>5, <2>6, <2>7 DEF LiteralsStand
    <2>8. ASSUME NEW e \in h.memo, e[1].op \in Number PROVE e[1] \in h.nodes[h.leader[e[2]]]
      <3>1. CASE e = <<n, g.made>>
        BY <2>2, <2>3, <2>4, <2>6, <3>1
      <3>2. CASE e \in g.memo
        <4>1. e[2] \in Made(g) /\ g.leader[e[2]] \in Made(g) /\ g.leader[e[2]] \in Id
          BY <3>2, <2>1, MadeIds DEF Sound, MemoAgrees, States, LeadersAgree
        <4> QED
          BY <2>2, <2>3, <2>6, <2>8, <3>2, <4>1 DEF LiteralsStand
      <3> QED
        BY <2>2, <2>8, <3>1, <3>2
    <2> QED
      BY <2>7, <2>8 DEF LiteralsStand
  <1> QED
    BY <1>1, <1>2

\* A step that changes neither terms nor facts, and forgets keys or adds those of
\* nodes that are no literals.
LEMMA SameLiterals ==
  ASSUME NEW g, LiteralsStand(g), NEW h, h.nodes = g.nodes, h.leader = g.leader,
         \A c \in Id : g.fact[c] # None => h.fact[c] # None,
         \A e \in h.memo : e \in g.memo \/ e[1].op \notin Number
  PROVE  LiteralsStand(h)
  BY DEF LiteralsStand

----------------------------------------------------------------------------
(* What the steps of a rebuild do to the number of classes and of nodes.      *)

\* How many classes there are; a union makes them fewer.
Spread(g) == Cardinality(Classes(g))

Shrinks(g, h) == Spread(h) < Spread(g)

SameTerms(g, h) == h.made = g.made /\ h.leader = g.leader /\ h.nodes = g.nodes

\* One node more, in one of the classes there were.
Grows(g, h) ==
  /\ Spread(h) = Spread(g) /\ Nodes(h) = Nodes(g) + 1
  /\ NodesAreForms(g) => NodesAreForms(h)

\* A union that joins two classes leaves one of them.
LEMMA UnitedShrinks ==
  ASSUME NEW g, NEW v, Sound(g, v), Forest(g), NEW a \in Made(g), NEW b \in Made(g),
         NEW why, NEW h, h = United(g, a, b, why)
  PROVE  IF g.leader[a] = g.leader[b] THEN h = g ELSE Shrinks(g, h)
  <1> DEFINE kept == Survivor(g, a, b)
             gone == Absorbed(g, a, b)
  <1>1. CASE g.leader[a] = g.leader[b]
    BY <1>1 DEF United, Survivor, Absorbed, Find
  <1>2. CASE g.leader[a] # g.leader[b]
    <2>1. kept # gone
      BY <1>2 DEF Survivor, Absorbed, Find
    <2>2. /\ h.made = g.made /\ h.memo = g.memo /\ h.pending = g.pending \cup {kept}
          /\ h.leader = [i \in Id |-> IF g.leader[i] = gone THEN kept ELSE g.leader[i]]
          /\ h.nodes = [g.nodes EXCEPT ![kept] = @ \cup g.nodes[gone], ![gone] = {}]
          /\ h.uses = [g.uses EXCEPT ![kept] = @ \cup g.uses[gone], ![gone] = {}]
          /\ kept \in {g.leader[a], g.leader[b]} /\ gone \in {g.leader[a], g.leader[b]}
          /\ kept \in Made(g) /\ gone \in Made(g) /\ kept \in Id /\ gone \in Id
      BY <2>1, UnitedParts
    <2>3. g \in Graph /\ Made(h) = Made(g) /\ Made(g) \subseteq Id
      BY <2>2, MadeIds DEF Sound, Made
    <2>4. g.leader[kept] = kept /\ g.leader[gone] = gone
      BY <2>2, <2>3 DEF Forest
    <2> HIDE DEF kept, gone
    <2>5. \A i \in Made(g) : h.leader[i] = i <=> g.leader[i] = i /\ i # gone
      BY <2>1, <2>2, <2>3, <2>4
    <2>6. Classes(h) = Classes(g) \ {gone} /\ gone \in Classes(g)
      BY <2>2, <2>3, <2>4, <2>5 DEF Classes
    <2>7. IsFiniteSet(Classes(g)) /\ Cardinality(Classes(g)) \in Nat
      BY <2>3, ClassesAreFew
    <2>8. Cardinality(Classes(h)) = Cardinality(Classes(g)) - 1
      BY <2>6, <2>7, FS_RemoveElement
    <2> QED
      BY <1>2, <2>7, <2>8 DEF Shrinks, Spread
  <1> QED
    BY <1>1, <1>2

\* A literal that is new is added to its class, and no id changes its leader.
LEMMA FoldIsNew ==
  ASSUME NEW g, NEW v, Sound(g, v), Forest(g), NEW c \in Number, NEW id \in Made(g),
         HasRoom(g, LiteralNode(c)), Owners(g, LiteralNode(c)) = {},
         NEW h, h = United(Added(g, LiteralNode(c)), id, LandsIn(g, LiteralNode(c)), Folded)
  PROVE  LET new == g.made
             at == g.leader[id]
         IN  /\ new \in Id /\ at \in Made(g) /\ at \in Id /\ h.made = new + 1
             /\ h.leader = [i \in Id |-> IF i = new THEN at ELSE g.leader[i]]
             /\ h.nodes = [g.nodes EXCEPT ![at] = @ \cup {LiteralNode(c)}, ![new] = {}]
  <1> DEFINE lit == LiteralNode(c)
             new == g.made
             at == g.leader[id]
             a == Added(g, lit)
             w == Grown(g, v, lit)
  <1>1. g \in Graph /\ lit \in Node /\ Kids(lit) = {} /\ lit.kids = <<>>
    BY NumberNode DEF Sound, LiteralNode
  <1>2. \A k \in DOMAIN lit.kids : lit.kids[k] \in Made(g)
    BY <1>1
  <1>3. /\ new \in Id /\ new \notin Made(g) /\ new \in Nat /\ Made(g) \subseteq Id /\ id \in Id
        /\ g.leader \in [Id -> Id] /\ g.nodes \in [Id -> SUBSET Node]
    BY <1>1, MadeIds, MaxIdsIsNat DEF HasRoom, Graph, Id, Made
  <1>4. /\ g.leader[new] = new /\ at \in Made(g) /\ at \in Id /\ at # new
        /\ \A i \in Made(g) : g.leader[i] \in Made(g) /\ g.leader[i] # new
        /\ \A i \in Id : g.leader[i] = new => i = new
    BY <1>3 DEF Sound, LeadersAgree
  <1>5. LandsIn(g, lit) = new
    BY DEF LandsIn
  <1> HIDE DEF lit
  <1>6. /\ a.made = new + 1 /\ a.leader = g.leader /\ a.nodes = [g.nodes EXCEPT ![new] = {lit}]
    BY <1>1 DEF Added, Graph, lit
  <1>7. Sound(a, w)
    BY <1>1, <1>2, AddedIsSound DEF lit
  <1>8. Made(a) = Made(g) \cup {new} /\ id \in Made(a) /\ new \in Made(a) /\ at \in Made(a)
    BY <1>1, <1>3, <1>4, <1>6, MadeIds DEF Made
  <1> HIDE DEF a, w
  <1>9. Find(a, id) = at /\ Find(a, new) = new
    BY <1>4, <1>6 DEF Find
  <1>10. Members(a, new) = {new} /\ at \in Members(a, at)
    <2>1. g.leader[at] = at
      BY <1>3 DEF Forest
    <2> QED
      BY <1>4, <1>6, <1>8, <2>1 DEF Members
  <1>11. Cardinality(Members(a, at)) \in Nat \ {0} /\ Cardinality(Members(a, new)) = 1
    <2>1. a.made - 1 \in Int /\ 0 \in Int
      BY <1>3, <1>6
    <2>2. IsFiniteSet(Made(a))
      BY <2>1, FS_Interval DEF Made
    <2>3. IsFiniteSet(Members(a, at))
      BY <2>2, FS_Subset DEF Members
    <2> QED
      BY <1>10, <2>3, FS_CardinalityType, FS_EmptySet, FS_Singleton
  <1>12. Survivor(a, id, new) = at /\ Absorbed(a, id, new) = new
    <2>1. ~ (Cardinality(Members(a, at)) < Cardinality(Members(a, new)))
      BY <1>11
    <2> QED
      BY <1>4, <1>9, <2>1 DEF Survivor, Absorbed
  <1>13. h = United(a, id, new, Folded)
    BY <1>5 DEF a, lit
  <1>14. Survivor(a, id, new) # Absorbed(a, id, new)
    BY <1>4, <1>12
  <1> DEFINE kept == Survivor(a, id, new)
             gone == Absorbed(a, id, new)
  <1>15. /\ h.made = a.made /\ h.memo = a.memo /\ h.pending = a.pending \cup {kept}
         /\ h.leader = [i \in Id |-> IF a.leader[i] = gone THEN kept ELSE a.leader[i]]
         /\ h.nodes = [a.nodes EXCEPT ![kept] = @ \cup a.nodes[gone], ![gone] = {}]
         /\ h.uses = [a.uses EXCEPT ![kept] = @ \cup a.uses[gone], ![gone] = {}]
         /\ kept \in {a.leader[id], a.leader[new]} /\ gone \in {a.leader[id], a.leader[new]}
         /\ kept \in Made(a) /\ gone \in Made(a) /\ kept \in Id /\ gone \in Id
    BY <1>7, <1>8, <1>13, <1>14, UnitedParts
  <1> HIDE DEF kept, gone
  <1>20. kept = at /\ gone = new
    BY <1>12 DEF kept, gone
  <1>16. h.leader = [i \in Id |-> IF i = new THEN at ELSE g.leader[i]]
    BY <1>3, <1>4, <1>6, <1>15, <1>20
  <1>17. h.nodes = [g.nodes EXCEPT ![at] = @ \cup {lit}, ![new] = {}]
    <2>1. h.nodes = [a.nodes EXCEPT ![at] = @ \cup a.nodes[new], ![new] = {}]
      BY <1>15, <1>20
    <2>2. a.nodes[new] = {lit} /\ a.nodes[at] = g.nodes[at]
      BY <1>3, <1>4, <1>6
    <2>3. \A i \in Id : i # new => a.nodes[i] = g.nodes[i]
      BY <1>3, <1>6
    <2>4. DOMAIN a.nodes = Id /\ DOMAIN g.nodes = Id /\ new \in Id /\ at \in Id /\ at # new
      BY <1>3, <1>4, <1>6
    <2> HIDE DEF new, at
    <2> QED
      BY <2>1, <2>2, <2>3, <2>4
  <1> QED
    BY <1>3, <1>4, <1>6, <1>15, <1>16, <1>17 DEF lit

\* A literal that a class has not is a node more.
LEMMA FoldGrows ==
  ASSUME NEW g, NEW v, Sound(g, v), Forest(g), FiniteNodes(g),
         NEW c \in Number, NEW id \in Made(g),
         HasRoom(g, LiteralNode(c)), Owners(g, LiteralNode(c)) = {},
         LiteralNode(c) \notin g.nodes[g.leader[id]],
         NEW h, h = United(Added(g, LiteralNode(c)), id, LandsIn(g, LiteralNode(c)), Folded),
         h \in Graph
  PROVE  Grows(g, h)
  <1> DEFINE lit == LiteralNode(c)
             new == g.made
             at == g.leader[id]
  <1>1. g \in Graph /\ lit \in Node /\ Canonical(h, lit) = lit
    BY NumberNode DEF Sound
  <1>2. /\ new \in Id /\ at \in Made(g) /\ at \in Id /\ h.made = new + 1
        /\ h.leader = [i \in Id |-> IF i = new THEN at ELSE g.leader[i]]
        /\ h.nodes = [g.nodes EXCEPT ![at] = @ \cup {lit}, ![new] = {}]
    BY FoldIsNew
  <1>3. /\ new \in Nat /\ new \notin Made(g) /\ Made(g) \subseteq Id /\ id \in Id
        /\ g.leader \in [Id -> Id] /\ g.nodes \in [Id -> SUBSET Node]
    <2>1. new \in Nat /\ Made(g) \subseteq Id /\ id \in Id
      BY <1>1, MadeIds
    <2>2. new \notin Made(g)
      BY <2>1 DEF Made
    <2> QED
      BY <1>1, <2>1, <2>2 DEF Graph
  <1>4. g.leader[at] = at /\ at # new /\ Made(h) = Made(g) \cup {new}
    BY <1>2, <1>3 DEF Forest, Made
  <1> HIDE DEF lit
  <1> HIDE DEF new, at
  <1>5. Classes(h) = Classes(g) /\ at \in Classes(g) /\ new \notin Classes(g)
    BY <1>2, <1>3, <1>4 DEF Classes
  <1>6. /\ h.nodes[at] = g.nodes[at] \cup {lit}
        /\ \A i \in Classes(g) : i # at => h.nodes[i] = g.nodes[i]
    BY <1>2, <1>3, <1>4, <1>5 DEF Classes
  <1>7. NodesOf(h) = NodesOf(g) \cup {<<at, lit>>}
    <2>1. ASSUME NEW e \in NodesOf(h) PROVE e \in NodesOf(g) \cup {<<at, lit>>}
      <3>1. PICK i \in Classes(g) : e \in {<<i, n>> : n \in h.nodes[i]}
        BY <1>5 DEF NodesOf
      <3>2. PICK n \in h.nodes[i] : e = <<i, n>>
        BY <3>1
      <3>3. (i = at /\ n = lit) \/ n \in g.nodes[i]
        BY <1>6, <3>1, <3>2
      <3>4. n \in g.nodes[i] => e \in NodesOf(g)
        BY <3>1, <3>2 DEF NodesOf
      <3> QED
        BY <3>2, <3>3, <3>4
    <2>2. ASSUME NEW e \in NodesOf(g) PROVE e \in NodesOf(h)
      <3>1. PICK i \in Classes(g) : e \in {<<i, n>> : n \in g.nodes[i]}
        BY DEF NodesOf
      <3>2. PICK n \in g.nodes[i] : e = <<i, n>>
        BY <3>1
      <3>3. n \in h.nodes[i]
        BY <1>6, <3>1, <3>2
      <3> QED
        BY <1>5, <3>1, <3>2, <3>3 DEF NodesOf
    <2>3. <<at, lit>> \in NodesOf(h)
      BY <1>5, <1>6 DEF NodesOf
    <2> QED
      BY <2>1, <2>2, <2>3
  <1>8. <<at, lit>> \notin NodesOf(g)
    <2> SUFFICES ASSUME <<at, lit>> \in NodesOf(g) PROVE FALSE
      OBVIOUS
    <2>1. PICK i \in Classes(g) : <<at, lit>> \in {<<i, n>> : n \in g.nodes[i]}
      BY DEF NodesOf
    <2>2. lit \in g.nodes[at]
      BY <2>1
    <2> QED
      BY <2>2 DEF lit, at
  <1>9. Nodes(h) = Nodes(g) + 1
    <2>1. IsFiniteSet(NodesOf(g))
      BY <1>1, NodesCount
    <2> QED
      BY <1>7, <1>8, <2>1, FS_AddElement DEF Nodes
  <1>10. ASSUME NodesAreForms(g), NEW i \in Classes(h), NEW n \in h.nodes[i]
         PROVE  Canonical(h, n) = n
    <2>1. n = lit \/ n \in g.nodes[i]
      BY <1>5, <1>6, <1>10
    <2>2. ASSUME n \in g.nodes[i] PROVE Canonical(h, n) = n
      <3>1. i \in Id /\ i \in Classes(g)
        BY <1>3, <1>5, <1>10 DEF Classes
      <3>2. n \in Node /\ Kids(n) \subseteq Made(g)
        BY <2>2, <3>1 DEF Sound, NodesAgree, States, Kids
      <3>3. \A k \in Kids(n) : h.leader[k] = g.leader[k]
        BY <1>2, <1>3, <3>2
      <3>4. Canonical(h, n) = Canonical(g, n)
        BY <1>1, <3>2, <3>3, FormByKids
      <3> QED
        BY <1>10, <2>2, <3>1, <3>4 DEF NodesAreForms
    <2> QED
      BY <1>1, <2>1, <2>2
  <1> QED
    BY <1>5, <1>9, <1>10 DEF Grows, Spread, NodesAreForms

\* What a step of a rebuild may do to the terms of a graph.
Counts(g, h) == SameTerms(g, h) \/ Shrinks(g, h) \/ Grows(g, h) \/ h = Reindexed(g)

\* Folding shows: there is a node more or a class less, unless the literal was there.
LEMMA ModifyCounts ==
  ASSUME IInv, IInv', CInv, FiniteNodes(graph), LiteralsStand(graph),
         NEW id \in changed, Modify(id)
  PROVE  /\ LiteralsStand(graph') /\ Counts(graph, graph')
         /\ \/ Shrinks(graph, graph') \/ Grows(graph, graph')
            \/ /\ graph' = graph
               /\ LET c == graph.fact[graph.leader[id]]
                  IN  c = None \/ LiteralNode(c) \in graph.nodes[graph.leader[id]]
  <1> DEFINE c == graph.fact[graph.leader[id]]
             lit == LiteralNode(c)
             folds == c # None /\ lit \notin graph.nodes[graph.leader[id]]
             g == Added(graph, lit)
             lands == LandsIn(graph, lit)
             w == Grown(graph, value, lit)
  <1>1. /\ Sound(graph, value) /\ graph \in Graph /\ id \in Id /\ Forest(graph)
        /\ folds => HasRoom(graph, lit)
        /\ graph' = IF folds THEN United(g, id, lands, Folded) ELSE graph
        /\ graph' \in Graph
    BY DEF Modify, Find, IInv, TypeOK, CInv, Closed
  <1>2. CASE ~ folds
    BY <1>1, <1>2 DEF Counts, SameTerms
  <1>3. CASE folds
    <2>1. c \in Number
      <3>1. graph.leader \in [Id -> Id] /\ graph.fact \in [Id -> Known]
        BY <1>1 DEF Graph
      <3>2. c \in Known
        BY <1>1, <3>1
      <3> QED
        BY <1>3, <3>2 DEF Known
    <2>2. id \in Made(graph)
      BY <1>1, <1>3, <2>1 DEF Sound, LeadersAgree, FactsAgree
    <2>3. lit \in Node /\ lit.op = c /\ \A k \in DOMAIN lit.kids : lit.kids[k] \in Made(graph)
      BY <2>1, NumberNode DEF LiteralNode
    <2>4. graph' = United(g, id, lands, Folded) /\ HasRoom(graph, lit)
      BY <1>1, <1>3
    <2>5. lit \notin graph.nodes[graph.leader[id]]
      BY <1>3
    <2> HIDE DEF folds, c, lit
    <2>6. Sound(g, w) /\ lands \in Made(g) /\ id \in Made(g)
      BY <1>1, <2>2, <2>3, <2>4, AddedIsSound
    <2>7. LiteralsStand(g)
      BY <1>1, <2>3, <2>4, AddedLiterals
    <2> HIDE DEF w
    <2>8. LiteralsStand(graph')
      <3> HIDE DEF g, lands
      <3> QED
        BY <2>4, <2>6, <2>7, UnitedLiterals
    <2>9. CASE Owners(graph, lit) = {}
      <3>1. Grows(graph, graph')
        BY <1>1, <2>1, <2>2, <2>4, <2>5, <2>9, FoldGrows DEF lit
      <3> QED
        BY <2>8, <3>1 DEF Counts
    <2>10. CASE Owners(graph, lit) # {}
      <3>1. g = graph
        BY <2>10 DEF Added
      <3> DEFINE o == CHOOSE o \in Owners(graph, lit) : TRUE
      <3>2. o \in Owners(graph, lit) /\ lands = graph.leader[o]
        BY <2>10 DEF LandsIn, Find
      <3> HIDE DEF o, lands, g
      <3>3. PICK e \in graph.memo : e[1] = lit /\ e[2] = o
        BY <3>2 DEF Owners
      <3>4. lit \in graph.nodes[graph.leader[o]]
        BY <2>1, <2>3, <3>3 DEF LiteralsStand
      <3>5. o \in Made(graph) /\ o \in Id
        BY <1>1, <3>3, MadeIds DEF Sound, MemoAgrees, States
      <3>6. graph.leader[lands] = lands
        BY <1>1, <3>2, <3>5 DEF Forest
      <3>7. graph.leader[id] # graph.leader[lands]
        BY <2>5, <3>2, <3>4, <3>6
      <3>8. Shrinks(graph, graph')
        <4>1. lands \in Made(graph)
          BY <2>6, <3>1
        <4> QED
          BY <1>1, <2>2, <2>4, <3>1, <3>7, <4>1, UnitedShrinks
      <3> QED
        BY <2>8, <3>8 DEF Counts
    <2> QED
      BY <2>9, <2>10
  <1> QED
    BY <1>2, <1>3

\* Repairing a parent adds nothing, and may join two classes.
LEMMA RepairParentCounts ==
  ASSUME IInv, CInv, LiteralsStand(graph), NEW p \in left, RepairParent(p)
  PROVE  LiteralsStand(graph') /\ Counts(graph, graph')
  <1> DEFINE node == Canonical(graph, p[1])
             owner == Find(graph, p[2])
  <1>1. /\ graph \in Graph /\ left \subseteq Node \X Id /\ phase = "repair"
        /\ seen \subseteq [node : Node, owner : Id, stored : Node]
        /\ NewParent(node, owner, p[1]) \/ CongruentParent(node, owner, p[1])
        /\ Sound(graph, value) /\ Forest(graph)
    BY DEF RepairParent, IInv, TypeOK, CInv, Closed
  <1>2. owner \in Made(graph) /\ owner \in Id /\ \A s \in seen : s.owner \in Made(graph)
    <2>1. States(graph, value, p[1], p[2])
      BY DEF IInv, RepairAgrees
    <2>2. owner \in Made(graph)
      BY <1>1, <2>1 DEF States, Sound, LeadersAgree, Find
    <2> QED
      BY <1>1, <2>2, MadeIds DEF IInv, RepairAgrees, States
  <1>3. p[1] \in Node /\ node.op \notin Number
    <2>1. p \in Hand
      BY DEF Hand
    <2>2. Kids(p[1]) # {}
      BY <2>1 DEF CInv, Closed, UsesAreOver, Under
    <2>3. p[1] \in Node /\ node.op = p[1].op
      BY <1>1 DEF Canonical, Normalized
    <2> QED
      BY <2>2, <2>3, NumberNode
  <1> HIDE DEF node, owner
  <1>4. CASE NewParent(node, owner, p[1])
    <2>1. /\ graph'.made = graph.made /\ graph'.leader = graph.leader
          /\ graph'.nodes = graph.nodes /\ graph'.fact = graph.fact
          /\ \A e \in graph'.memo : e \in graph.memo \/ e = <<node, owner>>
      BY <1>1, <1>4 DEF NewParent, Keyed, Graph
    <2>2. \A e \in graph'.memo : e \in graph.memo \/ e[1].op \notin Number
      BY <1>3, <2>1
    <2> QED
      BY <2>1, <2>2, SameLiterals DEF Counts, SameTerms
  <1>5. CASE CongruentParent(node, owner, p[1])
    <2>1. PICK s \in seen :
            graph' = Keyed(United(graph, s.owner, owner, Congruence(s.stored, p[1])), node,
                       Find(United(graph, s.owner, owner, Congruence(s.stored, p[1])), owner))
      BY <1>5 DEF CongruentParent
    <2> DEFINE g == United(graph, s.owner, owner, Congruence(s.stored, p[1]))
    <2>2. s.owner \in Made(graph)
      BY <1>2
    <2>3. LiteralsStand(g)
      BY <1>1, <1>2, <2>2, UnitedLiterals
    <2>4. IF graph.leader[s.owner] = graph.leader[owner] THEN g = graph ELSE Shrinks(graph, g)
      BY <1>1, <1>2, <2>2, UnitedShrinks
    <2>5. g = [made |-> g.made, leader |-> g.leader, nodes |-> g.nodes, uses |-> g.uses,
               fact |-> g.fact, memo |-> g.memo, pending |-> g.pending,
               learned |-> g.learned, history |-> g.history]
      BY <1>1 DEF United, Graph
    <2> HIDE DEF g
    <2>6. /\ graph'.made = g.made /\ graph'.leader = g.leader
          /\ graph'.nodes = g.nodes /\ graph'.fact = g.fact
          /\ \A e \in graph'.memo : e \in g.memo \/ e[1] = node
      BY <2>1, <2>5 DEF Keyed, g
    <2>7. LiteralsStand(graph')
      BY <1>3, <2>3, <2>6, SameLiterals
    <2>8. Classes(graph') = Classes(g)
      BY <2>6 DEF Classes, Made
    <2>9. SameTerms(graph, graph') \/ Shrinks(graph, graph')
      BY <2>4, <2>6, <2>8 DEF SameTerms, Shrinks, Spread
    <2> QED
      BY <2>7, <2>9 DEF Counts
  <1> QED
    BY <1>1, <1>4, <1>5

\* Looking at a class again changes facts only.
LEMMA PopClassLiterals ==
  ASSUME IInv, LiteralsStand(graph), NEW order, PopClass(order)
  PROVE  LiteralsStand(graph') /\ SameTerms(graph, graph')
  <1> DEFINE id == Last(queue)
             new == Recomputed(graph, id)
  <1>1. /\ graph \in Graph /\ graph' = [graph EXCEPT !.fact = [graph.fact EXCEPT ![id] = new]]
    BY DEF PopClass, IInv, TypeOK
  <1>2. /\ SameTerms(graph, graph') /\ graph'.memo = graph.memo
        /\ graph'.fact = [graph.fact EXCEPT ![id] = new] /\ graph.fact \in [Id -> Known]
    BY <1>1 DEF Graph, SameTerms
  <1>3. ASSUME NEW c \in Id, NEW n \in graph'.nodes[c], n.op \in Number PROVE graph'.fact[c] # None
    <2>1. n \in graph.nodes[c] /\ graph.fact[c] # None
      BY <1>2, <1>3 DEF SameTerms, LiteralsStand
    <2>2. CASE c # id
      BY <1>2, <2>1, <2>2
    <2>3. CASE c = id
      <3> DEFINE facts == {Fact(graph, Canonical(graph, m)) : m \in graph.nodes[id]} \ {None}
      <3>1. Canonical(graph, n).op = n.op
        BY DEF Canonical, Normalized
      <3>2. Fact(graph, Canonical(graph, n)) = n.op
        BY <1>3, <3>1 DEF Fact
      <3>3. n.op \in facts
        BY <1>3, <2>1, <2>3, <3>2, OperatorsDiffer
      <3>4. new = IF facts = {} THEN None ELSE CHOOSE f \in facts : TRUE
        BY DEF Recomputed
      <3>5. None \notin facts
        OBVIOUS
      <3> HIDE DEF facts, new
      <3>6. new # None
        BY <3>3, <3>4, <3>5
      <3> QED
        BY <1>2, <2>3, <3>6
    <2> QED
      BY <2>2, <2>3
  <1> QED
    BY <1>2, <1>3 DEF LiteralsStand, SameTerms

\* Every step of a rebuild does one of these.
LEMMA RebuildCounts ==
  ASSUME IInv, IInv', CInv, FiniteNodes(graph), LiteralsStand(graph), RebuildStep
  PROVE  LiteralsStand(graph') /\ Counts(graph, graph')
  <1>0. graph \in Graph /\ Sound(graph, value)
    BY DEF IInv, TypeOK
  <1>1. CASE /\ SameTerms(graph, graph') /\ graph'.fact = graph.fact
             /\ graph'.memo \subseteq graph.memo
    BY <1>1, SameLiterals DEF SameTerms, Counts
  <1>2. CASE TakePending
    BY <1>0, <1>1, <1>2 DEF TakePending, Graph, SameTerms
  <1>3. ASSUME NEW i \in todo, BeginRepair(i)
        PROVE  LiteralsStand(graph') /\ Counts(graph, graph')
    BY <1>0, <1>1, <1>3 DEF BeginRepair, Graph, SameTerms
  <1>4. ASSUME NEW p \in left, RepairParent(p)
        PROVE  LiteralsStand(graph') /\ Counts(graph, graph')
    BY <1>4, RepairParentCounts
  <1>5. CASE EndRepair
    BY <1>0, <1>1, <1>5 DEF EndRepair, Graph, SameTerms
  <1>6. CASE BeginFacts
    BY <1>0, <1>1, <1>6 DEF BeginFacts, Graph, SameTerms
  <1>7. ASSUME NEW order, PopClass(order)
        PROVE  LiteralsStand(graph') /\ Counts(graph, graph')
    BY <1>7, PopClassLiterals DEF Counts
  <1>8. CASE EndFacts
    BY <1>0, <1>1, <1>8 DEF EndFacts, SameTerms
  <1>9. ASSUME NEW i \in changed, Modify(i)
        PROVE  LiteralsStand(graph') /\ Counts(graph, graph')
    BY <1>9, ModifyCounts
  <1>10. CASE NextRound
    BY <1>0, <1>1, <1>10 DEF NextRound, Graph, SameTerms
  <1>11. CASE Finish
    <2>1. graph' = Reindexed(graph)
      BY <1>11 DEF Finish
    <2> QED
      BY <1>0, <2>1, ReindexedLiterals DEF Counts
  <1> QED
    BY <1>2, <1>3, <1>4, <1>5, <1>6, <1>7, <1>8, <1>9, <1>10, <1>11 DEF RebuildStep

\* reindex of nodes that are canonical leaves them.
LEMMA ReindexedStays ==
  ASSUME NEW g \in Graph, NodesAreForms(g), NEW h, h = Reindexed(g)
  PROVE  /\ Classes(h) = Classes(g) /\ h.leader = g.leader
         /\ \A c \in Classes(g) : h.nodes[c] = g.nodes[c]
         /\ Extent(h) = Extent(g) /\ NodesAreForms(h)
  <1>1. /\ Classes(h) = Classes(g) /\ h.leader = g.leader
        /\ \A c \in Id : h.nodes[c] = {Canonical(g, n) : n \in g.nodes[c]}
    BY ReindexedParts
  <1>2. Classes(g) \subseteq Id
    BY MadeIds DEF Classes
  <1>3. \A c \in Classes(g) : h.nodes[c] = g.nodes[c]
    <2> TAKE c \in Classes(g)
    <2>1. h.nodes[c] = {Canonical(g, n) : n \in g.nodes[c]}
      BY <1>1, <1>2
    <2>2. \A n \in g.nodes[c] : Canonical(g, n) = n
      BY DEF NodesAreForms
    <2> QED
      BY <2>1, <2>2
  <1>4. NodesOf(h) = NodesOf(g)
    BY <1>1, <1>3 DEF NodesOf
  <1>5. \A n : Canonical(h, n) = Canonical(g, n)
    BY <1>1 DEF Canonical, Find
  <1> QED
    BY <1>1, <1>3, <1>4, <1>5 DEF Extent, Nodes, NodesAreForms

LEMMA SameTermsStay ==
  ASSUME NEW g, NEW h, SameTerms(g, h)
  PROVE  /\ Classes(h) = Classes(g) /\ Extent(h) = Extent(g) /\ NodesOf(h) = NodesOf(g)
         /\ NodesAreForms(g) => NodesAreForms(h)
  <1>1. Classes(h) = Classes(g)
    BY DEF SameTerms, Classes, Made
  <1>2. NodesOf(h) = NodesOf(g)
    BY <1>1 DEF SameTerms, NodesOf
  <1>3. \A n : Canonical(h, n) = Canonical(g, n)
    BY DEF SameTerms, Canonical, Find
  <1> QED
    BY <1>1, <1>2, <1>3 DEF SameTerms, Extent, Nodes, NodesAreForms

----------------------------------------------------------------------------
(* What a pattern denotes hangs on the terms of the classes.                 *)

\* Patterns mean the same in graphs whose classes hold the same nodes.
LEMMA DenotedSame ==
  ASSUME NEW g \in Graph, NEW h \in Graph, h.leader = g.leader, Classes(h) = Classes(g),
         \A c \in Classes(g) : h.nodes[c] = g.nodes[c], NEW p, IsPattern(p), NEW s
  PROVE  \A k \in DOMAIN p : Denoted(h, p, s)[k] = Denoted(g, p, s)[k]
  <1> DEFINE P == {k \in DOMAIN p : Denoted(h, p, s)[k] = Denoted(g, p, s)[k]}
  <1>1. Len(p) \in Nat /\ DOMAIN p = 1 .. Len(p)
    BY DEF IsPattern
  <1>2. ASSUME NEW k \in 1 .. Len(p), \A j \in 1 .. k - 1 : j \in P PROVE k \in P
    <2>1. k \in DOMAIN p /\ \A j \in DOMAIN p[k].kids : p[k].kids[j] \in P
      BY <1>1, <1>2, KidsAreBelow
    <2>2. /\ Denoted(h, p, s)[k] = TermsAt(h, p, s, Denoted(h, p, s), k)
          /\ Denoted(g, p, s)[k] = TermsAt(g, p, s, Denoted(g, p, s), k)
      BY <2>1, DenotedGoes
    <2>3. \A j \in DOMAIN p[k].kids : Denoted(h, p, s)[p[k].kids[j]] = Denoted(g, p, s)[p[k].kids[j]]
      BY <2>1
    <2> HIDE DEF P
    <2>4. \A i : Find(h, i) = Find(g, i)
      BY DEF Find
    <2> DEFINE X == Denoted(h, p, s)
               Y == Denoted(g, p, s)
    <2>5. TermsAt(h, p, s, X, k) = TermsAt(g, p, s, Y, k)
      <3>1. \A j \in DOMAIN p[k].kids : X[p[k].kids[j]] = Y[p[k].kids[j]]
        BY <2>3
      <3> HIDE DEF X, Y
      <3>2. CASE IsHole(p, k)
        BY <3>2 DEF TermsAt
      <3>3. CASE ~ IsHole(p, k)
        <4> DEFINE Fits(t, l, n, order) ==
                     /\ order = <<1, 2>> \/ n.op \in Commutative
                     /\ \A j \in DOMAIN p[k].kids : Find(l, n.kids[order[j]]) \in t[p[k].kids[j]]
                   Has(t, l, n) == /\ n.op = p[k].op
                                   /\ \E order \in {<<1, 2>>, <<2, 1>>} : Fits(t, l, n, order)
        <4>1. \A n, order : Fits(X, h, n, order) <=> Fits(Y, g, n, order)
          BY <2>4, <3>1
        <4>2. /\ TermsAt(h, p, s, X, k) = {c \in Classes(h) : \E n \in h.nodes[c] : Has(X, h, n)}
              /\ TermsAt(g, p, s, Y, k) = {c \in Classes(g) : \E n \in g.nodes[c] : Has(Y, g, n)}
          BY <3>3 DEF TermsAt
        <4> HIDE DEF Fits
        <4>3. \A n : Has(X, h, n) <=> Has(Y, g, n)
          BY <4>1
        <4> HIDE DEF Has
        <4> QED
          BY <4>2, <4>3
      <3> QED
        BY <3>2, <3>3
    <2> QED
      BY <2>1, <2>2, <2>5 DEF P
  <1> HIDE DEF P
  <1>3. \A k \in 1 .. Len(p) : k \in P
    BY <1>1, <1>2, FromBelow
  <1> QED
    BY <1>1, <1>3 DEF P

LEMMA MeaningsSame ==
  ASSUME NEW g \in Graph, NEW h \in Graph, h.leader = g.leader, Classes(h) = Classes(g),
         \A c \in Classes(g) : h.nodes[c] = g.nodes[c], NEW p, IsPattern(p)
  PROVE  /\ Meanings(h, p) = Meanings(g, p)
         /\ \A s, c : Denotes(h, p, s, c) <=> Denotes(g, p, s, c)
  <1>1. \A s, c : Denotes(h, p, s, c) <=> Denotes(g, p, s, c)
    BY DenotedSame, RootReaches DEF Denotes
  <1>2. AllMatches(h, p) = AllMatches(g, p)
    BY DEF AllMatches
  <1> QED
    BY <1>1, <1>2 DEF Meanings

----------------------------------------------------------------------------
(* What instantiation leaves of a tidy graph.                               *)

\* The node a pattern's node becomes.
NodeFrom(p, k, ids) == [op |-> p[k].op, kids |-> [j \in DOMAIN p[k].kids |-> ids[p[k].kids[j]]]]

\* The node of a position is one, over ids that were built before it.
LEMMA NodeFromIsNode ==
  ASSUME NEW p, IsPattern(p), NEW k \in DOMAIN p, ~ IsHole(p, k), NEW ids,
         \A j \in 1 .. k - 1 : ids[j] \in Id
  PROVE  /\ NodeFrom(p, k, ids) \in Node
         /\ \A j \in DOMAIN p[k].kids : ids[p[k].kids[j]] \in Kids(NodeFrom(p, k, ids))
         /\ p[k].kids = <<>> => NodeFrom(p, k, ids) = [op |-> p[k].op, kids |-> <<>>]
         /\ \A i : p[k].kids = <<i>> => NodeFrom(p, k, ids) = [op |-> p[k].op, kids |-> <<ids[i]>>]
         /\ \A i, d : p[k].kids = <<i, d>> =>
              NodeFrom(p, k, ids) = [op |-> p[k].op, kids |-> <<ids[i], ids[d]>>]
  <1> DEFINE m == NodeFrom(p, k, ids)
  <1>1. p[k].kids = <<>> => m = [op |-> p[k].op, kids |-> <<>>]
    BY DEF NodeFrom
  <1>2. ASSUME NEW i, p[k].kids = <<i>> PROVE m = [op |-> p[k].op, kids |-> <<ids[i]>>]
    BY <1>2 DEF NodeFrom
  <1>3. ASSUME NEW i, NEW d, p[k].kids = <<i, d>>
        PROVE  m = [op |-> p[k].op, kids |-> <<ids[i], ids[d]>>]
    BY <1>3 DEF NodeFrom
  <1>4. \A j \in DOMAIN p[k].kids : ids[p[k].kids[j]] \in Kids(m)
    BY DEF NodeFrom, Kids
  <1> HIDE DEF m
  <1>5. m \in Node
    <2>1. CASE p[k].op \in Var \cup Number /\ p[k].kids = <<>>
      BY <1>1, <2>1 DEF Node
    <2>2. CASE p[k].op \in Unary /\ \E i \in 1 .. k - 1 : p[k].kids = <<i>>
      BY <1>2, <2>2 DEF Node
    <2>3. CASE p[k].op \in Commutative /\ \E i, j \in 1 .. k - 1 : p[k].kids = <<i, j>>
      BY <1>3, <2>3 DEF Node
    <2> QED
      BY <2>1, <2>2, <2>3, PatternShape DEF IsHole
  <1> QED
    BY <1>1, <1>2, <1>3, <1>4, <1>5 DEF m

\* One node is built.
LEMMA BuiltShape ==
  ASSUME NEW x \in Build, NEW m \in Node, NEW y \in Build, y = Built(x, m)
  PROVE  LET g == x.graph
             n == Canonical(g, m)
         IN  /\ n \in Node /\ Kids(n) = Under(g, Kids(m)) /\ HasRoom(g, n)
             /\ y.graph = Added(g, n) /\ y.ids = Append(x.ids, LandsIn(g, n))
             /\ Owners(g, n) = {} =>
                  y.graph.memo = g.memo \cup {<<n, g.made>>} /\ LandsIn(g, n) = g.made
             /\ Owners(g, n) # {} =>
                  y.graph = g /\ \E e \in g.memo : e[1] = n /\ LandsIn(g, n) = g.leader[e[2]]
  <1> DEFINE g == x.graph
             n == Canonical(g, m)
  <1>1. g \in Graph /\ y.graph \in Graph /\ g.made \in Nat /\ y.graph.made \in 0 .. MaxIds
    BY MadeIds DEF Build, Graph
  <1>2. n \in Node /\ Kids(n) = Under(g, Kids(m))
    BY <1>1, FormIsNode
  <1>3. y.graph = Added(g, n) /\ y.ids = Append(x.ids, LandsIn(g, n))
    BY DEF Built
  <1> HIDE DEF g, n
  <1>4. Owners(g, n) = {} =>
          /\ y.graph.memo = g.memo \cup {<<n, g.made>>} /\ LandsIn(g, n) = g.made
          /\ y.graph.made = g.made + 1
    BY <1>1, <1>3 DEF Added, Graph, LandsIn
  <1>5. HasRoom(g, n)
    BY <1>1, <1>4, MaxIdsIsNat DEF HasRoom
  <1>6. ASSUME Owners(g, n) # {}
        PROVE  y.graph = g /\ \E e \in g.memo : e[1] = n /\ LandsIn(g, n) = g.leader[e[2]]
    <2> DEFINE o == CHOOSE o \in Owners(g, n) : TRUE
    <2>1. o \in Owners(g, n) /\ LandsIn(g, n) = g.leader[o]
      BY <1>6 DEF LandsIn, Find
    <2> HIDE DEF o
    <2>2. \E e \in g.memo : e[1] = n /\ e[2] = o
      BY <2>1 DEF Owners
    <2> QED
      BY <1>3, <1>6, <2>1, <2>2 DEF Added
  <1> QED
    BY <1>2, <1>3, <1>4, <1>5, <1>6 DEF g, n

\* What is built on a graph whose literals stand has literals that stand.
LEMMA InstantiatedLiterals ==
  ASSUME NEW b, NEW p, NEW s, NEW v, NEW V, NEW at, MayBuild(b, p, s, v, V, at),
         LiteralsStand(b.graph)
  PROVE  LiteralsStand(Instantiated(b, p, s).graph)
  <1> DEFINE w == Worths(p, v)
             n == Len(p)
  <1>1. PICK f : BuiltBy(f, b, p, s, w, V, at) /\ Instantiated(b, p, s) = f[n]
    BY InstantiatedGoes
  <1> DEFINE P == {k \in 0 .. n : LiteralsStand(f[k].graph)}
  <1> HIDE DEF w
  <1>2. n \in Nat /\ IsPattern(p) /\ DOMAIN p = 1 .. n
    BY DEF MayBuild, IsPattern
  <1>3. 0 \in P
    BY <1>1, <1>2 DEF BuiltBy
  <1>4. ASSUME NEW k \in 1 .. n, LiteralsStand(f[k - 1].graph) PROVE LiteralsStand(f[k].graph)
    <2> DEFINE x == f[k - 1]
               y == f[k]
               m == NodeFrom(p, k, x.ids)
    <2>1. k - 1 \in 0 .. n /\ k \in 0 .. n /\ k \in DOMAIN p
      BY <1>2
    <2>2. HasBuilt(b, p, w, V, at, k - 1, x) /\ HasBuilt(b, p, w, V, at, k, y)
          /\ y = StepOf(p, s, k, x)
      BY <1>1, <2>1 DEF BuiltBy
    <2>3. /\ x \in Build /\ y \in Build /\ Sound(x.graph, x.value)
          /\ \A j \in 1 .. k - 1 : x.ids[j] \in Id
      BY <2>2, MadeIds DEF HasBuilt, Stands, Build
    <2> HIDE DEF x, y
    <2>4. CASE IsHole(p, k)
      BY <1>4, <2>2, <2>3, <2>4 DEF StepOf, Build, x, y
    <2>5. CASE ~ IsHole(p, k)
      <3>1. m \in Node
        BY <1>2, <2>1, <2>3, <2>5, NodeFromIsNode
      <3>2. y = Built(x, m)
        BY <2>2, <2>5 DEF StepOf, NodeFrom
      <3> HIDE DEF m
      <3>3. /\ Canonical(x.graph, m) \in Node /\ HasRoom(x.graph, Canonical(x.graph, m))
            /\ y.graph = Added(x.graph, Canonical(x.graph, m))
        BY <2>3, <3>1, <3>2, BuiltShape
      <3>4. LiteralsStand(y.graph)
        BY <1>4, <2>3, <3>3, AddedLiterals DEF x
      <3> QED
        BY <3>4 DEF y
    <2> QED
      BY <2>4, <2>5
  <1>5. \A k \in 0 .. n - 1 : k \in P => k + 1 \in P
    <2> TAKE k \in 0 .. n - 1
    <2>1. k + 1 \in 1 .. n /\ k + 1 \in 0 .. n /\ (k + 1) - 1 = k
      BY <1>2
    <2> QED
      BY <1>4, <2>1
  <1> HIDE DEF P
  <1>6. \A k \in 0 .. n : k \in P
    BY <1>2, <1>3, <1>5, CountingUp
  <1>7. n \in P
    BY <1>2, <1>6
  <1> QED
    BY <1>1, <1>7 DEF P

\* After k nodes of the pattern: what is new is keyed by new ids; a node over a
\* new id is new; and where nothing is new nothing changed.
Extends(g, p, k, x) ==
  /\ \A e \in x.graph.memo : e \in g.memo \/ e[2] \notin Made(g)
  /\ \A j \in 1 .. k : \A i \in DOMAIN p[j].kids :
       x.ids[p[j].kids[i]] \notin Made(g) => x.ids[j] \notin Made(g)
  /\ (\A j \in 1 .. k : x.ids[j] \in Made(g)) => x.graph = g

\* Each node built so far is a class that has a term of it.
Mirrors(g, p, s, k, x) ==
  (\A j \in 1 .. k : x.ids[j] \in Made(g)) =>
    \A j \in 1 .. k : x.ids[j] \in Classes(g) /\ x.ids[j] \in Denoted(g, p, s)[j]

\* Building the next node keeps what is new above what is new,
LEMMA StepExtends ==
  ASSUME NEW b, NEW p, NEW s, NEW v, NEW V, NEW at, MayBuild(b, p, s, v, V, at),
         NEW k \in 1 .. Len(p), NEW w, NEW x, HasBuilt(b, p, w, V, at, k - 1, x),
         Extends(b.graph, p, k - 1, x),
         NEW y, HasBuilt(b, p, w, V, at, k, y), y = StepOf(p, s, k, x)
  PROVE  Extends(b.graph, p, k, y)
  <1> DEFINE g == b.graph
             m == NodeFrom(p, k, x.ids)
             n == Canonical(x.graph, m)
             id == LandsIn(x.graph, n)
  <1>1. /\ IsPattern(p) /\ k \in DOMAIN p /\ k \in Nat \ {0} /\ k - 1 \in Nat
        /\ b \in Build /\ x \in Build /\ y \in Build
        /\ Stands(b, V, at) /\ GoesOn(x, b) /\ Len(x.ids) = k - 1 /\ x.ids \in Seq(Id)
        /\ \A j \in 1 .. k - 1 : x.ids[j] \in Made(x.graph)
    BY DEF MayBuild, HasBuilt, IsPattern, Stands, Build
  <1>2. /\ g \in Graph /\ x.graph \in Graph /\ g.made \in Nat /\ x.graph.made \in Nat
        /\ Made(g) \subseteq Id /\ Made(x.graph) \subseteq Id
    BY <1>1, MadeIds DEF Build
  <1>3. /\ x.graph.leader = g.leader /\ g.made <= x.graph.made
        /\ \A i \in Id \ Made(g) : g.leader[i] = i
        /\ \A e \in g.memo : Kids(e[1]) \subseteq Made(g)
    BY <1>1 DEF GoesOn, Stands, Sound, LeadersAgree, MemoAgrees, States, Kids
  <1>4. \A j \in 1 .. k - 1 : x.ids[j] \in Id
    BY <1>1, <1>2
  <1>5. \A j \in 1 .. k - 1 : \A i \in DOMAIN p[j].kids : p[j].kids[i] \in 1 .. k - 1
    <2> TAKE j \in 1 .. k - 1
    <2> TAKE i \in DOMAIN p[j].kids
    <2>1. j \in DOMAIN p /\ j \in Nat
      BY <1>1 DEF IsPattern
    <2>2. p[j].kids[i] \in 1 .. j - 1
      BY <1>1, <2>1, KidsAreBelow
    <2> QED
      BY <1>1, <2>1, <2>2
  <1> HIDE DEF g
  <1>6. CASE IsHole(p, k)
    <2>1. y.graph = x.graph /\ y.ids = Append(x.ids, s[p[k].op])
      BY <1>1, <1>6 DEF StepOf, Build
    <2>2. \A j \in 1 .. k - 1 : y.ids[j] = x.ids[j]
      BY <1>1, <2>1
    <2>3. p[k].kids = <<>>
      <3>1. p[k].op \in Hole /\ k \in DOMAIN p
        BY <1>1, <1>6 DEF IsHole
      <3> QED
        BY <1>1, <3>1, PatternShape
    <2>4. \A j \in 1 .. k : j \in 1 .. k - 1 \/ j = k
      BY <1>1
    <2>5. ASSUME NEW j \in 1 .. k, NEW i \in DOMAIN p[j].kids,
                 y.ids[p[j].kids[i]] \notin Made(g)
          PROVE  y.ids[j] \notin Made(g)
      <3>1. j \in 1 .. k - 1
        BY <2>3, <2>4
      <3> QED
        BY <1>5, <2>2, <2>5, <3>1 DEF Extends, g
    <2>6. ASSUME \A j \in 1 .. k : y.ids[j] \in Made(g) PROVE y.graph = g
      <3>1. \A j \in 1 .. k - 1 : x.ids[j] \in Made(g)
        <4> TAKE j \in 1 .. k - 1
        <4>1. j \in 1 .. k
          BY <1>1
        <4> QED
          BY <2>2, <2>6, <4>1
      <3> QED
        BY <2>1, <3>1 DEF Extends, g
    <2> QED
      BY <2>1, <2>5, <2>6 DEF Extends, g
  <1>7. CASE ~ IsHole(p, k)
    <2>1. m \in Node /\ \A i \in DOMAIN p[k].kids : x.ids[p[k].kids[i]] \in Kids(m)
      BY <1>1, <1>4, <1>7, NodeFromIsNode
    <2>2. y = Built(x, m)
      BY <1>7 DEF StepOf, NodeFrom
    <2> HIDE DEF m
    <2>3. /\ n \in Node /\ Kids(n) = Under(x.graph, Kids(m))
          /\ y.ids = Append(x.ids, id)
          /\ Owners(x.graph, n) = {} =>
               y.graph.memo = x.graph.memo \cup {<<n, x.graph.made>>} /\ id = x.graph.made
          /\ Owners(x.graph, n) # {} =>
               y.graph = x.graph /\ \E e \in x.graph.memo : e[1] = n /\ id = x.graph.leader[e[2]]
      <3>1. n = Canonical(x.graph, m) /\ id = LandsIn(x.graph, n)
        OBVIOUS
      <3> HIDE DEF n, id
      <3>2. x \in Build /\ y \in Build /\ m \in Node /\ y = Built(x, m)
        BY <1>1, <2>1, <2>2
      <3> QED
        BY <3>1, <3>2, BuiltShape
    <2> HIDE DEF n, id
    <2>4. y.ids[k] = id /\ \A j \in 1 .. k - 1 : y.ids[j] = x.ids[j]
      BY <1>1, <2>3
    <2>5. \A j \in 1 .. k : j \in 1 .. k - 1 \/ j = k
      BY <1>1
    <2>6. Owners(x.graph, n) = {} => id \notin Made(g)
      BY <1>2, <1>3, <2>3 DEF Made
    <2>7. \A e \in y.graph.memo : e \in g.memo \/ e[2] \notin Made(g)
      BY <2>3, <2>6 DEF Extends, g
    <2>8. ASSUME NEW i \in DOMAIN p[k].kids, x.ids[p[k].kids[i]] \notin Made(g)
          PROVE  id \notin Made(g)
      <3>1. CASE Owners(x.graph, n) = {}
        BY <2>6, <3>1
      <3>2. CASE Owners(x.graph, n) # {}
        <4> DEFINE q == x.ids[p[k].kids[i]]
        <4>1. PICK e \in x.graph.memo : e[1] = n /\ id = x.graph.leader[e[2]]
          BY <2>3, <3>2
        <4>2. q \in Id /\ q \in Kids(m)
          BY <1>1, <1>4, <2>1, KidsAreBelow
        <4>3. x.graph.leader[q] = q
          BY <1>3, <2>8, <4>2
        <4>4. q \in Kids(n)
          BY <2>3, <4>2, <4>3 DEF Under
        <4>5. e \notin g.memo
          BY <1>3, <2>8, <4>1, <4>4
        <4>6. e[2] \notin Made(g) /\ e[2] \in Id
          BY <1>2, <4>1, <4>5 DEF Extends, g, Graph
        <4> QED
          BY <1>3, <4>1, <4>6
      <3> QED
        BY <3>1, <3>2
    <2>9. ASSUME NEW j \in 1 .. k, NEW i \in DOMAIN p[j].kids,
                 y.ids[p[j].kids[i]] \notin Made(g)
          PROVE  y.ids[j] \notin Made(g)
      <3>1. CASE j = k
        <4>1. p[k].kids[i] \in 1 .. k - 1
          BY <1>1, <2>9, <3>1, KidsAreBelow
        <4> QED
          BY <2>4, <2>8, <2>9, <3>1, <4>1
      <3>2. CASE j \in 1 .. k - 1
        BY <1>5, <2>4, <2>9, <3>2 DEF Extends, g
      <3> QED
        BY <2>5, <3>1, <3>2
    <2>10. ASSUME \A j \in 1 .. k : y.ids[j] \in Made(g) PROVE y.graph = g
      <3>1. (\A j \in 1 .. k - 1 : x.ids[j] \in Made(g)) /\ id \in Made(g)
        BY <1>1, <2>4, <2>10
      <3>2. x.graph = g
        BY <3>1 DEF Extends, g
      <3> QED
        BY <2>3, <2>6, <3>1, <3>2
    <2> QED
      BY <2>7, <2>9, <2>10 DEF Extends, g
  <1> QED
    BY <1>6, <1>7

\* and, while nothing is new, follows the terms that are there.
LEMMA StepMirrors ==
  ASSUME NEW b, NEW p, NEW s, NEW v, NEW V, NEW at, MayBuild(b, p, s, v, V, at),
         Tidy(b.graph), \A h \in HolesOf(p) : s[h] \in Classes(b.graph),
         NEW k \in 1 .. Len(p), NEW w, NEW x, HasBuilt(b, p, w, V, at, k - 1, x),
         Extends(b.graph, p, k - 1, x), Mirrors(b.graph, p, s, k - 1, x),
         NEW y, HasBuilt(b, p, w, V, at, k, y), y = StepOf(p, s, k, x)
  PROVE  Mirrors(b.graph, p, s, k, y)
  <1> DEFINE g == b.graph
             D == Denoted(g, p, s)
             m == NodeFrom(p, k, x.ids)
             n == Canonical(x.graph, m)
             id == LandsIn(x.graph, n)
  <1>1. /\ IsPattern(p) /\ k \in DOMAIN p /\ k \in Nat \ {0} /\ k - 1 \in Nat
        /\ b \in Build /\ x \in Build /\ y \in Build /\ g \in Graph
        /\ GoesOn(x, b) /\ Len(x.ids) = k - 1 /\ x.ids \in Seq(Id)
        /\ \A j \in 1 .. k - 1 : x.ids[j] \in Made(x.graph)
    BY DEF MayBuild, HasBuilt, IsPattern, Stands, Build
  <1>2. /\ g.made \in Nat /\ x.graph.made \in Nat /\ g.made <= x.graph.made
        /\ Made(g) \subseteq Id /\ Made(x.graph) \subseteq Id
    BY <1>1, MadeIds DEF Build, GoesOn
  <1> HIDE DEF g, D
  <1> SUFFICES ASSUME \A j \in 1 .. k : y.ids[j] \in Made(g)
               PROVE  \A j \in 1 .. k : y.ids[j] \in Classes(g) /\ y.ids[j] \in D[j]
    BY DEF Mirrors, g, D
  <1>3. \A j \in 1 .. k : j \in 1 .. k - 1 \/ j = k
    BY <1>1
  <1>4. ASSUME NEW q, y.ids = Append(x.ids, q),
               (\A j \in 1 .. k - 1 : x.ids[j] \in Classes(g) /\ x.ids[j] \in D[j])
                 => q \in Classes(g) /\ q \in D[k]
        PROVE  \A j \in 1 .. k : y.ids[j] \in Classes(g) /\ y.ids[j] \in D[j]
    <2>1. y.ids[k] = q /\ \A j \in 1 .. k - 1 : y.ids[j] = x.ids[j]
      BY <1>1, <1>4
    <2>2. \A j \in 1 .. k - 1 : x.ids[j] \in Made(g)
      <3> TAKE j \in 1 .. k - 1
      <3>1. j \in 1 .. k
        BY <1>1
      <3> QED
        BY <2>1, <3>1
    <2>3. \A j \in 1 .. k - 1 : x.ids[j] \in Classes(g) /\ x.ids[j] \in D[j]
      BY <2>2 DEF Mirrors, g, D
    <2> QED
      BY <1>3, <1>4, <2>1, <2>3
  <1>5. CASE IsHole(p, k)
    <2>1. y.ids = Append(x.ids, s[p[k].op])
      BY <1>1, <1>5 DEF StepOf, Build
    <2>2. s[p[k].op] \in Classes(g)
      BY <1>1, <1>5 DEF IsHole, HolesOf, g
    <2>3. s[p[k].op] \in D[k]
      BY <1>1, <1>5, DenotedArgs DEF D
    <2> QED
      BY <1>4, <2>1, <2>2, <2>3
  <1>6. CASE ~ IsHole(p, k)
    <2>1. \A j \in 1 .. k - 1 : x.ids[j] \in Id
      BY <1>1, <1>2
    <2>2. m \in Node
      BY <1>1, <1>6, <2>1, NodeFromIsNode
    <2>3. y = Built(x, m)
      BY <1>6 DEF StepOf, NodeFrom
    <2>4. /\ y.ids = Append(x.ids, id)
          /\ Owners(x.graph, n) = {} => id = x.graph.made
          /\ Owners(x.graph, n) # {} =>
               \E e \in x.graph.memo : e[1] = n /\ id = x.graph.leader[e[2]]
      <3> HIDE DEF m
      <3>1. n = Canonical(x.graph, m) /\ id = LandsIn(x.graph, n)
        OBVIOUS
      <3> HIDE DEF n, id
      <3>2. x \in Build /\ y \in Build /\ m \in Node /\ y = Built(x, m)
        BY <1>1, <2>2, <2>3
      <3> QED
        BY <3>1, <3>2, BuiltShape
    <2> SUFFICES ASSUME \A j \in 1 .. k - 1 : x.ids[j] \in Classes(g) /\ x.ids[j] \in D[j]
                 PROVE  id \in Classes(g) /\ id \in D[k]
      <3> HIDE DEF id
      <3> QED
        BY <1>4, <2>4
    <2>5. x.graph = g
      <3>1. \A j \in 1 .. k - 1 : x.ids[j] \in Made(g)
        BY DEF Classes
      <3> QED
        BY <3>1 DEF Extends, g
    <2>6. id \in Made(g)
      <3> HIDE DEF id
      <3>1. y.ids[k] = id /\ k \in 1 .. k
        BY <1>1, <2>4
      <3> QED
        BY <3>1
    <2> HIDE DEF m, n, id
    <2>7. PICK e \in g.memo : e[1] = n /\ id = g.leader[e[2]]
      BY <1>2, <2>4, <2>5, <2>6 DEF Made
    <2>8. id \in Classes(g) /\ n \in g.nodes[id]
      BY <2>7 DEF Tidy, Classes, g
    <2>9. n \in Node
      BY <1>1, <2>7 DEF Graph
    <2>10. \A j \in 1 .. k - 1 : g.leader[x.ids[j]] = x.ids[j]
      BY DEF Classes
    <2>11. n.op = p[k].op /\ \E args \in ArgsOf(n) : FitsArgs(g, p, s, k, args)
      <3>1. CASE p[k].op \in Var \cup Number /\ p[k].kids = <<>>
        <4>1. m = [op |-> p[k].op, kids |-> <<>>]
          BY <1>1, <1>6, <2>1, <3>1, NodeFromIsNode DEF m
        <4>2. n = [op |-> p[k].op, kids |-> <<>>]
          BY <3>1, <4>1, FormOfLeaf, OperatorsDiffer DEF n
        <4>3. n.kids \in ArgsOf(n)
          BY DEF ArgsOf
        <4> QED
          BY <3>1, <4>2, <4>3 DEF FitsArgs
      <3>2. ASSUME p[k].op \in Unary, NEW i \in 1 .. k - 1, p[k].kids = <<i>>
            PROVE  n.op = p[k].op /\ \E args \in ArgsOf(n) : FitsArgs(g, p, s, k, args)
        <4>1. m = [op |-> p[k].op, kids |-> <<x.ids[i]>>]
          BY <1>1, <1>6, <2>1, <3>2, NodeFromIsNode DEF m
        <4>2. n = [op |-> p[k].op, kids |-> <<x.ids[i]>>]
          BY <2>5, <2>10, <3>2, <4>1, FormOfOne, OperatorsDiffer DEF n
        <4>3. n.kids \in ArgsOf(n)
          BY DEF ArgsOf
        <4>4. FitsArgs(g, p, s, k, n.kids)
          BY <2>10, <3>2, <4>2 DEF FitsArgs, Find, D
        <4> QED
          BY <4>2, <4>3, <4>4
      <3>3. ASSUME p[k].op \in Commutative, NEW i \in 1 .. k - 1, NEW d \in 1 .. k - 1,
                   p[k].kids = <<i, d>>
            PROVE  n.op = p[k].op /\ \E args \in ArgsOf(n) : FitsArgs(g, p, s, k, args)
        <4> DEFINE args == <<x.ids[i], x.ids[d]>>
        <4>1. m = [op |-> p[k].op, kids |-> args]
          <5>1. \A f, c : p[k].kids = <<f, c>> =>
                  NodeFrom(p, k, x.ids) = [op |-> p[k].op, kids |-> <<x.ids[f], x.ids[c]>>]
            BY <1>1, <1>6, <2>1, NodeFromIsNode
          <5> QED
            BY <3>3, <5>1 DEF m
        <4>2. n = IF x.ids[d] < x.ids[i]
                  THEN [op |-> p[k].op, kids |-> <<x.ids[d], x.ids[i]>>]
                  ELSE [op |-> p[k].op, kids |-> args]
          BY <2>5, <2>10, <3>3, <4>1, FormOfTwo DEF n
        <4>3. n.op = p[k].op /\ args \in ArgsOf(n)
          <5>1. x.ids[d] \in Nat /\ x.ids[i] \in Nat
            BY <2>1, <3>3 DEF Id
          <5>2. CASE x.ids[d] < x.ids[i]
            <6>1. n = [op |-> p[k].op, kids |-> <<x.ids[d], x.ids[i]>>] /\ x.ids[d] # x.ids[i]
              BY <4>2, <5>1, <5>2
            <6>2. Turns(n)
              BY <3>3, <6>1 DEF Turns
            <6> QED
              BY <6>1, <6>2 DEF ArgsOf
          <5>3. CASE ~ (x.ids[d] < x.ids[i])
            BY <4>2, <5>3 DEF ArgsOf
          <5> QED
            BY <5>2, <5>3
        <4>4. FitsArgs(g, p, s, k, args)
          <5>1. g.leader[args[1]] \in D[i] /\ g.leader[args[2]] \in D[d]
            BY <2>10, <3>3
          <5>2. \A j \in DOMAIN p[k].kids : g.leader[args[j]] \in D[p[k].kids[j]]
            BY <3>3, <5>1
          <5> QED
            BY <5>2 DEF FitsArgs, Find, D
        <4> QED
          BY <4>3, <4>4
      <3> QED
        BY <1>1, <1>6, <3>1, <3>2, <3>3, PatternShape DEF IsHole
    <2>12. id \in D[k]
      BY <1>1, <1>6, <2>8, <2>11, DenotedArgs DEF D
    <2> QED
      BY <2>8, <2>12
  <1> QED
    BY <1>5, <1>6

\* A right side whose root was there already was there as a whole: nothing is
\* added; and in a tidy graph it is a term of that class (Rewrite::apply).
LEMMA InstantiatedMirrors ==
  ASSUME NEW b, NEW p, NEW s, NEW v, NEW V, NEW at, MayBuild(b, p, s, v, V, at),
         NEW y, y = Instantiated(b, p, s), Last(y.ids) \in Made(b.graph)
  PROVE  /\ y.graph = b.graph
         /\ Tidy(b.graph) /\ (\A h \in HolesOf(p) : s[h] \in Classes(b.graph)) =>
              Last(y.ids) \in Classes(b.graph) /\ Denotes(b.graph, p, s, Last(y.ids))
  <1> DEFINE n == Len(p)
             g == b.graph
  <1>1. PICK f : BuiltBy(f, b, p, s, Worths(p, v), V, at) /\ y = f[n]
    BY InstantiatedGoes
  <1>2. IsPattern(p) /\ n \in Nat \ {0} /\ DOMAIN p = 1 .. n
    BY DEF MayBuild, IsPattern
  <1>3. /\ f[0] = b
        /\ \A k \in 0 .. n : HasBuilt(b, p, Worths(p, v), V, at, k, f[k])
        /\ \A k \in 1 .. n : f[k] = StepOf(p, s, k, f[k - 1])
    BY <1>1 DEF BuiltBy
  <1>4. \A k \in 0 .. n - 1 : k + 1 \in 1 .. n /\ (k + 1) - 1 = k /\ k + 1 \in 0 .. n /\ k \in 0 .. n
    BY <1>2
  <1>5. \A k \in 0 .. n : Extends(g, p, k, f[k])
    <2> DEFINE P == {k \in 0 .. n : Extends(g, p, k, f[k])}
    <2>1. 0 \in P
      BY <1>2, <1>3 DEF Extends
    <2>2. ASSUME NEW k \in 0 .. n - 1, k \in P PROVE k + 1 \in P
      BY <1>3, <1>4, <2>2, StepExtends
    <2> HIDE DEF P
    <2>3. \A k \in 0 .. n : k \in P
      BY <1>2, <2>1, <2>2, CountingUp
    <2> QED
      BY <2>3 DEF P
  <1>6. ASSUME Tidy(g), \A h \in HolesOf(p) : s[h] \in Classes(g)
        PROVE  \A k \in 0 .. n : Mirrors(g, p, s, k, f[k])
    <2> DEFINE P == {k \in 0 .. n : Mirrors(g, p, s, k, f[k])}
    <2>1. 0 \in P
      BY <1>2, <1>3 DEF Mirrors
    <2>2. ASSUME NEW k \in 0 .. n - 1, k \in P PROVE k + 1 \in P
      BY <1>3, <1>4, <1>5, <1>6, <2>2, StepMirrors
    <2> HIDE DEF P
    <2>3. \A k \in 0 .. n : k \in P
      BY <1>2, <2>1, <2>2, CountingUp
    <2> QED
      BY <2>3 DEF P
  <1>7. n \in 0 .. n /\ n \in 1 .. n /\ Len(y.ids) = n
    BY <1>1, <1>2, <1>3 DEF HasBuilt
  <1>8. Last(y.ids) = y.ids[n]
    BY <1>7 DEF Last
  <1>9. \A j \in 1 .. n : y.ids[j] \in Made(g)
    <2> DEFINE New == {j \in 1 .. n : y.ids[j] \notin Made(g)}
               Up == {n - j : j \in New}
    <2> SUFFICES ASSUME New # {} PROVE FALSE
      OBVIOUS
    <2>1. Up # {} /\ Up \in SUBSET Nat
      BY <1>2
    <2>2. PICK u \in Up : \A w \in Up : u <= w
      BY <2>1, NatHasLeast
    <2>3. PICK j \in New : u = n - j
      OBVIOUS
    <2>4. j \in 1 .. n - 1
      BY <1>2, <1>8
    <2>5. PICK i \in DOMAIN p : j \in ToSet(p[i].kids)
      BY <1>2, <2>4 DEF IsPattern
    <2>6. PICK d \in DOMAIN p[i].kids : p[i].kids[d] = j
      BY <2>5 DEF ToSet
    <2>7. j \in 1 .. i - 1 /\ i \in 1 .. n
      BY <1>2, <2>6, KidsAreBelow
    <2>8. y.ids[i] \notin Made(g)
      BY <1>1, <1>5, <1>7, <2>3, <2>6, <2>7 DEF Extends
    <2>9. i \in New /\ n - i \in Up
      BY <2>7, <2>8
    <2> QED
      <3>1. n - j <= n - i
        BY <2>2, <2>3, <2>9
      <3>2. i \in Nat /\ j \in Nat /\ j < i
        BY <1>2, <2>4, <2>7
      <3> QED
        BY <1>2, <3>1, <3>2
  <1>10. y.graph = g
    BY <1>1, <1>5, <1>7, <1>9 DEF Extends
  <1>11. ASSUME Tidy(g), \A h \in HolesOf(p) : s[h] \in Classes(g)
         PROVE  Last(y.ids) \in Classes(g) /\ Denotes(g, p, s, Last(y.ids))
    <2>1. Mirrors(g, p, s, n, y)
      BY <1>1, <1>6, <1>7, <1>11
    <2> QED
      BY <1>7, <1>8, <1>9, <2>1 DEF Mirrors, Denotes
  <1> QED
    BY <1>10, <1>11

\* A ban and a threshold are natural numbers.
LEMMA ShiftedIsNat ==
  ASSUME NEW x \in Nat, NEW n \in Nat
  PROVE  ShiftedLeft(x, n) \in Nat
  <1> DEFINE F == [k \in 1 .. n |-> [u \in Nat |-> 2 * u]]
             Good(f) == f = [k \in 0 .. n |-> IF k = 0 THEN x ELSE 2 * f[k - 1]]
  <1>1. Steps(F, n, Nat, x)
    BY DEF Steps
  <1>2. PICK w : Walks(w, F, n, Nat, x)
    <2> HIDE DEF F
    <2> QED
      BY <1>1, WalkExists
  <1>3. Good(w)
    <2>1. w = [k \in 0 .. n |-> w[k]]
      BY <1>2 DEF Walks
    <2>2. \A k \in 0 .. n : w[k] = IF k = 0 THEN x ELSE 2 * w[k - 1]
      <3> TAKE k \in 0 .. n
      <3>1. CASE k = 0
        BY <1>2, <3>1 DEF Walks
      <3>2. CASE k # 0
        <4>1. k \in 1 .. n /\ k - 1 \in 0 .. n
          BY <3>2
        <4>2. w[k - 1] \in Nat /\ w[k] = F[k][w[k - 1]]
          BY <1>2, <4>1 DEF Walks
        <4> QED
          BY <3>2, <4>1, <4>2
      <3> QED
        BY <3>1, <3>2
    <2> QED
      BY <2>1, <2>2
  <1> DEFINE f == CHOOSE q : Good(q)
  <1>4. Good(f)
    <2> HIDE DEF Good
    <2> QED
      BY <1>3
  <1>5. ShiftedLeft(x, n) = f[n]
    BY DEF ShiftedLeft
  <1> HIDE DEF f
  <1>6. f[0] = x /\ \A k \in 0 .. n - 1 : f[k + 1] = 2 * f[k]
    <2>1. \A k \in 0 .. n : f[k] = IF k = 0 THEN x ELSE 2 * f[k - 1]
      BY <1>4
    <2>2. \A k \in 0 .. n - 1 : k + 1 \in 0 .. n /\ k + 1 # 0 /\ (k + 1) - 1 = k
      OBVIOUS
    <2> QED
      BY <2>1, <2>2
  <1> DEFINE P == {k \in 0 .. n : f[k] \in Nat}
  <1>7. 0 \in P /\ \A k \in 0 .. n - 1 : k \in P => k + 1 \in P
    BY <1>6
  <1> HIDE DEF P
  <1>8. \A k \in 0 .. n : k \in P
    BY <1>7, CountingUp
  <1>9. n \in P
    BY <1>8
  <1> QED
    BY <1>5, <1>9 DEF P

----------------------------------------------------------------------------
(* A clean graph is tidy, and nothing waits to be done outside its phase.    *)

\* The graph between the steps of a run: tidy where it is clean, and nothing left over.
Orderly ==
  /\ LiteralsStand(graph)
  /\ phase = "clean" => Tidy(graph)
  /\ phase \notin {"facts", "modify"} => changed = {}
  /\ phase # "facts" => queue = <<>>

LEMMA OrderlyStarts == RInit => Orderly
  <1> SUFFICES ASSUME RInit PROVE Orderly
    OBVIOUS
  <1>1. MayBuild(Ground, problem.start, <<>>, <<>>, Values, 0)
    BY StartBuilds
  <1>2. LiteralsStand(Ground.graph)
    BY DEF Ground, EmptyGraph, LiteralsStand
  <1>3. LiteralsStand(Instantiated(Ground, problem.start, <<>>).graph)
    BY <1>1, <1>2, InstantiatedLiterals
  <1> QED
    BY <1>3 DEF RInit, StartingFrom, Ground, Orderly

\* An application keeps literals standing.
LEMMA JoinedLiterals ==
  ASSUME SInv, Orderly, NEW x, NEW r, NEW k, NEW m, Joins(x, r, k, m), Builds(x, r, m)
  PROVE  LiteralsStand(graph')
  <1>1. PICK v : MayBuild(Begun, r.rhs, m.subst, v, Values, repairing)
    BY MatchMayBuild DEF Builds
  <1>2. LiteralsStand(Begun.graph)
    BY DEF Orderly, Begun
  <1>3. LiteralsStand(x.graph)
    BY <1>1, <1>2, InstantiatedLiterals DEF Builds
  <1>4. /\ Sound(x.graph, x.value) /\ m.class \in Made(x.graph) /\ Last(x.ids) \in Made(x.graph)
        /\ graph' = United(x.graph, m.class, Last(x.ids), RuleOf(k))
    BY DEF Joins, Applies, Stands
  <1> QED
    BY <1>3, <1>4, UnitedLiterals

\* So does a step of a rebuild, which tidies up in the end.
LEMMA RebuildOrderly ==
  ASSUME SInv, SInv', Orderly, RebuildStep
  PROVE  Orderly'
  <1>1. LiteralsStand(graph')
    BY RebuildCounts DEF SInv, Orderly
  <1>2. phase' = "clean" => Tidy(graph')
    <2>1. CASE Finish
      <3>1. graph.pending = {} /\ graph' = Reindexed(graph)
        BY <2>1 DEF Finish, Congruent, Pending
      <3>2. Sound(graph, value) /\ Forest(graph)
        BY DEF SInv, IInv, CInv, Closed
      <3> QED
        BY <3>1, <3>2, ReindexedIsTidy
    <2>2. CASE ~ Finish
      <3>1. phase' # "clean"
        BY <2>2 DEF RebuildStep, TakePending, BeginRepair, RepairParent, EndRepair, BeginFacts,
                    PopClass, EndFacts, Modify, NextRound, Congruent
      <3> QED
        BY <3>1
    <2> QED
      BY <2>1, <2>2
  <1>3. phase' \notin {"facts", "modify"} => changed' = {}
    BY DEF Orderly, RebuildStep, TakePending, BeginRepair, RepairParent, EndRepair, BeginFacts,
           PopClass, EndFacts, Modify, NextRound, Finish, Congruent
  <1>4. phase' # "facts" => queue' = <<>>
    BY DEF Orderly, RebuildStep, TakePending, BeginRepair, RepairParent, EndRepair, BeginFacts,
           PopClass, EndFacts, Modify, NextRound, Finish, Congruent
  <1> QED
    BY <1>1, <1>2, <1>3, <1>4 DEF Orderly

LEMMA OrderlyStays == SInv /\ SInv' /\ Orderly /\ [RNext]_allVars => Orderly'
  <1> SUFFICES ASSUME SInv, SInv', Orderly, [RNext]_allVars PROVE Orderly'
    OBVIOUS
  <1>1. CASE ApplyMatch
    <2> DEFINE k == found[1].rule
               m == found[1].matches[1]
               r == Rules[k]
    <2>1. \/ graph' = graph /\ UNCHANGED phase
          \/ \E x : Joins(x, r, k, m) /\ Builds(x, r, m)
      BY <1>1, ApplyMatchJoins
    <2>2. UNCHANGED <<changed, queue>> /\ phase \in {"clean", "dirty"}
      BY <1>1 DEF ApplyMatch, rebuildVars, SInv, StepOrder
    <2> HIDE DEF k, m, r
    <2>3. CASE graph' = graph /\ UNCHANGED phase
      BY <2>2, <2>3 DEF Orderly
    <2>4. ASSUME NEW x, Joins(x, r, k, m), Builds(x, r, m) PROVE Orderly'
      <3>1. LiteralsStand(graph')
        BY <2>4, JoinedLiterals
      <3>2. phase' = "clean" => graph' = graph /\ phase = "clean"
        BY <2>4 DEF Joins
      <3>3. phase' \in {"clean", "dirty"}
        BY <2>2, <2>4 DEF Joins
      <3> QED
        BY <2>2, <3>1, <3>2, <3>3 DEF Orderly
    <2> QED
      BY <2>1, <2>3, <2>4
  <1>2. CASE RebuildOn
    BY <1>2, RebuildOnIsStep, RebuildOrderly
  <1>3. CASE ~ ApplyMatch /\ ~ RebuildOn
    <2>1. /\ UNCHANGED <<graph, changed, queue>>
          /\ phase' = phase \/ (phase \in {"clean", "dirty"} /\ phase' = "congruence")
      BY <1>3 DEF RNext, Loop, Begin, BeginPass, Stop, Rebuild, Between, SearchRule, SkipBanned,
             EndSearch, EndRule, EndApply, EndPass, NextPass, Done, TimePasses, Ended, allVars,
             vars, rebuildVars
    <2> QED
      BY <2>1 DEF Orderly
  <1> QED
    BY <1>1, <1>2, <1>3

----------------------------------------------------------------------------
(* What the loop counts.                                                    *)

\* Types of what the loop counts.
Counters ==
  /\ exhausted \in {None, "time", "nodes"}
  /\ pass \in Nat /\ rule \in Nat \ {0} /\ unions \in Nat /\ before \in Nat \X Nat
  /\ banned \in [RuleIds -> [until : Nat, times : Nat]]

LEMMA ExtentIsNat ==
  ASSUME NEW g \in Graph, FiniteNodes(g)
  PROVE  Extent(g) \in Nat \X Nat /\ Extent(g)[1] = Spread(g) /\ Extent(g)[2] = Nodes(g)
  BY ClassesAreFew, NodesCount DEF Extent, Spread

LEMMA BansCount ==
  ASSUME SInv, Counters, rule \in RuleIds
  PROVE  BanLength(rule) \in Nat
  <1>1. Limits.ban \in Nat
    BY RulesAreRules DEF SInv, Limits, IsLimits
  <1>2. Shift(rule) \in Nat
    BY ProblemsAreRules DEF Counters, Shift
  <1> QED
    BY <1>1, <1>2, ShiftedIsNat DEF BanLength

LEMMA CountersStart == RInit => Counters
  <1> SUFFICES ASSUME RInit PROVE Counters
    OBVIOUS
  <1> QED
    BY DEF RInit, Counters

LEMMA CountersStay == SInv /\ Counters /\ [RNext]_allVars => Counters'
  <1> SUFFICES ASSUME SInv, Counters, [RNext]_allVars PROVE Counters'
    OBVIOUS
  <1>0. problem' = problem /\ RuleIds' = RuleIds
    BY DEF RNext, Loop, Begin, BeginPass, Stop, SearchRule, SkipBanned, EndSearch, ApplyMatch,
           EndRule, EndApply, RebuildOn, EndPass, NextPass, Done, TimePasses, Ended, allVars,
           runVars, RuleIds, Rules
  <1>1. exhausted' \in {None, "time", "nodes"}
    BY DEF RNext, Loop, Begin, BeginPass, Stop, SearchRule, SkipBanned, EndSearch, ApplyMatch,
           EndRule, EndApply, RebuildOn, EndPass, NextPass, Done, TimePasses, Ended, allVars,
           runVars, Spent, Counters
  <1>2. pass' \in Nat /\ rule' \in Nat \ {0}
    <2>1. pass' = pass \/ pass' = pass + 1
      <3>1. EndPass => pass' = pass \/ pass' = pass + 1
        BY DEF EndPass, Stop, NextPass
      <3>2. ~ EndPass => pass' = pass
        BY DEF RNext, Loop, Begin, BeginPass, Stop, SearchRule, SkipBanned, EndSearch,
               ApplyMatch, EndRule, EndApply, RebuildOn, Done, TimePasses, Ended, allVars,
               runVars
      <3> QED
        BY <3>1, <3>2
    <2>2. rule' = rule \/ rule' = rule + 1 \/ rule' = 1
      <3>1. SearchRule \/ SkipBanned => rule' = rule + 1
        BY DEF SearchRule, SkipBanned
      <3>2. BeginPass => rule' = rule \/ rule' = 1
        BY DEF BeginPass, Stop
      <3>3. ~ (SearchRule \/ SkipBanned \/ BeginPass) => rule' = rule
        BY DEF RNext, Loop, Begin, Stop, EndSearch, ApplyMatch, EndRule, EndApply, RebuildOn,
               EndPass, NextPass, Done, TimePasses, Ended, allVars, runVars
      <3> QED
        BY <3>1, <3>2, <3>3
    <2>3. pass \in Nat /\ rule \in Nat \ {0}
      BY DEF Counters
    <2> QED
      BY <2>1, <2>2, <2>3
  <1>3. unions' \in Nat
    <2>1. CASE ApplyMatch
      <3>1. unions' = unions + 0 \/ unions' = unions + 1
        BY <2>1 DEF ApplyMatch
      <3> QED
        BY <3>1 DEF Counters
    <2>2. CASE ~ ApplyMatch
      BY <2>2 DEF RNext, Loop, Begin, BeginPass, Stop, SearchRule, SkipBanned, EndSearch,
             EndRule, EndApply, RebuildOn, EndPass, NextPass, Done, TimePasses, Ended, allVars,
             runVars, Counters
    <2> QED
      BY <2>1, <2>2
  <1>4. before' \in Nat \X Nat
    <2>1. CASE BeginPass
      <3>1. Extent(graph) \in Nat \X Nat
        BY ExtentIsNat DEF SInv, IInv, TypeOK
      <3> QED
        BY <2>1, <3>1 DEF BeginPass, Stop, Counters
    <2>2. CASE ~ BeginPass
      BY <2>2 DEF RNext, Loop, Begin, Stop, SearchRule, SkipBanned, EndSearch, ApplyMatch,
             EndRule, EndApply, RebuildOn, EndPass, NextPass, Done, TimePasses, Ended, allVars,
             runVars, Counters
    <2> QED
      BY <2>1, <2>2
  <1>5. banned' \in [RuleIds -> [until : Nat, times : Nat]]
    <2>1. CASE SearchRule
      <3>1. BanLength(rule) \in Nat /\ rule \in RuleIds
        BY <2>1, BansCount DEF SearchRule
      <3>2. pass + BanLength(rule) \in Nat /\ banned[rule].times + 1 \in Nat
        BY <3>1 DEF Counters
      <3>3. \/ banned' = banned
            \/ banned' = [banned EXCEPT ![rule] =
                 [until |-> pass + BanLength(rule), times |-> banned[rule].times + 1]]
        BY <2>1 DEF SearchRule
      <3> QED
        BY <3>2, <3>3 DEF Counters
    <2>2. CASE EndPass
      <3>1. banned' = banned \/ banned' = Lifted
        BY <2>2 DEF EndPass, Stop
      <3>2. Lifted \in [RuleIds -> [until : Nat, times : Nat]]
        BY DEF Lifted, Counters
      <3> QED
        BY <3>1, <3>2 DEF Counters
    <2>3. CASE ~ SearchRule /\ ~ EndPass
      BY <2>3 DEF RNext, Loop, Begin, BeginPass, Stop, SkipBanned, EndSearch, ApplyMatch,
             EndRule, EndApply, RebuildOn, Done, TimePasses, Ended, allVars, runVars, Counters
    <2> QED
      BY <2>1, <2>2, <2>3
  <1> QED
    BY <1>0, <1>1, <1>2, <1>3, <1>4, <1>5 DEF Counters

----------------------------------------------------------------------------
(* A pass in which no rule changed anything, while it is rebuilt.            *)

\* The classes with a constant that will stay as they are.
Firm ==
  {c \in Classes(graph) :
     /\ graph.fact[c] # None
     /\ ~ \E i \in changed :
            Find(graph, i) = c /\ LiteralNode(graph.fact[c]) \notin graph.nodes[c]}

\* A match whose condition holds on firm facts has its right side in its class.
Answered(r, m) ==
  (\A h \in Rules[r].needs : Find(graph, m.subst[h]) \in Firm)
    => Denotes(graph, Rules[r].rhs, m.subst, m.class)

\* Closed under the rules that are not banned, as far as facts are firm.
ClosedFor ==
  \A r \in RuleIds :
    banned[r].until > pass \/ \A m \in Meanings(graph, Rules[r].lhs) : Answered(r, m)

\* The rebuild after a pass without a union has left the terms alone so far,
Untouched ==
  /\ Tidy(graph) /\ Extent(graph) = before
  /\ todo = {} /\ phase \in {"congruence", "facts", "modify", "clean"}
  /\ phase = "congruence" => rounds <= MaxRounds
  /\ phase # "congruence" => graph.learned = {}
  /\ ClosedFor

\* Classes were joined, or a literal was folded into a class.
Touched ==
  \/ Spread(graph) < before[1]
  \/ Spread(graph) = before[1] /\ Nodes(graph) > before[2] /\ NodesAreForms(graph)

\* Nothing is left to fold or to look at.
Idling == graph.learned = {} /\ changed = {} /\ queue = <<>>

LEMMA RulesInUse ==
  ASSUME SInv, NEW r \in RuleIds
  PROVE  /\ IsRule(Rules[r]) /\ IsPattern(Rules[r].lhs) /\ IsPattern(Rules[r].rhs)
         /\ Rules[r].needs \subseteq HolesOf(Rules[r].lhs)
         /\ HolesOf(Rules[r].rhs) \subseteq HolesOf(Rules[r].lhs)
  BY RulesAreRules DEF SInv, Rules, RuleIds, IsRule

\* Closed stays closed while classes hold the same nodes and no more facts are firm.
LEMMA ClosedStays ==
  ASSUME SInv, SInv', ClosedFor, UNCHANGED <<problem, banned, pass>>,
         graph'.leader = graph.leader, Classes(graph') = Classes(graph),
         \A c \in Classes(graph) : graph'.nodes[c] = graph.nodes[c],
         Firm' \subseteq Firm
  PROVE  ClosedFor'
  <1>1. graph \in Graph /\ graph' \in Graph /\ Rules' = Rules /\ RuleIds' = RuleIds
    BY DEF SInv, IInv, TypeOK, Rules, RuleIds
  <1>2. SUFFICES ASSUME NEW r \in RuleIds, ~ (banned[r].until > pass),
                        NEW m \in Meanings(graph', Rules[r].lhs),
                        \A h \in Rules[r].needs : Find(graph', m.subst[h]) \in Firm'
                 PROVE  Denotes(graph', Rules[r].rhs, m.subst, m.class)
    BY <1>1 DEF ClosedFor, Answered
  <1>3. m \in Meanings(graph, Rules[r].lhs)
    BY <1>1, RulesInUse, MeaningsSame
  <1>4. \A h \in Rules[r].needs : Find(graph, m.subst[h]) \in Firm
    BY <1>2 DEF Find
  <1>5. Denotes(graph, Rules[r].rhs, m.subst, m.class)
    BY <1>2, <1>3, <1>4 DEF ClosedFor, Answered
  <1> QED
    BY <1>1, <1>5, RulesInUse, MeaningsSame

\* A fact that becomes known waits to be folded, and is not firm yet.
LEMMA PopStaysFirm ==
  ASSUME IInv, IInv', LiteralsStand(graph), NEW order, PopClass(order)
  PROVE  Firm' \subseteq Firm
  <1> DEFINE id == Last(queue)
             new == Recomputed(graph, id)
  <1>1. /\ graph \in Graph /\ Sound(graph, value) /\ Sound(graph', value) /\ value' = value
        /\ graph' = [graph EXCEPT !.fact = [graph.fact EXCEPT ![id] = new]]
        /\ changed' = IF Tells(id, new) THEN changed \cup {id} ELSE changed
    BY DEF PopClass, IInv, TypeOK, ghosts
  <1> HIDE DEF id, new
  <1>2. /\ graph'.made = graph.made /\ graph'.leader = graph.leader /\ graph'.nodes = graph.nodes
        /\ graph'.fact = [graph.fact EXCEPT ![id] = new] /\ graph.fact \in [Id -> Known]
        /\ graph'.fact \in [Id -> Known]
    BY <1>1 DEF Graph, Sound
  <1>3. SUFFICES ASSUME NEW c \in Classes(graph), graph'.fact[c] # None,
                        \A i \in changed' : Find(graph, i) = c =>
                          LiteralNode(graph'.fact[c]) \in graph.nodes[c]
                 PROVE  c \in Firm
    BY <1>2 DEF Firm, Classes, Made, Find
  <1>4. c \in Id /\ graph.leader[c] = c
    BY <1>1, MadeIds DEF Classes
  <1>5. graph'.fact[c] = graph.fact[c]
    <2>1. CASE c # id
      BY <1>2, <2>1
    <2>2. CASE c = id /\ ~ Tells(id, new)
      BY <1>2, <1>4, <2>2 DEF Tells
    <2>3. CASE c = id /\ Tells(id, new)
      <3>1. LiteralNode(new) \in graph.nodes[id] /\ new # None /\ new \in Known
        BY <1>1, <1>2, <1>3, <1>4, <2>3 DEF Find
      <3>2. LiteralNode(new).op = new /\ new \in Number
        BY <3>1, NumberNode DEF Known
      <3>3. graph.fact[id] # None
        BY <1>4, <2>3, <3>1, <3>2 DEF LiteralsStand
      <3>4. graph.fact[id] = value[id] /\ graph'.fact[id] = value[id]
        BY <1>1, <1>3, <1>4, <2>3, <3>3 DEF Sound, FactsAgree
      <3> QED
        BY <2>3, <3>4
    <2> QED
      BY <2>1, <2>2, <2>3
  <1>6. changed \subseteq changed'
    BY <1>1
  <1> QED
    BY <1>3, <1>5, <1>6 DEF Firm

LEMMA SameTidy ==
  ASSUME NEW g, Tidy(g), NEW h, SameTerms(g, h), h.memo = g.memo, h.pending = g.pending
  PROVE  Tidy(h)
  <1>1. Classes(h) = Classes(g) /\ NodesAreForms(h)
    BY SameTermsStay DEF Tidy
  <1> QED
    BY <1>1 DEF Tidy, SameTerms

LEMMA SameUntouched ==
  ASSUME SInv, SInv', Untouched, UNCHANGED <<problem, banned, pass, before, todo>>,
         SameTerms(graph, graph'), graph'.memo = graph.memo, graph'.pending = graph.pending,
         Firm' \subseteq Firm, phase' \in {"facts", "modify"}, graph'.learned = {}
  PROVE  Untouched'
  <1>1. Tidy(graph') /\ Classes(graph') = Classes(graph) /\ Extent(graph') = Extent(graph)
    BY SameTidy, SameTermsStay DEF Untouched
  <1>2. ClosedFor'
    BY <1>1, ClosedStays DEF Untouched, SameTerms
  <1> QED
    BY <1>1, <1>2 DEF Untouched

\* A step of such a rebuild leaves the terms alone or shows in the extent,
LEMMA UntouchedStep ==
  ASSUME SInv, SInv', Orderly, Orderly', Untouched, Counters, RebuildStep,
         UNCHANGED <<problem, banned, pass, before>>
  PROVE  /\ Untouched' \/ Touched'
         /\ Idling => Untouched' /\ Idling'
  <1> USE DEF SInv, IInv, TypeOK
  <1>0. /\ graph \in Graph /\ graph' \in Graph /\ Sound(graph, value) /\ IInv /\ IInv'
        /\ LiteralsStand(graph) /\ graph.pending = {} /\ todo = {} /\ left = {}
        /\ phase \in {"congruence", "facts", "modify", "clean"}
    BY DEF Untouched, Tidy, Orderly, CInv, RepairsOrder
  <1>1. ~ TakePending /\ ~ (\E i \in todo : BeginRepair(i)) /\ ~ EndRepair
        /\ ~ (\E p \in left : RepairParent(p))
    BY <1>0 DEF TakePending, EndRepair
  <1>2. CASE BeginFacts
    <2>1. /\ phase = "congruence" /\ phase' = "facts" /\ changed' = {} /\ changed = {}
          /\ graph' = [graph EXCEPT !.learned = {}] /\ UNCHANGED todo
          /\ queue' = Increasing({Find(graph, i) : i \in graph.learned})
      BY <1>2 DEF BeginFacts, Congruent, Orderly
    <2>2. /\ SameTerms(graph, graph') /\ graph'.memo = graph.memo /\ graph'.pending = graph.pending
          /\ graph'.fact = graph.fact /\ graph'.learned = {}
      BY <1>0, <2>1 DEF Graph, SameTerms
    <2>3. Firm' \subseteq Firm
      BY <2>1, <2>2, SameTermsStay DEF Firm, SameTerms
    <2>4. Untouched'
      BY <2>1, <2>2, <2>3, SameUntouched
    <2>5. Idling => Idling'
      <3> SUFFICES ASSUME Idling PROVE queue' = <<>>
        BY <2>1, <2>2 DEF Idling
      <3>1. queue' = Increasing({})
        <4>1. {Find(graph, i) : i \in graph.learned} = {}
          BY DEF Idling
        <4> QED
          BY <2>1, <4>1
      <3>2. Lists(Increasing({}), {})
        BY IncreasingLists, FS_EmptySet
      <3>3. Cardinality({}) = 0
        BY FS_EmptySet
      <3> QED
        BY <3>1, <3>2, <3>3 DEF Lists
    <2> QED
      BY <2>4, <2>5
  <1>3. ASSUME NEW order, queue # <<>>, PopClass(order) PROVE Untouched' /\ ~ Idling
    <2>1. /\ phase = "facts" /\ phase' = "facts" /\ UNCHANGED todo
          /\ graph' = [graph EXCEPT !.fact = [graph.fact EXCEPT ![Last(queue)] =
                         Recomputed(graph, Last(queue))]]
      BY <1>3 DEF PopClass
    <2>2. /\ SameTerms(graph, graph') /\ graph'.memo = graph.memo /\ graph'.pending = graph.pending
          /\ graph'.learned = graph.learned
      BY <1>0, <2>1 DEF Graph, SameTerms
    <2>3. Firm' \subseteq Firm
      BY <1>0, <1>3, PopStaysFirm
    <2>4. graph.learned = {}
      BY <2>1 DEF Untouched
    <2> QED
      BY <1>3, <2>1, <2>2, <2>3, <2>4, SameUntouched DEF Idling
  <1>4. CASE EndFacts
    <2>1. /\ phase = "facts" /\ phase' = "modify" /\ UNCHANGED <<todo, graph, changed>>
          /\ queue' = <<>>
      BY <1>4 DEF EndFacts
    <2>2. graph.learned = {} /\ Firm' \subseteq Firm /\ SameTerms(graph, graph')
      BY <2>1 DEF Untouched, Firm, SameTerms
    <2> QED
      BY <2>1, <2>2, SameUntouched DEF Idling
  <1>5. ASSUME NEW id \in changed, Modify(id) PROVE (Untouched' \/ Touched') /\ ~ Idling
    <2>1. /\ phase = "modify" /\ phase' = "modify" /\ UNCHANGED todo /\ changed' = changed \ {id}
      BY <1>5 DEF Modify
    <2>2. \/ Shrinks(graph, graph') \/ Grows(graph, graph')
          \/ /\ graph' = graph
             /\ LET c == graph.fact[graph.leader[id]]
                IN  c = None \/ LiteralNode(c) \in graph.nodes[graph.leader[id]]
      BY <1>0, <1>5, ModifyCounts
    <2>3. before[1] = Spread(graph) /\ before[2] = Nodes(graph) /\ Nodes(graph) \in Nat
      BY <1>0, ExtentIsNat DEF Untouched
    <2> HIDE DEF SInv, IInv, TypeOK
    <2>4. CASE Shrinks(graph, graph')
      BY <1>5, <2>3, <2>4 DEF Shrinks, Touched, Idling
    <2>5. CASE Grows(graph, graph')
      BY <1>5, <2>3, <2>5 DEF Grows, Touched, Untouched, Tidy, Idling
    <2>6. CASE /\ graph' = graph
               /\ LET c == graph.fact[graph.leader[id]]
                  IN  c = None \/ LiteralNode(c) \in graph.nodes[graph.leader[id]]
      <3>1. Firm' \subseteq Firm
        <4> SUFFICES ASSUME NEW c \in Firm' PROVE c \in Firm
          OBVIOUS
        <4>1. /\ c \in Classes(graph) /\ graph.fact[c] # None
              /\ \A i \in changed' :
                   Find(graph, i) = c => LiteralNode(graph.fact[c]) \in graph.nodes[c]
          BY <2>6 DEF Firm
        <4>2. Find(graph, id) = c => LiteralNode(graph.fact[c]) \in graph.nodes[c]
          BY <2>6, <4>1 DEF Find
        <4> QED
          BY <2>1, <4>1, <4>2 DEF Firm
      <3>2. graph.learned = {} /\ SameTerms(graph, graph')
        BY <2>1, <2>6 DEF Untouched, SameTerms
      <3>3. Untouched'
        BY <2>1, <2>6, <3>1, <3>2, SameUntouched
      <3> QED
        BY <1>5, <3>3 DEF Idling
    <2> QED
      BY <1>5, <2>2, <2>4, <2>5, <2>6 DEF Idling
  <1>6. ~ NextRound
    BY <1>0 DEF NextRound, Pending, Untouched
  <1>7. CASE Finish
    <2>1. /\ phase = "modify" /\ phase' = "clean" /\ graph' = Reindexed(graph)
          /\ changed = {} /\ UNCHANGED <<todo, changed, queue>>
      <3>1. phase = "modify"
        <4> SUFFICES ASSUME phase = "congruence", rounds > MaxRounds PROVE FALSE
          BY <1>7 DEF Finish, Congruent
        <4>1. rounds <= MaxRounds /\ rounds \in Nat /\ MaxRounds \in Nat
          BY BoundsAreFinite DEF Untouched
        <4> QED
          BY <4>1
      <3> QED
        BY <1>7, <3>1 DEF Finish, Congruent
    <2>2. /\ graph'.leader = graph.leader /\ graph'.fact = graph.fact
          /\ graph'.learned = graph.learned
      BY <1>0, <2>1, ReindexedParts
    <2>3. /\ Classes(graph') = Classes(graph) /\ Extent(graph') = Extent(graph)
          /\ \A c \in Classes(graph) : graph'.nodes[c] = graph.nodes[c]
      BY <1>0, <2>1, ReindexedStays DEF Untouched, Tidy
    <2>4. Firm' \subseteq Firm
      BY <2>1, <2>2, <2>3 DEF Firm
    <2>5. ClosedFor'
      BY <2>2, <2>3, <2>4, ClosedStays DEF Untouched
    <2>6. Tidy(graph') /\ graph.learned = {}
      BY <2>1 DEF Orderly, Untouched
    <2> QED
      BY <2>1, <2>2, <2>3, <2>5, <2>6 DEF Untouched, Idling
  <1> QED
    BY <1>1, <1>2, <1>3, <1>4, <1>5, <1>6, <1>7 DEF RebuildStep

\* and what has once shown is not undone.
LEMMA TouchedStep ==
  ASSUME SInv, SInv', Orderly, Counters, Touched, RebuildStep, UNCHANGED before
  PROVE  Touched'
  <1>1. /\ graph \in Graph /\ graph' \in Graph /\ FiniteNodes(graph) /\ FiniteNodes(graph')
        /\ before[1] \in Nat /\ before[2] \in Nat
    BY DEF SInv, IInv, TypeOK, Counters
  <1>2. /\ Spread(graph) \in Nat /\ Spread(graph') \in Nat
        /\ Nodes(graph) \in Nat /\ Nodes(graph') \in Nat
    BY <1>1, ExtentIsNat
  <1>3. Counts(graph, graph')
    BY RebuildCounts DEF SInv, Orderly
  <1>4. CASE Shrinks(graph, graph')
    BY <1>1, <1>2, <1>4 DEF Shrinks, Touched
  <1>5. CASE Grows(graph, graph')
    BY <1>1, <1>2, <1>5 DEF Grows, Touched
  <1>6. CASE SameTerms(graph, graph')
    <2>1. /\ Spread(graph') = Spread(graph) /\ Nodes(graph') = Nodes(graph)
          /\ NodesAreForms(graph) => NodesAreForms(graph')
      BY <1>6, SameTermsStay DEF Spread, Nodes
    <2> QED
      BY <2>1 DEF Touched
  <1>7. CASE graph' = Reindexed(graph)
    <2>1. Spread(graph') = Spread(graph)
      BY <1>1, <1>7, ReindexedParts DEF Spread
    <2>2. NodesAreForms(graph) => Extent(graph') = Extent(graph) /\ NodesAreForms(graph')
      BY <1>1, <1>7, ReindexedStays
    <2>3. Nodes(graph) = Extent(graph)[2] /\ Nodes(graph') = Extent(graph')[2]
      BY <1>1, ExtentIsNat
    <2> QED
      BY <2>1, <2>2, <2>3 DEF Touched
  <1> QED
    BY <1>3, <1>4, <1>5, <1>6, <1>7 DEF Counts

----------------------------------------------------------------------------
(* A pass that has joined nothing yet.                                      *)

\* A match that was found is still to apply.
Waits(r, m) == \E k \in DOMAIN found : found[k].rule = r /\ m \in ToSet(found[k].matches)

\* A match whose right side is in its class, if its condition holds.
Served(r, m) ==
  Holds(graph, Rules[r].needs, m.subst) => Denotes(graph, Rules[r].rhs, m.subst, m.class)

\* While a pass searches nothing moves, and each rule that is not banned leaves what it
\* means among the matches that wait, unless some were cut off.
Searching ==
  step = "search" =>
    /\ Extent(graph) = before /\ unions = 0
    /\ \A r \in RuleIds : r < rule =>
         unseen \/ banned[r].until > pass \/ \A m \in Meanings(graph, Rules[r].lhs) : Waits(r, m)

\* Out of budget, or about to say so.
LastPass == exhausted # None \/ (found # <<>> /\ found[1].matches = <<>> /\ Spent # None)

\* While a pass applies and has joined nothing, the graph is as it was searched, and every
\* match waits or is served, unless time or nodes have run out.
Applying ==
  step = "apply" /\ unions = 0 /\ ~ unseen =>
    /\ phase = "clean" /\ Extent(graph) = before
    /\ \/ LastPass
       \/ \A r \in RuleIds :
            \/ banned[r].until > pass
            \/ \A m \in Meanings(graph, Rules[r].lhs) : Waits(r, m) \/ Served(r, m)

\* Right sides that join nothing were in their classes.
LEMMA ApplyMatchSame ==
  ASSUME SInv, Counters, ApplyMatch, unions' = unions
  PROVE  LET r == Rules[found[1].rule]
             m == found[1].matches[1]
         IN  /\ graph' = graph /\ phase' = phase
             /\ Tidy(graph) /\ m \in Meanings(graph, r.lhs) /\ Holds(graph, r.needs, m.subst) =>
                  Denotes(graph, r.rhs, m.subst, m.class)
  <1> DEFINE k == found[1].rule
             r == Rules[k]
             m == found[1].matches[1]
  <1>1. /\ k \in RuleIds
        /\ \/ ~ Holds(graph, r.needs, m.subst) /\ graph' = graph /\ phase' = phase
           \/ \E x : Joins(x, r, k, m) /\ Builds(x, r, m)
    BY ApplyMatchJoins
  <1>2. HolesOf(r.rhs) \subseteq HolesOf(r.lhs)
    BY <1>1, RulesInUse
  <1>3. graph \in Graph /\ Sound(graph, value) /\ unions \in Nat
    BY DEF SInv, IInv, TypeOK, Counters
  <1> HIDE DEF k, r, m
  <1>4. ASSUME NEW x, Joins(x, r, k, m), Builds(x, r, m)
        PROVE  /\ graph' = graph /\ phase' = phase
               /\ Tidy(graph) /\ m \in Meanings(graph, r.lhs) => Denotes(graph, r.rhs, m.subst, m.class)
    <2> DEFINE g == x.graph
               c == Last(x.ids)
    <2>1. /\ Stands(x, Values, repairing) /\ GoesOn(x, Begun) /\ c \in Made(g)
          /\ m.class \in Made(g) /\ graph' = United(g, m.class, c, RuleOf(k))
          /\ phase' = IF graph' = graph THEN phase ELSE "dirty"
      BY <1>4 DEF Joins, Applies
    <2>2. graph' = g
      <3>1. unions' = unions + (IF graph' = g THEN 0 ELSE 1)
        BY <1>4 DEF Builds
      <3> QED
        BY <1>3, <3>1
    <2>3. Sound(g, x.value) /\ Forest(g) /\ g \in Graph /\ g.leader = graph.leader
      BY <2>1 DEF Stands, Build, Closed, GoesOn, Begun
    <2> HIDE DEF g, c
    <2>4. g.leader[m.class] = g.leader[c]
      <3>1. Spread(g) \in Nat
        BY <2>3, ClassesAreFew DEF Spread
      <3>2. ~ Shrinks(g, graph')
        BY <2>2, <3>1 DEF Shrinks
      <3> QED
        BY <2>1, <2>3, <3>2, UnitedShrinks
    <2>5. m.class \in Made(graph)
      BY <1>4 DEF Builds, MayApply, MatchHolds, Begun
    <2>6. c \in Made(graph)
      <3>1. c \in Id
        BY <2>1, <2>3, MadeIds
      <3> QED
        BY <1>3, <2>3, <2>4, <2>5, <3>1 DEF Sound, LeadersAgree
    <2>7. PICK v : MayBuild(Begun, r.rhs, m.subst, v, Values, repairing)
      BY <1>4, MatchMayBuild DEF Builds
    <2>8. x = Instantiated(Begun, r.rhs, m.subst) /\ Begun.graph = graph
      BY <1>4 DEF Builds, Begun
    <2>9. /\ g = graph
          /\ Tidy(graph) /\ (\A h \in HolesOf(r.rhs) : m.subst[h] \in Classes(graph)) =>
               c \in Classes(graph) /\ Denotes(graph, r.rhs, m.subst, c)
      BY <2>6, <2>7, <2>8, InstantiatedMirrors DEF g, c
    <2>10. ASSUME Tidy(graph), m \in Meanings(graph, r.lhs)
           PROVE  Denotes(graph, r.rhs, m.subst, m.class)
      <3>1. PICK d \in Classes(graph), s \in [HolesOf(r.lhs) -> Classes(graph)] :
              m = [class |-> d, subst |-> s]
        BY <2>10 DEF Meanings, AllMatches
      <3>2. m.class = d /\ m.subst = s
        BY <3>1
      <3>3. c \in Classes(graph) /\ Denotes(graph, r.rhs, m.subst, c)
        BY <1>2, <2>9, <2>10, <3>2
      <3>4. c = m.class
        BY <2>3, <2>4, <3>2, <3>3 DEF Classes
      <3> QED
        BY <3>3, <3>4
    <2> QED
      BY <2>1, <2>2, <2>9, <2>10
  <1> QED
    BY <1>1, <1>4 DEF k, r, m

\* The match that is applied is served.
LEMMA ApplyMatchApplies ==
  ASSUME SInv, Orderly, Counters, Applying, ApplyMatch
  PROVE  Applying'
  <1> DEFINE k == found[1].rule
             m == found[1].matches[1]
             rest == Tail(found[1].matches)
  <1> DEFINE stop == Budgeted(since + 1) = 0 /\ (late \/ Nodes(graph') > Limits.nodes)
  <1>0. /\ step = "apply" /\ found # <<>> /\ found[1].matches # <<>>
        /\ UNCHANGED <<problem, step, banned, pass, before, late, exhausted, unseen>>
    <2>1. step = "apply" /\ found # <<>> /\ found[1].matches # <<>>
      <3>1. step = "apply" /\ found # <<>> /\ Head(found).matches # <<>>
        BY DEF ApplyMatch
      <3>2. Head(found) = found[1]
        OBVIOUS
      <3> QED
        BY <3>1, <3>2
    <2>2. UNCHANGED <<problem, step, banned, pass, before, late, exhausted, unseen>>
      BY DEF ApplyMatch
    <2> QED
      BY <2>1, <2>2
  <1>1. /\ step = "apply" /\ found # <<>> /\ found[1].matches # <<>>
        /\ UNCHANGED <<problem, step, banned, pass, before, late, exhausted, unseen>>
        /\ unions' = unions + 0 \/ unions' = unions + 1
    <2>1. unions' = unions + 0 \/ unions' = unions + 1
      BY DEF ApplyMatch
    <2> QED
      BY <1>0, <2>1
  <1>2. /\ found' = [found EXCEPT ![1].matches = rest]
        \/ (found' = [found EXCEPT ![1].matches = <<>>] /\ Spent' # None)
    <2>1. Limits' = Limits /\ None # "time" /\ None # "nodes"
      BY <1>1, NoneIsNoReason DEF Limits
    <2>2. stop => Spent' # None
      BY <1>1, <2>1 DEF Spent
    <2>3. found' = [found EXCEPT ![1].matches = IF stop THEN <<>> ELSE Tail(@)]
      BY DEF ApplyMatch
    <2> HIDE DEF stop
    <2> QED
      BY <2>2, <2>3
  <1>3. SUFFICES ASSUME unions' = 0, ~ unseen PROVE Applying'
    BY <1>1 DEF Applying
  <1>4. unions = 0 /\ unions' = unions
    BY <1>1, <1>3 DEF Counters
  <1>5. /\ phase = "clean" /\ Extent(graph) = before
        /\ \/ LastPass
           \/ \A r \in RuleIds :
                \/ banned[r].until > pass
                \/ \A q \in Meanings(graph, Rules[r].lhs) : Waits(r, q) \/ Served(r, q)
    BY <1>1, <1>3, <1>4 DEF Applying
  <1>6. /\ graph' = graph /\ phase' = phase
        /\ m \in Meanings(graph, Rules[k].lhs) => Served(k, m)
    BY <1>4, <1>5, ApplyMatchSame DEF Orderly, Served
  <1>7. Rules' = Rules /\ RuleIds' = RuleIds
    BY <1>1 DEF Rules, RuleIds
  <1>8. found \in Seq(Piles(problem, graph, value)) /\ 1 \in DOMAIN found
    BY <1>1 DEF SInv
  <1>9. found[1] = [rule |-> k, matches |-> found[1].matches]
        /\ \E S : found[1].matches \in Seq(S)
    BY <1>8, PileParts
  <1>10. CASE exhausted # None
    BY <1>1, <1>5, <1>6, <1>10 DEF Applying, LastPass
  <1>11. CASE found' = [found EXCEPT ![1].matches = <<>>] /\ Spent' # None
    <2>1. found' # <<>> /\ found'[1].matches = <<>>
      BY <1>1, <1>8, <1>9, <1>11
    <2> QED
      BY <1>1, <1>5, <1>6, <1>11, <2>1 DEF Applying, LastPass
  <1>12. CASE exhausted = None /\ found' = [found EXCEPT ![1].matches = rest]
    <2>1. ASSUME NEW r \in RuleIds, ~ (banned[r].until > pass),
                 NEW q \in Meanings(graph, Rules[r].lhs)
          PROVE  Waits(r, q)' \/ Served(r, q)
      <3>1. Waits(r, q) \/ Served(r, q)
        BY <1>1, <1>5, <1>12, <2>1 DEF LastPass
      <3>2. SUFFICES ASSUME NEW j \in DOMAIN found, found[j].rule = r,
                            q \in ToSet(found[j].matches), ~ Served(r, q)
                     PROVE  Waits(r, q)'
        BY <3>1 DEF Waits
      <3>3. DOMAIN found' = DOMAIN found /\ \A i \in DOMAIN found : i # 1 => found'[i] = found[i]
        BY <1>8, <1>12
      <3>4. CASE j # 1
        BY <3>2, <3>3, <3>4 DEF Waits
      <3>5. CASE j = 1
        <4>1. found'[1].rule = k /\ found'[1].matches = rest /\ r = k
          BY <1>8, <1>9, <1>12, <3>2, <3>5
        <4>2. q # m
          BY <1>6, <2>1, <3>2, <4>1
        <4>3. PICK S : found[1].matches \in Seq(S)
          BY <1>9
        <4> DEFINE all == found[1].matches
        <4>4. PICK i \in DOMAIN all : q = all[i]
          BY <3>2, <3>5 DEF ToSet
        <4>5. i \in 2 .. Len(all) /\ i - 1 \in DOMAIN rest /\ rest[i - 1] = all[i]
          <5>1. all \in Seq(S) /\ rest = Tail(all) /\ all # <<>> /\ i # 1
            BY <1>1, <4>2, <4>3, <4>4
          <5> HIDE DEF all, rest
          <5> QED
            BY <4>4, <5>1
        <4>6. q \in ToSet(rest)
          BY <4>4, <4>5 DEF ToSet
        <4> QED
          BY <1>8, <3>3, <4>1, <4>6 DEF Waits
      <3> QED
        BY <3>4, <3>5
    <2>2. ASSUME NEW r, NEW q PROVE Served(r, q)' <=> Served(r, q)
      BY <1>6, <1>7 DEF Served
    <2> QED
      BY <1>1, <1>5, <1>6, <1>7, <2>1, <2>2 DEF Applying
  <1> QED
    BY <1>2, <1>10, <1>11, <1>12

\* The search of a rule leaves all its meanings waiting, or bans it.
LEMMA SearchRuleSearches ==
  ASSUME SInv, Counters, Searching, SearchRule
  PROVE  Searching'
  <1> DEFINE got == SearchCapped(graph, Rules[rule].lhs, Limits)
             over == Len(got.found) > Threshold(rule)
             entry == IF over \/ got.found = <<>> THEN <<>>
                      ELSE <<[rule |-> rule, matches |-> got.found]>>
             all == Meanings(graph, Rules[rule].lhs)
  <1>1. /\ step = "search" /\ rule \in RuleIds /\ rule' = rule + 1
        /\ found' = found \o entry
        /\ banned' = IF over
                     THEN [banned EXCEPT ![rule] =
                             [until |-> pass + BanLength(rule), times |-> @.times + 1]]
                     ELSE banned
        /\ unseen' = (unseen \/ got.cut \/ got.short \/ (over /\ BanLength(rule) = 0))
        /\ UNCHANGED <<graph, problem, step, pass, unions, before>>
    BY DEF SearchRule, vars
  <1>2. MatchesAreMeant
    <2>1. IsRule(Rules[rule]) /\ IsLimits(Limits) /\ Proper(graph)
      BY <1>1, RulesAreRules, SoundIsProper DEF SInv, IInv, CInv, Closed, Rules, RuleIds, Limits
    <2> QED
      BY <2>1, SearchFindsMeanings DEF IsRule, IsLimits, MatchesAreMeant, IsExact
  <1>3. ~ got.cut /\ ~ got.short => ToSet(got.found) = all
    BY <1>1, <1>2 DEF MatchesAreMeant, IsExact
  <1>4. BanLength(rule) \in Nat /\ pass \in Nat /\ rule \in Nat
        /\ banned \in [RuleIds -> [until : Nat, times : Nat]]
    BY <1>1, BansCount DEF Counters
  <1>5. Rules' = Rules /\ RuleIds' = RuleIds /\ \E S : found \in Seq(S)
    BY <1>1 DEF Rules, RuleIds, SInv
  <1>6. RuleIds \subseteq Nat
    BY ProblemsAreRules DEF SInv, RuleIds, Rules
  <1> HIDE DEF got, over, all
  <1>7. DOMAIN found \subseteq DOMAIN found' /\ \A k \in DOMAIN found : found'[k] = found[k]
    <2>1. entry \in Seq({[rule |-> rule, matches |-> got.found]})
      <3> DEFINE e == [rule |-> rule, matches |-> got.found]
      <3>1. entry = <<>> \/ entry = <<e>>
        OBVIOUS
      <3> HIDE DEF e, entry
      <3>2. <<>> \in Seq({e}) /\ <<e>> \in Seq({e})
        OBVIOUS
      <3> QED
        BY <3>1, <3>2 DEF e
    <2> HIDE DEF entry
    <2>2. PICK S : found \in Seq(S)
      BY <1>5
    <2> QED
      BY <1>1, <2>1, <2>2
  <1>8. \A r, m : Waits(r, m) => Waits(r, m)'
    BY <1>7 DEF Waits
  <1>9. ASSUME NEW r \in RuleIds, r < rule'
        PROVE  \/ unseen' \/ banned'[r].until > pass
               \/ \A m \in Meanings(graph, Rules[r].lhs) : Waits(r, m)'
    <2>1. CASE r # rule
      <3>1. r < rule /\ banned'[r] = banned[r]
        BY <1>1, <1>4, <1>6, <1>9, <2>1
      <3> QED
        BY <1>1, <1>8, <3>1 DEF Searching
    <2>2. CASE r = rule /\ ~ unseen' /\ over
      <3>1. banned'[rule].until = pass + BanLength(rule) /\ BanLength(rule) # 0
        BY <1>1, <1>4, <2>2
      <3> QED
        BY <1>4, <2>2, <3>1
    <2>3. CASE r = rule /\ ~ unseen' /\ ~ over
      <3>1. ToSet(got.found) = all
        BY <1>1, <1>3, <2>3
      <3>2. CASE got.found = <<>>
        <4>1. ToSet(got.found) = {}
          BY <3>2 DEF ToSet
        <4> QED
          BY <2>3, <3>1, <4>1 DEF all
      <3>3. CASE got.found # <<>>
        <4> DEFINE e == [rule |-> rule, matches |-> got.found]
        <4>1. found' = found \o <<e>>
          BY <1>1, <2>3, <3>3
        <4>2. e.rule = rule /\ e.matches = got.found
          OBVIOUS
        <4> HIDE DEF e
        <4>3. PICK S : found \in Seq(S)
          BY <1>5
        <4>4. Len(found) + 1 \in DOMAIN found' /\ found'[Len(found) + 1] = e
          BY <4>1, <4>3
        <4>5. \A m \in all : Waits(r, m)'
          BY <2>3, <3>1, <4>2, <4>4 DEF Waits
        <4> QED
          BY <2>3, <4>5 DEF all
      <3> QED
        BY <3>2, <3>3
    <2> QED
      BY <2>1, <2>2, <2>3
  <1> QED
    BY <1>1, <1>5, <1>9 DEF Searching

LEMMA SearchingStays ==
  ASSUME SInv, Counters, Searching, [RNext]_allVars
  PROVE  Searching'
  <1>1. CASE SearchRule
    BY <1>1, SearchRuleSearches
  <1>2. CASE BeginPass
    <2>1. SUFFICES ASSUME step' = "search" PROVE Searching'
      BY DEF Searching
    <2>2. rule' = 1 /\ unions' = 0 /\ before' = Extent(graph) /\ UNCHANGED <<graph, problem>>
      BY <1>2, <2>1 DEF BeginPass, Stop, vars
    <2>3. \A r \in RuleIds' : ~ (r < 1)
      <3>1. RuleIds' \subseteq Nat \ {0}
        BY <2>2, ProblemsAreRules DEF SInv, RuleIds, Rules
      <3> QED
        BY <3>1
    <2> QED
      BY <2>2, <2>3 DEF Searching
  <1>3. CASE SkipBanned
    <2>1. /\ step = "search" /\ rule \in RuleIds /\ rule' = rule + 1 /\ pass < banned[rule].until
          /\ UNCHANGED <<graph, problem, step, pass, unions, before, banned, found, unseen>>
      BY <1>3 DEF SkipBanned, vars
    <2>2. Rules' = Rules /\ RuleIds' = RuleIds /\ RuleIds \subseteq Nat
      BY <2>1, ProblemsAreRules DEF SInv, RuleIds, Rules
    <2>3. \A r \in RuleIds : r < rule' => r < rule \/ banned[r].until > pass
      <3>1. pass \in Nat /\ banned[rule].until \in Nat
        BY <2>1 DEF Counters
      <3> QED
        BY <2>1, <2>2, <3>1
    <2>4. \A r, m : Waits(r, m)' <=> Waits(r, m)
      BY <2>1 DEF Waits
    <2> QED
      BY <2>1, <2>2, <2>3, <2>4 DEF Searching
  <1>4. CASE UNCHANGED <<graph, problem, step, pass, rule, unions, before, banned, found, unseen>>
    <2>1. Rules' = Rules /\ RuleIds' = RuleIds
      BY <1>4 DEF RuleIds, Rules
    <2>2. \A r, m : Waits(r, m)' <=> Waits(r, m)
      BY <1>4 DEF Waits
    <2> QED
      BY <1>4, <2>1, <2>2 DEF Searching
  <1>5. CASE TimePasses \/ UNCHANGED allVars
    BY <1>4, <1>5 DEF TimePasses, allVars, runVars, vars
  <1>6. CASE step' # "search"
    BY <1>6 DEF Searching
  <1>7. \/ SearchRule \/ BeginPass \/ SkipBanned \/ TimePasses \/ UNCHANGED allVars
        \/ step' # "search"
    BY DEF RNext, Loop, Begin, EndSearch, ApplyMatch, EndRule, EndApply, RebuildOn, Rebuilding,
           EndPass, Stop, NextPass, Done, Ended, runVars
  <1> QED
    BY <1>1, <1>2, <1>3, <1>5, <1>6, <1>7

LEMMA ApplyingStays ==
  ASSUME SInv, Orderly, Counters, Searching, Applying, [RNext]_allVars
  PROVE  Applying'
  <1>1. CASE ApplyMatch
    BY <1>1, ApplyMatchApplies
  <1>2. CASE EndSearch
    <2>1. SUFFICES ASSUME unions' = 0, ~ unseen' PROVE Applying'
      BY DEF Applying
    <2>2. /\ step = "search" /\ (rule \notin RuleIds \/ Spent # None)
          /\ exhausted' = IF rule \in RuleIds THEN Spent ELSE None
          /\ UNCHANGED <<graph, phase, problem, found, unions, before, banned, pass, unseen>>
      BY <1>2 DEF EndSearch, vars
    <2>3. phase = "clean" /\ Extent(graph) = before
      <3>1. phase = "clean"
        BY <2>2 DEF SInv, StepOrder
      <3> QED
        BY <2>2, <3>1 DEF Searching
    <2>4. CASE rule \in RuleIds
      BY <2>1, <2>2, <2>3, <2>4 DEF Applying, LastPass
    <2>5. CASE rule \notin RuleIds
      <3>1. \A r \in RuleIds : r < rule
        <4>1. Rules \in Seq(Range(Rules)) /\ rule \in Nat \ {0}
          BY ProblemsAreRules DEF SInv, Rules, Counters
        <4> QED
          BY <2>5, <4>1 DEF RuleIds
      <3>2. Rules' = Rules /\ RuleIds' = RuleIds
        BY <2>2 DEF RuleIds, Rules
      <3>3. \A r, m : Waits(r, m)' <=> Waits(r, m)
        BY <2>2 DEF Waits
      <3>4. \A r \in RuleIds :
              banned[r].until > pass \/ \A m \in Meanings(graph, Rules[r].lhs) : Waits(r, m)
        BY <2>1, <2>2, <3>1 DEF Searching
      <3> QED
        BY <2>2, <2>3, <3>2, <3>3, <3>4 DEF Applying
    <2> QED
      BY <2>4, <2>5
  <1>3. CASE EndRule
    <2>1. SUFFICES ASSUME unions' = 0, ~ unseen' PROVE Applying'
      BY DEF Applying
    <2>2. /\ step = "apply" /\ found # <<>> /\ found[1].matches = <<>>
          /\ UNCHANGED <<graph, phase, problem, unions, before, banned, pass, unseen>>
      BY <1>3 DEF EndRule, vars
    <2>3. /\ phase = "clean" /\ Extent(graph) = before
          /\ \/ LastPass
             \/ \A r \in RuleIds :
                  \/ banned[r].until > pass
                  \/ \A q \in Meanings(graph, Rules[r].lhs) : Waits(r, q) \/ Served(r, q)
      BY <2>1, <2>2 DEF Applying
    <2>4. None # "nodes" /\ None # "time"
      BY NoneIsNoReason
    <2>5. \/ exhausted' # None
          \/ exhausted' = exhausted /\ Spent = None /\ found' = Tail(found)
      BY <1>3, <2>4 DEF EndRule
    <2>6. CASE exhausted' # None
      BY <2>1, <2>2, <2>3, <2>6 DEF Applying, LastPass
    <2>7. CASE exhausted' = None
      <3>1. exhausted = None /\ Spent = None /\ found' = Tail(found)
        BY <2>5, <2>7
      <3>2. PICK S : found \in Seq(S)
        BY DEF SInv
      <3>3. ASSUME NEW r, NEW m, Waits(r, m) PROVE Waits(r, m)'
        <4>1. PICK k \in DOMAIN found : found[k].rule = r /\ m \in ToSet(found[k].matches)
          BY <3>3 DEF Waits
        <4>2. k # 1
          BY <2>2, <4>1 DEF ToSet
        <4>3. k - 1 \in DOMAIN found' /\ found'[k - 1] = found[k]
          BY <2>2, <3>1, <3>2, <4>1, <4>2
        <4> QED
          BY <4>1, <4>3 DEF Waits
      <3>4. Rules' = Rules /\ RuleIds' = RuleIds
        BY <2>2 DEF RuleIds, Rules
      <3>5. \A r, m : Served(r, m)' <=> Served(r, m)
        BY <2>2, <3>4 DEF Served
      <3> QED
        BY <2>1, <2>2, <2>3, <3>1, <3>3, <3>4, <3>5 DEF Applying, LastPass
    <2> QED
      BY <2>6, <2>7
  <1>4. CASE /\ UNCHANGED <<graph, phase, problem, step, found, unions, before, banned, pass, unseen,
                            exhausted>>
             /\ late' = late \/ late'
    <2>1. Rules' = Rules /\ RuleIds' = RuleIds /\ Limits' = Limits
      BY <1>4 DEF RuleIds, Rules, Limits
    <2>2. (\A r, m : Waits(r, m)' <=> Waits(r, m)) /\ (\A r, m : Served(r, m)' <=> Served(r, m))
      BY <1>4, <2>1 DEF Waits, Served
    <2>3. Spent # None => Spent' # None
      BY <1>4, <2>1, NoneIsNoReason DEF Spent
    <2>4. LastPass => LastPass'
      BY <1>4, <2>3 DEF LastPass
    <2> QED
      BY <1>4, <2>1, <2>2, <2>4 DEF Applying
  <1>5. CASE TimePasses \/ UNCHANGED allVars
    BY <1>4, <1>5 DEF TimePasses, allVars, runVars, vars
  <1>6. CASE step' # "apply"
    BY <1>6 DEF Applying
  <1>7. \/ ApplyMatch \/ EndSearch \/ EndRule \/ TimePasses \/ UNCHANGED allVars
        \/ step' # "apply"
    BY DEF RNext, Loop, Begin, BeginPass, SearchRule, SkipBanned, EndApply, RebuildOn, Rebuilding,
           EndPass, Stop, NextPass, Done, Ended, runVars
  <1> QED
    BY <1>1, <1>2, <1>3, <1>5, <1>6, <1>7

\* After a pass that joined nothing the rebuild has touched nothing, or it shows.
Quiet ==
  step = "rebuild" /\ unions = 0 /\ ~ unseen /\ exhausted = None => Untouched \/ Touched

\* What a run that calls itself saturated has left.
Final ==
  step \in {"last", "done"} /\ reason = "saturated" /\ ~ unseen =>
    Untouched /\ Idling /\ StillBanned = {}

\* Without a union, and with time and nodes left, every match was served.
LEMMA EndApplyQuiet ==
  ASSUME SInv, Orderly, Applying, EndApply
  PROVE  Quiet'
  <1>1. /\ step = "apply" /\ found = <<>> /\ phase' = "congruence" /\ rounds' = 0
        /\ UNCHANGED <<graph, todo, changed, problem, unions, before, banned, pass, unseen, exhausted>>
    BY DEF EndApply, Rebuild
  <1>2. SUFFICES ASSUME unions = 0, ~ unseen, exhausted = None PROVE Untouched'
    BY <1>1 DEF Quiet
  <1>3. /\ phase = "clean" /\ Extent(graph) = before
        /\ \/ LastPass
           \/ \A r \in RuleIds :
                \/ banned[r].until > pass
                \/ \A q \in Meanings(graph, Rules[r].lhs) : Waits(r, q) \/ Served(r, q)
    BY <1>1, <1>2 DEF Applying
  <1>4. ~ LastPass /\ \A r, q : ~ Waits(r, q)
    BY <1>1, <1>2 DEF LastPass, Waits
  <1>5. Tidy(graph) /\ todo = {}
    BY <1>3 DEF Orderly, SInv, CInv, RepairsOrder
  <1>6. Rules' = Rules /\ RuleIds' = RuleIds
    BY <1>1 DEF Rules, RuleIds
  <1>7. ClosedFor'
    <2> SUFFICES ASSUME NEW r \in RuleIds, ~ (banned[r].until > pass),
                        NEW m \in Meanings(graph, Rules[r].lhs),
                        \A h \in Rules[r].needs : Find(graph, m.subst[h]) \in Firm'
                 PROVE  Denotes(graph, Rules[r].rhs, m.subst, m.class)
      BY <1>1, <1>6 DEF ClosedFor, Answered
    <2>1. Served(r, m)
      BY <1>3, <1>4
    <2>2. \A c \in Firm' : graph.fact[c] # None
      BY <1>1 DEF Firm
    <2>3. Holds(graph, Rules[r].needs, m.subst)
      BY <2>2 DEF Holds
    <2> QED
      BY <2>1, <2>3 DEF Served
  <1>8. rounds' <= MaxRounds
    BY <1>1, BoundsAreFinite
  <1> QED
    BY <1>1, <1>3, <1>5, <1>7, <1>8 DEF Untouched

\* A run is called saturated when the extent is the one before the pass and no rule is
\* banned (run_inner, can_stop).
LEMMA SaturatedStops ==
  ASSUME SInv, Orderly, Counters, Quiet, step = "rebuild", phase = "clean",
         exhausted = None, ~ Progressed, CanStop, Stop("saturated")
  PROVE  Final'
  <1>1. /\ phase' = "congruence" /\ rounds' = 0
        /\ UNCHANGED <<graph, todo, changed, queue, problem, before, banned, pass, unseen>>
    BY DEF Stop, Rebuild
  <1>2. SUFFICES ASSUME ~ unseen PROVE Untouched' /\ Idling' /\ StillBanned' = {}
    BY <1>1 DEF Final
  <1>3. unions = 0 /\ Extent(graph) = before
    BY DEF Progressed, Counters
  <1>4. ~ Touched
    <2>1. graph \in Graph /\ FiniteNodes(graph)
      BY DEF SInv, IInv, TypeOK
    <2>2. Spread(graph) \in Nat /\ Nodes(graph) \in Nat /\ before[1] = Spread(graph)
          /\ before[2] = Nodes(graph)
      BY <1>3, <2>1, ExtentIsNat
    <2> QED
      BY <2>2 DEF Touched
  <1>5. Untouched
    BY <1>2, <1>3, <1>4 DEF Quiet
  <1>6. changed = {} /\ queue = <<>> /\ graph.learned = {}
    BY <1>5 DEF Orderly, Untouched
  <1>7. Rules' = Rules /\ RuleIds' = RuleIds
    BY <1>1 DEF Rules, RuleIds
  <1>8. StillBanned' = {}
    BY <1>1, <1>7 DEF CanStop, StillBanned
  <1>9. ClosedFor'
    <2>1. Firm' = Firm
      BY <1>1 DEF Firm
    <2> QED
      BY <1>1, <1>5, <1>7, <2>1 DEF Untouched, ClosedFor, Answered
  <1>10. rounds' <= MaxRounds
    BY <1>1, BoundsAreFinite
  <1> QED
    BY <1>1, <1>5, <1>6, <1>8, <1>9, <1>10 DEF Untouched, Idling

\* The last rebuild finds nothing to do.
LEMMA RebuildStaysQuiet ==
  ASSUME SInv, SInv', Orderly, Orderly', Counters, Quiet, Final, RebuildOn
  PROVE  Quiet' /\ Final'
  <1>1. RebuildStep /\ UNCHANGED <<problem, banned, pass, before, step, unions, unseen, exhausted, reason>>
    BY RebuildOnIsStep DEF RebuildOn, runVars
  <1>2. Quiet'
    BY <1>1, UntouchedStep, TouchedStep DEF Quiet
  <1>3. Final'
    <2>1. StillBanned' = StillBanned
      BY <1>1 DEF StillBanned, RuleIds, Rules
    <2> QED
      BY <1>1, <2>1, UntouchedStep DEF Final
  <1> QED
    BY <1>2, <1>3

LEMMA QuietStays ==
  ASSUME SInv, SInv', Orderly, Orderly', Counters, Applying, Quiet, Final, [RNext]_allVars
  PROVE  Quiet' /\ Final'
  <1>1. CASE RebuildOn
    BY <1>1, RebuildStaysQuiet
  <1>2. CASE EndApply
    BY <1>2, EndApplyQuiet DEF Final, EndApply
  <1>3. CASE UNCHANGED <<vars, problem, banned, pass, before, unions, unseen, exhausted, reason>>
             /\ (step' = step \/ (step = "last" /\ step' = "done"))
    <2>1. /\ UNCHANGED <<graph, phase, rounds, todo, changed, queue, Rules, RuleIds>>
      BY <1>3 DEF vars, rebuildVars, Rules, RuleIds
    <2>2. Firm' = Firm /\ StillBanned' = StillBanned
      BY <1>3, <2>1 DEF Firm, StillBanned
    <2>3. ClosedFor' <=> ClosedFor
      BY <1>3, <2>1, <2>2 DEF ClosedFor, Answered
    <2>4. (Untouched' <=> Untouched) /\ (Touched' <=> Touched) /\ (Idling' <=> Idling)
      BY <1>3, <2>1, <2>3 DEF Untouched, Touched, Idling
    <2> QED
      BY <1>3, <2>2, <2>4 DEF Quiet, Final
  <1>4. CASE Done \/ Ended \/ UNCHANGED allVars
    BY <1>3, <1>4 DEF Done, Ended, allVars, runVars
  <1>5. CASE EndPass
    <2>1. /\ step = "rebuild" /\ phase = "clean"
          /\ \/ exhausted # None /\ Stop(exhausted)
             \/ NextPass
             \/ exhausted = None /\ ~ Progressed /\ CanStop /\ Stop("saturated")
      BY <1>5 DEF EndPass
    <2>2. step' # "rebuild"
      BY <2>1 DEF Stop, NextPass
    <2>3. CASE exhausted # None /\ Stop(exhausted)
      <3>1. reason' # "saturated"
        BY <2>3 DEF Stop, Counters
      <3> QED
        BY <2>2, <3>1 DEF Quiet, Final
    <2>4. CASE NextPass
      BY <2>4 DEF NextPass, Quiet, Final
    <2>5. CASE exhausted = None /\ ~ Progressed /\ CanStop /\ Stop("saturated")
      BY <2>1, <2>2, <2>5, SaturatedStops DEF Quiet
    <2> QED
      BY <2>1, <2>3, <2>4, <2>5
  <1>6. CASE BeginPass
    <2>1. \/ step' = "search"
          \/ step' = "last" /\ reason' = LimitAt /\ LimitAt # None
      BY <1>6 DEF BeginPass, Stop
    <2>2. LimitAt # None => LimitAt # "saturated"
      BY DEF LimitAt
    <2> QED
      BY <2>1, <2>2 DEF Quiet, Final
  <1>7. CASE step' \notin {"rebuild", "last", "done"}
    BY <1>7 DEF Quiet, Final
  <1>8. \/ RebuildOn \/ EndApply \/ Done \/ Ended \/ UNCHANGED allVars \/ EndPass \/ BeginPass
        \/ step' \notin {"rebuild", "last", "done"}
    BY DEF RNext, Loop, Begin, SearchRule, SkipBanned, EndSearch, ApplyMatch, EndRule, TimePasses
  <1> QED
    BY <1>1, <1>2, <1>4, <1>5, <1>6, <1>7, <1>8

\* The invariant that makes a saturated run closed.
PassesClose == Orderly /\ Counters /\ Searching /\ Applying /\ Quiet /\ Final

LEMMA PassesStartClosed == RInit => PassesClose
  <1> SUFFICES ASSUME RInit PROVE PassesClose
    OBVIOUS
  <1>1. step = "first"
    BY DEF RInit
  <1> QED
    BY <1>1, OrderlyStarts, CountersStart DEF PassesClose, Searching, Applying, Quiet, Final

LEMMA PassesStayClosed == SInv /\ SInv' /\ PassesClose /\ [RNext]_allVars => PassesClose'
  <1> SUFFICES ASSUME SInv, SInv', PassesClose, [RNext]_allVars PROVE PassesClose'
    OBVIOUS
  <1>1. Orderly' /\ Counters'
    BY OrderlyStays, CountersStay DEF PassesClose
  <1>2. Searching' /\ Applying'
    BY SearchingStays, ApplyingStays DEF PassesClose
  <1>3. Quiet' /\ Final'
    BY <1>1, QuietStays DEF PassesClose
  <1> QED
    BY <1>1, <1>2, <1>3 DEF PassesClose

\* A run that calls itself saturated is closed under its rules, whatever the rules, limits
\* and bans: each match of each rule whose condition holds has its right side in the class
\* of the left, unless matches were cut off.  No union in a pass, an extent that rebuild has
\* not moved, and no rule under a ban are enough (run_inner, apply_matches, can_stop;
\* runner.rs:23-24, 210-212).
THEOREM SaturatedRunsAreClosed == RSpec => []SaturatedIsClosed
  <1>1. SInv /\ PassesClose => SaturatedIsClosed
    <2> SUFFICES ASSUME SInv, PassesClose, step = "done", reason = "saturated", ~ unseen,
                        NEW r \in RuleIds, NEW m \in Meanings(graph, Rules[r].lhs),
                        Holds(graph, Rules[r].needs, m.subst)
                 PROVE  Denotes(graph, Rules[r].rhs, m.subst, m.class)
      BY DEF SaturatedIsClosed
    <2>1. ClosedFor /\ changed = {} /\ StillBanned = {}
      BY DEF PassesClose, Final, Untouched, Idling
    <2>2. ~ (banned[r].until > pass)
      BY <2>1 DEF StillBanned
    <2>3. PICK d \in Classes(graph), s \in [HolesOf(Rules[r].lhs) -> Classes(graph)] :
            m = [class |-> d, subst |-> s]
      BY DEF Meanings, AllMatches
    <2>4. \A h \in Rules[r].needs : Find(graph, m.subst[h]) \in Firm
      <3> TAKE h \in Rules[r].needs
      <3>1. s[h] \in Classes(graph) /\ m.subst = s
        BY <2>3, RulesInUse
      <3>2. Find(graph, m.subst[h]) \in Classes(graph)
        BY <3>1 DEF Classes, Find
      <3>3. graph.fact[Find(graph, m.subst[h])] # None
        BY DEF Holds
      <3> QED
        BY <2>1, <3>2, <3>3 DEF Firm
    <2>5. Answered(r, m)
      BY <2>1, <2>2 DEF ClosedFor
    <2> QED
      BY <2>4, <2>5 DEF Answered
  <1> QED
    BY StartHolds, StepKeepsS, PassesStartClosed, PassesStayClosed, <1>1, PTL DEF RSpec
===============================================================================
