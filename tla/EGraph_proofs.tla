---------------------------- MODULE EGraph_proofs ----------------------------
(***************************************************************************)
(* What is proved of EGraph, for any operators, any numbers and any bounds, *)
(* in whatever order parents come out of their lists and wherever rounds and *)
(* fuel end: facts are sound, and rebuilding restores congruence.            *)
(***************************************************************************)
EXTENDS EGraph, FiniteSetTheorems, WellFoundedInduction, TLAPS

\* Any natural numbers have a least among them.
LEMMA NatHasLeast ==
  ASSUME NEW T \in SUBSET Nat, T # {}
  PROVE  \E x \in T : \A y \in T : x <= y
  <1>1. PICK x \in T : \A y \in T : ~ (<<y, x>> \in OpToRel(<, Nat))
    BY NatLessThanWellFounded, WFMin
  <1>2. \A y \in T : ~ (y < x)
    BY <1>1 DEF OpToRel
  <1> QED
    BY <1>2

\* A set that holds 0 and the next of each of its numbers below n has all of 0..n.
LEMMA CountingUp ==
  ASSUME NEW n \in Nat, NEW P, 0 \in P, \A k \in 0 .. n - 1 : k \in P => k + 1 \in P
  PROVE  \A k \in 0 .. n : k \in P
  <1> DEFINE T == {k \in 0 .. n : k \notin P}
  <1>1. SUFFICES ASSUME T # {} PROVE FALSE
    OBVIOUS
  <1>2. T \in SUBSET Nat
    OBVIOUS
  <1>3. PICK k \in T : \A j \in T : k <= j
    <2> HIDE DEF T
    <2> QED
      BY <1>1, <1>2, NatHasLeast
  <1>4. k - 1 \in 0 .. n - 1 /\ k - 1 \notin T
    BY <1>3
  <1> QED
    BY <1>3, <1>4

----------------------------------------------------------------------------
(* Sets in order (Ordered).                                                 *)

\* A strict and total order of S, as a set of pairs.
Orders(R, S) ==
  /\ \A x, y \in S : x # y => <<x, y>> \in R \/ <<y, x>> \in R
  /\ \A x \in S : <<x, x>> \notin R
  /\ \A x, y, z \in S : <<x, y>> \in R /\ <<y, z>> \in R => <<x, z>> \in R

LowerIn(R, S, x) == {y \in S : y # x /\ <<y, x>> \in R}

\* In a finite set each number below its size is the rank of one element, so that
\* InOrderOf lists the set.
LEMMA RanksFill ==
  ASSUME NEW S, IsFiniteSet(S), NEW R, Orders(R, S)
  PROVE  /\ Cardinality(S) \in Nat
         /\ \A k \in 1 .. Cardinality(S) :
              \E x \in S : Cardinality(LowerIn(R, S, x)) = k - 1
         /\ \A x \in S : Cardinality(LowerIn(R, S, x)) + 1 \in 1 .. Cardinality(S)
         /\ \A x, y \in S : Cardinality(LowerIn(R, S, x)) = Cardinality(LowerIn(R, S, y)) => x = y
  <1> DEFINE n == Cardinality(S)
             rank == [x \in S |-> Cardinality(LowerIn(R, S, x)) + 1]
  <1>1. n \in Nat
    BY FS_CardinalityType
  <1>2. \A x \in S : /\ IsFiniteSet(LowerIn(R, S, x)) /\ Cardinality(LowerIn(R, S, x)) \in Nat
                     /\ Cardinality(LowerIn(R, S, x)) < n
    <2> TAKE x \in S
    <2> DEFINE U == LowerIn(R, S, x)
    <2>1. U \in SUBSET S /\ U # S
      BY DEF LowerIn
    <2> HIDE DEF U
    <2>2. IsFiniteSet(U) /\ Cardinality(U) <= n /\ (n = Cardinality(U) => S = U)
      BY <2>1, FS_Subset
    <2>3. Cardinality(U) \in Nat
      BY <2>2, FS_CardinalityType
    <2>4. IsFiniteSet(U) /\ Cardinality(U) \in Nat /\ Cardinality(U) < n
      BY <1>1, <2>1, <2>2, <2>3
    <2> QED
      BY <2>4 DEF U
  <1>3. ASSUME NEW x \in S, NEW y \in S, <<x, y>> \in R
        PROVE  Cardinality(LowerIn(R, S, x)) < Cardinality(LowerIn(R, S, y))
    <2> DEFINE U == LowerIn(R, S, x)
               V == LowerIn(R, S, y)
    <2>1. U \in SUBSET V /\ x \in V /\ x \notin U
      BY <1>3 DEF LowerIn, Orders
    <2>2. IsFiniteSet(V) /\ Cardinality(U) \in Nat /\ Cardinality(V) \in Nat
      BY <1>2
    <2> HIDE DEF U, V
    <2>3. Cardinality(U) <= Cardinality(V) /\ (Cardinality(V) = Cardinality(U) => V = U)
      BY <2>1, <2>2, FS_Subset
    <2>4. Cardinality(U) < Cardinality(V)
      BY <2>1, <2>2, <2>3
    <2> QED
      BY <2>4 DEF U, V
  <1>4. ASSUME NEW x \in S, NEW y \in S, x # y
        PROVE  Cardinality(LowerIn(R, S, x)) # Cardinality(LowerIn(R, S, y))
    <2>1. CASE <<x, y>> \in R
      BY <1>2, <1>3, <2>1
    <2>2. CASE <<y, x>> \in R
      BY <1>2, <1>3, <2>2
    <2> QED
      BY <1>4, <2>1, <2>2 DEF Orders
  <1>5. rank \in [S -> 1 .. n]
    <2>1. ASSUME NEW x \in S PROVE Cardinality(LowerIn(R, S, x)) + 1 \in 1 .. n
      BY <1>1, <1>2
    <2> HIDE DEF n
    <2> QED
      BY <2>1
  <1>6. rank \in Injection(S, 1 .. n)
    <2>1. ASSUME NEW x \in S, NEW y \in S, x # y PROVE rank[x] # rank[y]
      BY <1>2, <1>4, <2>1
    <2> HIDE DEF rank, n
    <2> QED
      BY <1>5, <2>1 DEF Injection, IsInjective
  <1>7. IsFiniteSet(1 .. n) /\ Cardinality(1 .. n) = n
    BY <1>1, FS_Interval
  <1>8. rank \in Surjection(S, 1 .. n)
    <2> HIDE DEF rank
    <2> QED
      BY <1>6, <1>7, FS_Injection
  <1>9. \A k \in 1 .. n : \E x \in S : rank[x] = k
    <2> HIDE DEF rank, n
    <2> QED
      BY <1>8 DEF Surjection
  <1>10. \A k \in 1 .. n : \E x \in S : Cardinality(LowerIn(R, S, x)) = k - 1
    <2> TAKE k \in 1 .. n
    <2>1. PICK x \in S : rank[x] = k
      BY <1>9
    <2>2. Cardinality(LowerIn(R, S, x)) + 1 = k
      BY <2>1
    <2> QED
      BY <1>1, <1>2, <2>2
  <1> QED
    BY <1>1, <1>2, <1>4, <1>10

\* What is indexed by the numbers up to n is a sequence of length n.
LEMMA CountedIsSeq ==
  ASSUME NEW n \in Nat, NEW S, NEW f \in [1 .. n -> S]
  PROVE  f \in Seq(S) /\ Len(f) = n
  OBVIOUS

\* The list has each element of the set, once, and no other.
Lists(list, S) ==
  /\ Cardinality(S) \in Nat
  /\ list \in [1 .. Cardinality(S) -> S]
  /\ list \in Seq(S) /\ Len(list) = Cardinality(S)
  /\ \A i, j \in 1 .. Cardinality(S) : i # j => list[i] # list[j]
  /\ \A x \in S : \E k \in 1 .. Cardinality(S) : list[k] = x
  /\ list \in SetToSeqs(S)

RankList(R, S) ==
  [k \in 1 .. Cardinality(S) |-> CHOOSE x \in S : Cardinality(LowerIn(R, S, x)) = k - 1]

LEMMA ListOfSet ==
  ASSUME NEW S, IsFiniteSet(S), NEW R, Orders(R, S)
  PROVE  Lists(RankList(R, S), S)
  <1> DEFINE n == Cardinality(S)
             list == RankList(R, S)
  <1>1. /\ n \in Nat
        /\ \A k \in 1 .. n : \E x \in S : Cardinality(LowerIn(R, S, x)) = k - 1
        /\ \A x \in S : Cardinality(LowerIn(R, S, x)) + 1 \in 1 .. n
        /\ \A x, y \in S : Cardinality(LowerIn(R, S, x)) = Cardinality(LowerIn(R, S, y)) => x = y
    BY RanksFill
  <1> HIDE DEF n
  <1>2. \A k \in 1 .. n : list[k] \in S /\ Cardinality(LowerIn(R, S, list[k])) = k - 1
    BY <1>1 DEF n, RankList
  <1>3. list \in [1 .. n -> S]
    <2>1. list = [k \in 1 .. n |-> list[k]]
      BY DEF n, RankList
    <2> HIDE DEF list
    <2> QED
      BY <1>2, <2>1
  <1> HIDE DEF list
  <1>4. \A i, j \in 1 .. n : i # j => list[i] # list[j]
    BY <1>1, <1>2
  <1>5. \A x \in S : \E k \in 1 .. n : list[k] = x
    <2> TAKE x \in S
    <2> DEFINE k == Cardinality(LowerIn(R, S, x)) + 1
    <2>1. k \in 1 .. n /\ Cardinality(LowerIn(R, S, x)) = k - 1
      <3>1. k \in 1 .. n
        BY <1>1
      <3>2. Cardinality(LowerIn(R, S, x)) \in Int
        <4>1. LowerIn(R, S, x) \in SUBSET S
          BY DEF LowerIn
        <4>2. IsFiniteSet(LowerIn(R, S, x))
          BY <4>1, FS_Subset
        <4> QED
          BY <4>2, FS_CardinalityType
      <3> QED
        BY <3>1, <3>2
    <2>2. list[k] = x
      BY <1>1, <1>2, <2>1
    <2> QED
      BY <2>1, <2>2
  <1>6. list \in Seq(S) /\ Len(list) = n
    <2>1. n \in Nat
      BY <1>1
    <2> QED
      BY <1>3, <2>1, CountedIsSeq
  <1> QED
    BY <1>1, <1>3, <1>4, <1>5, <1>6 DEF n, list, SetToSeqs, Lists

\* The ids of a set in rising order: an order of the set like any other.
LEMMA IncreasingLists ==
  ASSUME NEW S \in SUBSET Nat, IsFiniteSet(S)
  PROVE  Lists(Increasing(S), S)
  <1> DEFINE R == {e \in Nat \X Nat : e[1] < e[2]}
  <1>1. Orders(R, S)
    BY DEF Orders
  <1>2. \A x \in S : {y \in S : y # x /\ y < x} = LowerIn(R, S, x)
    BY DEF LowerIn
  <1>3. Increasing(S) = RankList(R, S)
    <2>1. Increasing(S) = [k \in 1 .. Cardinality(S) |->
                             CHOOSE x \in S : Cardinality({y \in S : y # x /\ y < x}) = k - 1]
      BY DEF Increasing, InOrderOf
    <2> HIDE DEF R
    <2>2. ASSUME NEW k \in 1 .. Cardinality(S), NEW x \in S
          PROVE  (Cardinality({y \in S : y # x /\ y < x}) = k - 1)
                   <=> (Cardinality(LowerIn(R, S, x)) = k - 1)
      BY <1>2
    <2> QED
      BY <2>1, <2>2 DEF RankList
  <1> HIDE DEF R
  <1> QED
    BY <1>1, <1>3, ListOfSet

\* The room for ids is finite: that of the callers and one id per number.
LEMMA MaxIdsIsNat == MaxIds \in Nat
  BY BoundsAreFinite, FS_CardinalityType DEF MaxIds

\* A node is a leaf, or an operator over one or over two ids.
LEMMA NodeShape ==
  ASSUME NEW n \in Node
  PROVE  \/ n.op \in Var \cup Number /\ n = [op |-> n.op, kids |-> <<>>]
         \/ n.op \in Unary /\ \E i \in Id : n = [op |-> n.op, kids |-> <<i>>]
         \/ n.op \in Commutative /\ \E i, j \in Id : n = [op |-> n.op, kids |-> <<i, j>>]
  BY DEF Node

\* ids that stand for equals may replace one another.
LEMMA RenamedNode ==
  ASSUME NEW n \in Node, NEW l \in [Id -> Id], NEW v \in [Id -> Known],
         \A i \in Id : v[l[i]] = v[i],
         NEW m, m = [n EXCEPT !.kids = [k \in DOMAIN n.kids |-> l[n.kids[k]]]]
  PROVE  /\ m \in Node
         /\ m.op = n.op
         /\ Worth(v, m) = Worth(v, n)
  <1>1. CASE n.op \in Var \cup Number /\ n = [op |-> n.op, kids |-> <<>>]
    BY <1>1 DEF Worth, Node
  <1>2. CASE n.op \in Unary /\ \E i \in Id : n = [op |-> n.op, kids |-> <<i>>]
    <2>1. PICK i \in Id : n = [op |-> n.op, kids |-> <<i>>]
      BY <1>2
    <2>2. m = [op |-> n.op, kids |-> <<l[i]>>]
      BY <2>1
    <2>3. [k \in DOMAIN m.kids |-> v[m.kids[k]]] = [k \in DOMAIN n.kids |-> v[n.kids[k]]]
      BY <2>1, <2>2
    <2> QED
      BY <1>2, <2>1, <2>2, <2>3 DEF Worth, Node
  <1>3. CASE n.op \in Commutative /\ \E i, j \in Id : n = [op |-> n.op, kids |-> <<i, j>>]
    <2>1. PICK i \in Id, j \in Id : n = [op |-> n.op, kids |-> <<i, j>>]
      BY <1>3
    <2>2. m = [op |-> n.op, kids |-> <<l[i], l[j]>>]
      BY <2>1
    <2>3. [k \in DOMAIN m.kids |-> v[m.kids[k]]] = [k \in DOMAIN n.kids |-> v[n.kids[k]]]
      BY <2>1, <2>2
    <2> QED
      BY <1>3, <2>1, <2>2, <2>3 DEF Worth, Node
  <1> QED
    BY <1>1, <1>2, <1>3, NodeShape

\* The order of a commutative operator's arguments does not change its worth.
LEMMA NormalizedNode ==
  ASSUME NEW n \in Node, NEW v \in [Id -> Known]
  PROVE  /\ Normalized(n) \in Node
         /\ Worth(v, Normalized(n)) = Worth(v, n)
         /\ \A k \in DOMAIN Normalized(n).kids :
              \E j \in DOMAIN n.kids : Normalized(n).kids[k] = n.kids[j]
  <1>1. CASE ~ (n.op \in Commutative /\ n.kids[2] < n.kids[1])
    BY <1>1 DEF Normalized
  <1>2. CASE n.op \in Commutative /\ n.kids[2] < n.kids[1]
    <2>1. PICK i \in Id, j \in Id : n = [op |-> n.op, kids |-> <<i, j>>]
      BY <1>2, NodeShape, OperatorsDiffer
    <2>2. Normalized(n) = [op |-> n.op, kids |-> <<j, i>>]
      BY <1>2, <2>1 DEF Normalized
    <2>3. n.op \notin Number /\ n.op \notin Var
      BY <1>2, OperatorsDiffer
    <2>4. Worth(v, n) = Eval(n.op, <<v[i], v[j]>>)
      <3>1. [k \in DOMAIN n.kids |-> v[n.kids[k]]] = <<v[i], v[j]>>
        BY <2>1
      <3> QED
        BY <2>3, <3>1 DEF Worth
    <2>5. Worth(v, Normalized(n)) = Eval(n.op, <<v[j], v[i]>>)
      <3> DEFINE m == [op |-> n.op, kids |-> <<j, i>>]
      <3>1. [k \in DOMAIN m.kids |-> v[m.kids[k]]] = <<v[j], v[i]>>
        OBVIOUS
      <3> QED
        BY <2>2, <2>3, <3>1 DEF Worth
    <2>6. v[i] \in Known /\ v[j] \in Known
      OBVIOUS
    <2>7. Normalized(n) \in Node
      BY <1>2, <2>2 DEF Node
    <2>8. \A k \in DOMAIN Normalized(n).kids :
            \E d \in DOMAIN n.kids : Normalized(n).kids[k] = n.kids[d]
      BY <2>1, <2>2
    <2> QED
      BY <1>2, <2>4, <2>5, <2>6, <2>7, <2>8, EvalIsAFunction
  <1> QED
    BY <1>1, <1>2

----------------------------------------------------------------------------
(* What every part of the graph says is true of the values v.               *)

\* The node says of class c what v says of it, and speaks of made ids alone.
States(g, v, n, c) ==
  /\ n \in Node /\ c \in Made(g)
  /\ \A k \in DOMAIN n.kids : n.kids[k] \in Made(g)
  /\ Worth(v, n) = v[c]

LeadersAgree(g, v) ==
  /\ \A i \in Id : v[g.leader[i]] = v[i]
  /\ \A i \in Made(g) : g.leader[i] \in Made(g)
  /\ \A i \in Id \ Made(g) : g.leader[i] = i /\ v[i] = None

NodesAgree(g, v) == \A c \in Id : \A n \in g.nodes[c] : States(g, v, n, c)
UsesAgree(g, v) == \A c \in Id : \A e \in g.uses[c] : States(g, v, e[1], e[2])
MemoAgrees(g, v) == \A e \in g.memo : States(g, v, e[1], e[2])
FactsAgree(g, v) == \A c \in Id : g.fact[c] # None => g.fact[c] = v[c]

Sound(g, v) ==
  /\ g \in Graph /\ v \in [Id -> Known]
  /\ LeadersAgree(g, v) /\ NodesAgree(g, v) /\ UsesAgree(g, v)
  /\ MemoAgrees(g, v) /\ FactsAgree(g, v)

\* The ids made are ids, and each has a leader.
LEMMA MadeIds ==
  ASSUME NEW g \in Graph
  PROVE  Made(g) \subseteq Id /\ g.made \in Nat /\ g.leader \in [Id -> Id]
  BY MaxIdsIsNat DEF Made, Id, Graph

\* Canonicalizing a node replaces children by their leaders and may swap two:
\* what is stated of it stays stated (canonicalize).
LEMMA CanonicalStates ==
  ASSUME NEW g, NEW v, Sound(g, v), NEW n, NEW c, States(g, v, n, c)
  PROVE  States(g, v, Canonical(g, n), c)
  <1> DEFINE m == [n EXCEPT !.kids = [k \in DOMAIN n.kids |-> g.leader[n.kids[k]]]]
  <1>1. /\ n \in Node /\ g \in Graph /\ g.leader \in [Id -> Id] /\ v \in [Id -> Known]
        /\ \A i \in Id : v[g.leader[i]] = v[i]
        /\ \A i \in Made(g) : g.leader[i] \in Made(g)
        /\ \A k \in DOMAIN n.kids : n.kids[k] \in Made(g)
    BY MadeIds DEF Sound, LeadersAgree, States
  <1>2. m \in Node /\ m.op = n.op /\ Worth(v, m) = Worth(v, n)
    BY <1>1, RenamedNode
  <1>3. \A k \in DOMAIN m.kids : m.kids[k] \in Made(g)
    BY <1>1 DEF Node
  <1>4. Canonical(g, n) = Normalized(m)
    BY DEF Canonical, Find
  <1> HIDE DEF m
  <1>5. /\ Normalized(m) \in Node
        /\ Worth(v, Normalized(m)) = Worth(v, m)
        /\ \A k \in DOMAIN Normalized(m).kids :
             \E j \in DOMAIN m.kids : Normalized(m).kids[k] = m.kids[j]
    BY <1>1, <1>2, NormalizedNode
  <1> QED
    BY <1>2, <1>3, <1>4, <1>5 DEF States

\* A fold is over facts, and facts are true.
LEMMA FactIsWorth ==
  ASSUME NEW g, NEW v, Sound(g, v), NEW n \in Node
  PROVE  /\ Fact(g, n) \in Known
         /\ Fact(g, n) # None => Fact(g, n) = Worth(v, n)
  <1> DEFINE fs == [k \in DOMAIN n.kids |-> g.fact[g.leader[n.kids[k]]]]
             ws == [k \in DOMAIN n.kids |-> v[n.kids[k]]]
  <1>1. /\ g \in Graph /\ g.leader \in [Id -> Id] /\ g.fact \in [Id -> Known]
        /\ v \in [Id -> Known]
        /\ \A c \in Id : g.fact[c] # None => g.fact[c] = v[c]
        /\ \A i \in Id : v[g.leader[i]] = v[i]
    BY DEF Sound, LeadersAgree, FactsAgree, Graph
  <1>2. CASE n.op \in Number \/ n.op \in Var
    BY <1>2 DEF Fact, Worth, Known
  <1>3. CASE n.op \notin Number /\ n.op \notin Var
    <2>1. \A k \in DOMAIN n.kids : n.kids[k] \in Id
      BY NodeShape
    <2>2. CASE \E k \in DOMAIN n.kids : g.fact[g.leader[n.kids[k]]] = None
      BY <1>3, <2>2 DEF Fact, Find, Known
    <2>3. CASE ~ \E k \in DOMAIN n.kids : g.fact[g.leader[n.kids[k]]] = None
      <3>1. fs = ws
        BY <1>1, <2>1, <2>3
      <3>2. Fact(g, n) = Eval(n.op, fs)
        BY <1>3, <2>3 DEF Fact, Find
      <3>3. Worth(v, n) = Eval(n.op, ws)
        BY <1>3 DEF Worth
      <3>4. Eval(n.op, ws) \in Known
        <4>1. CASE n.op \in Unary /\ \E i \in Id : n = [op |-> n.op, kids |-> <<i>>]
          <5>1. PICK i \in Id : n = [op |-> n.op, kids |-> <<i>>]
            BY <4>1
          <5>2. ws = <<v[i]>> /\ v[i] \in Known
            BY <1>1, <5>1
          <5> HIDE DEF ws
          <5> QED
            BY <4>1, <5>2, EvalIsAFunction
        <4>2. CASE n.op \in Commutative /\ \E i, j \in Id : n = [op |-> n.op, kids |-> <<i, j>>]
          <5>1. PICK i \in Id, j \in Id : n = [op |-> n.op, kids |-> <<i, j>>]
            BY <4>2
          <5>2. ws = <<v[i], v[j]>> /\ v[i] \in Known /\ v[j] \in Known
            BY <1>1, <5>1
          <5> HIDE DEF ws
          <5> QED
            BY <4>2, <5>2, EvalIsAFunction
        <4> QED
          BY <1>3, <4>1, <4>2, NodeShape
      <3> QED
        BY <3>1, <3>2, <3>3, <3>4
    <2> QED
      BY <2>2, <2>3
  <1> QED
    BY <1>2, <1>3

\* A class's fact recomputed from its nodes is what the class is worth
\* (propagate_analysis).
LEMMA RecomputedAgrees ==
  ASSUME NEW g, NEW v, Sound(g, v), NEW c \in Id
  PROVE  /\ Recomputed(g, c) \in Known
         /\ Recomputed(g, c) # None => Recomputed(g, c) = v[c]
  <1> DEFINE facts == {Fact(g, Canonical(g, n)) : n \in g.nodes[c]} \ {None}
  <1>1. \A f \in facts : f \in Known /\ f = v[c]
    <2> SUFFICES ASSUME NEW n \in g.nodes[c], Fact(g, Canonical(g, n)) # None
                 PROVE  /\ Fact(g, Canonical(g, n)) \in Known
                        /\ Fact(g, Canonical(g, n)) = v[c]
      OBVIOUS
    <2>1. States(g, v, n, c)
      BY DEF Sound, NodesAgree
    <2>2. States(g, v, Canonical(g, n), c)
      BY <2>1, CanonicalStates
    <2> QED
      BY <2>2, FactIsWorth DEF States
  <1>2. Recomputed(g, c) = IF facts = {} THEN None ELSE CHOOSE f \in facts : TRUE
    BY DEF Recomputed
  <1> HIDE DEF facts
  <1> QED
    BY <1>1, <1>2 DEF Known

----------------------------------------------------------------------------
(* What the calls make of a sound graph is sound.                           *)

\* What is stated over the ids of one graph is over those of another with as many.
LEMMA SameMade ==
  ASSUME NEW g, NEW h, h.made = g.made, NEW v, NEW n, NEW c, States(g, v, n, c)
  PROVE  States(h, v, n, c)
  BY DEF States, Made

\* Joining two classes of one worth keeps the graph sound (union).
LEMMA UnitedIsSound ==
  ASSUME NEW g, NEW v, Sound(g, v), NEW a \in Made(g), NEW b \in Made(g), v[a] = v[b],
         NEW why \in Why
  PROVE  Sound(United(g, a, b, why), v) /\ United(g, a, b, why).made = g.made
  <1> DEFINE root == Survivor(g, a, b)
             gone == Absorbed(g, a, b)
             fact == Meet(g.fact[root], g.fact[gone])
             leader == [i \in Id |-> IF g.leader[i] = gone THEN root ELSE g.leader[i]]
             nodes == [g.nodes EXCEPT ![root] = @ \cup g.nodes[gone], ![gone] = {}]
             uses == [g.uses EXCEPT ![root] = @ \cup g.uses[gone], ![gone] = {}]
             facts == [g.fact EXCEPT ![root] = fact, ![gone] = None]
             history == Append(g.history, Recorded(g, a, b, why))
             h == United(g, a, b, why)
  <1>1. /\ g \in Graph /\ g.leader \in [Id -> Id] /\ g.fact \in [Id -> Known]
        /\ g.nodes \in [Id -> SUBSET Node] /\ g.uses \in [Id -> SUBSET (Node \X Id)]
        /\ v \in [Id -> Known] /\ a \in Id /\ b \in Id
        /\ \A i \in Id : v[g.leader[i]] = v[i]
        /\ \A i \in Made(g) : g.leader[i] \in Made(g)
    BY MadeIds DEF Sound, LeadersAgree, Graph
  <1>2. /\ root \in {g.leader[a], g.leader[b]} /\ gone \in {g.leader[a], g.leader[b]}
        /\ root \in Made(g) /\ gone \in Made(g) /\ root \in Id /\ gone \in Id
        /\ v[root] = v[gone] /\ v[root] = v[a]
    BY <1>1 DEF Survivor, Absorbed, Find
  <1>3. CASE root = gone
    BY <1>3 DEF United
  <1>4. CASE root # gone
    <2>1. h = [g EXCEPT !.leader = leader, !.nodes = nodes, !.uses = uses, !.fact = facts,
                        !.pending = g.pending \cup {root},
                        !.learned = IF fact = g.fact[root] THEN g.learned
                                    ELSE g.learned \cup {root},
                        !.history = history]
      BY <1>4 DEF United
    <2>2. /\ h.made = g.made /\ h.leader = leader /\ h.nodes = nodes /\ h.uses = uses
          /\ h.fact = facts /\ h.memo = g.memo
      BY <1>1, <2>1 DEF Graph
    <2>3. fact \in Known /\ (fact # None => fact = v[root])
      BY <1>1, <1>2 DEF Meet, Sound, FactsAgree
    <2>4. h \in Graph
      <3>1. history \in Seq([ids : Id \X Id, why : Why])
        BY <1>1 DEF Recorded, Graph, Find
      <3>2. leader \in [Id -> Id] /\ nodes \in [Id -> SUBSET Node]
            /\ uses \in [Id -> SUBSET (Node \X Id)]
        BY <1>1, <1>2
      <3>3. facts \in [Id -> Known]
        BY <1>1, <1>2, <2>3 DEF Known
      <3>4. /\ g.pending \cup {root} \in SUBSET Id
            /\ (IF fact = g.fact[root] THEN g.learned ELSE g.learned \cup {root}) \in SUBSET Id
        BY <1>1, <1>2 DEF Graph
      <3> HIDE DEF root, gone, fact, leader, nodes, uses, facts, history, h
      <3> QED
        BY <1>1, <2>1, <3>1, <3>2, <3>3, <3>4 DEF Graph
    <2>5. LeadersAgree(h, v)
      <3>1. \A i \in Id : v[leader[i]] = v[i]
        BY <1>1, <1>2
      <3>2. \A i \in Made(g) : leader[i] \in Made(g)
        BY <1>1, <1>2, MadeIds
      <3>3. \A i \in Id \ Made(g) : leader[i] = i /\ v[i] = None
        BY <1>1, <1>2 DEF Sound, LeadersAgree
      <3>4. Made(h) = Made(g)
        BY <2>2 DEF Made
      <3> QED
        BY <2>2, <3>1, <3>2, <3>3, <3>4 DEF LeadersAgree
    <2>6. NodesAgree(h, v)
      <3> SUFFICES ASSUME NEW c \in Id, NEW n \in nodes[c]
                   PROVE  States(h, v, n, c)
        BY <2>2 DEF NodesAgree
      <3>1. \/ n \in g.nodes[c]
            \/ c = root /\ n \in g.nodes[gone]
        BY <1>1, <1>2, <1>4
      <3>2. CASE n \in g.nodes[c]
        BY <3>2, <2>2, SameMade DEF Sound, NodesAgree
      <3>3. CASE c = root /\ n \in g.nodes[gone]
        <4>1. States(g, v, n, gone)
          BY <1>2, <3>3 DEF Sound, NodesAgree
        <4>2. States(g, v, n, root)
          BY <1>2, <4>1 DEF States
        <4> QED
          BY <2>2, <3>3, <4>2, SameMade
      <3> QED
        BY <3>1, <3>2, <3>3
    <2>7. UsesAgree(h, v)
      <3> SUFFICES ASSUME NEW c \in Id, NEW e \in uses[c]
                   PROVE  States(h, v, e[1], e[2])
        BY <2>2 DEF UsesAgree
      <3>1. \E d \in Id : e \in g.uses[d]
        BY <1>1, <1>2, <1>4
      <3> QED
        BY <3>1, <2>2, SameMade DEF Sound, UsesAgree
    <2>8. MemoAgrees(h, v)
      BY <2>2, SameMade DEF Sound, MemoAgrees
    <2>9. FactsAgree(h, v)
      BY <1>1, <1>2, <1>4, <2>2, <2>3 DEF Sound, FactsAgree
    <2> QED
      BY <2>2, <2>4, <2>5, <2>6, <2>7, <2>8, <2>9 DEF Sound
  <1> QED
    BY <1>3, <1>4

\* More ids, and the old ones worth what they were, state no less.
LEMMA StatesLater ==
  ASSUME NEW g \in Graph, NEW h \in Graph, g.made <= h.made,
         NEW v \in [Id -> Known], NEW w \in [Id -> Known],
         \A i \in Made(g) : w[i] = v[i],
         NEW n, NEW c, States(g, v, n, c)
  PROVE  States(h, w, n, c)
  <1>1. Made(g) \subseteq Made(h) /\ g.made \in Nat /\ h.made \in Nat
    BY MadeIds DEF Made
  <1>2. [k \in DOMAIN n.kids |-> w[n.kids[k]]] = [k \in DOMAIN n.kids |-> v[n.kids[k]]]
    BY DEF States
  <1>3. Worth(w, n) = Worth(v, n)
    BY <1>2 DEF Worth
  <1> QED
    BY <1>1, <1>3 DEF States

\* The value of a node the ids know is a value, and adding the node under the
\* next id keeps the graph sound for the values that id brings.
Grown(g, v, n) ==
  IF Owners(g, n) = {} THEN [v EXCEPT ![g.made] = Worth(v, n)] ELSE v

\* A node over known arguments is worth a known value.
LEMMA WorthIsKnown ==
  ASSUME NEW v \in [Id -> Known], NEW n \in Node
  PROVE  Worth(v, n) \in Known
  <1> DEFINE ws == [k \in DOMAIN n.kids |-> v[n.kids[k]]]
  <1>1. CASE n.op \in Var \cup Number
    BY <1>1, EnvGivesNumbers DEF Worth, Known
  <1>2. CASE n.op \notin Var \cup Number /\ n.op \in Unary
                /\ \E i \in Id : n = [op |-> n.op, kids |-> <<i>>]
    <2>1. PICK i \in Id : n = [op |-> n.op, kids |-> <<i>>]
      BY <1>2
    <2>2. ws = <<v[i]>> /\ v[i] \in Known
      BY <2>1
    <2>3. Worth(v, n) = Eval(n.op, ws)
      BY <1>2 DEF Worth
    <2> HIDE DEF ws
    <2> QED
      BY <1>2, <2>2, <2>3, EvalIsAFunction
  <1>3. CASE n.op \notin Var \cup Number /\ n.op \in Commutative
                /\ \E i, j \in Id : n = [op |-> n.op, kids |-> <<i, j>>]
    <2>1. PICK i \in Id, j \in Id : n = [op |-> n.op, kids |-> <<i, j>>]
      BY <1>3
    <2>2. ws = <<v[i], v[j]>> /\ v[i] \in Known /\ v[j] \in Known
      BY <2>1
    <2>3. Worth(v, n) = Eval(n.op, ws)
      BY <1>3 DEF Worth
    <2> HIDE DEF ws
    <2> QED
      BY <1>3, <2>2, <2>3, EvalIsAFunction
  <1> QED
    BY <1>1, <1>2, <1>3, NodeShape

\* Adding a canonical node keeps the graph sound, with the new id worth what the
\* node is (add).
LEMMA AddedIsSound ==
  ASSUME NEW g, NEW v, Sound(g, v), NEW n \in Node, HasRoom(g, n),
         \A k \in DOMAIN n.kids : n.kids[k] \in Made(g)
  PROVE  /\ Sound(Added(g, n), Grown(g, v, n))
         /\ LandsIn(g, n) \in Made(Added(g, n))
         /\ Grown(g, v, n)[LandsIn(g, n)] = Worth(v, n)
         /\ \A i \in Made(g) : i \in Made(Added(g, n)) /\ Grown(g, v, n)[i] = v[i]
  <1>1. /\ g \in Graph /\ g.leader \in [Id -> Id] /\ g.fact \in [Id -> Known]
        /\ g.nodes \in [Id -> SUBSET Node] /\ g.uses \in [Id -> SUBSET (Node \X Id)]
        /\ g.memo \in SUBSET (Node \X Id) /\ g.made \in Nat /\ g.made \in 0 .. MaxIds
        /\ g.learned \in SUBSET Id
        /\ v \in [Id -> Known] /\ Made(g) \subseteq Id
    BY MadeIds, MaxIdsIsNat DEF Sound, Graph
  <1>2. CASE Owners(g, n) # {}
    <2>1. Added(g, n) = g /\ Grown(g, v, n) = v
      BY <1>2 DEF Added, Grown
    <2>2. PICK o \in Owners(g, n) : LandsIn(g, n) = g.leader[o]
      BY <1>2 DEF LandsIn, Find
    <2>3. States(g, v, n, o)
      BY <2>2 DEF Sound, MemoAgrees, Owners
    <2> QED
      BY <1>1, <2>1, <2>2, <2>3 DEF Sound, LeadersAgree, States
  <1>3. CASE Owners(g, n) = {}
    <2> DEFINE id == g.made
               w == [v EXCEPT ![id] = Worth(v, n)]
               nodes == [g.nodes EXCEPT ![id] = {n}]
               facts == [g.fact EXCEPT ![id] = Fact(g, n)]
               uses == [i \in Id |-> IF \E k \in DOMAIN n.kids : Find(g, n.kids[k]) = i
                                     THEN g.uses[i] \cup {<<n, id>>} ELSE g.uses[i]]
               memo == g.memo \cup {<<n, id>>}
               h == Added(g, n)
    <2>1. id \in Id /\ id \notin Made(g)
      BY <1>1, <1>3, MaxIdsIsNat DEF HasRoom, Id, Made
    <2>2. h = [g EXCEPT !.made = id + 1, !.nodes = nodes, !.fact = facts, !.uses = uses,
                        !.memo = memo, !.learned = g.learned \cup {id}]
      BY <1>3 DEF Added
    <2>3. /\ h.made = id + 1 /\ h.leader = g.leader /\ h.nodes = nodes /\ h.fact = facts
          /\ h.uses = uses /\ h.memo = memo
      BY <1>1, <2>2 DEF Graph
    <2>4. Grown(g, v, n) = w /\ LandsIn(g, n) = id
      BY <1>3 DEF Grown, LandsIn
    <2>5. w \in [Id -> Known] /\ w[id] = Worth(v, n) /\ \A i \in Made(g) : w[i] = v[i]
      BY <1>1, <2>1, WorthIsKnown
    <2>6. Made(h) = Made(g) \cup {id}
      BY <1>1, <2>3 DEF Made
    <2>7. h \in Graph
      <3>1. id + 1 \in 0 .. MaxIds
        BY <1>1, <1>3, MaxIdsIsNat DEF HasRoom
      <3>2. nodes \in [Id -> SUBSET Node] /\ uses \in [Id -> SUBSET (Node \X Id)]
            /\ memo \in SUBSET (Node \X Id) /\ g.learned \cup {id} \in SUBSET Id
        BY <1>1, <2>1
      <3>3. facts \in [Id -> Known]
        BY <1>1, FactIsWorth
      <3> HIDE DEF id, w, nodes, facts, uses, memo, h
      <3> QED
        BY <1>1, <2>2, <3>1, <3>2, <3>3 DEF Graph
    <2>8. States(h, w, n, id)
      <3>1. [k \in DOMAIN n.kids |-> w[n.kids[k]]] = [k \in DOMAIN n.kids |-> v[n.kids[k]]]
        BY <2>5
      <3>2. Worth(w, n) = Worth(v, n)
        BY <3>1 DEF Worth
      <3> QED
        BY <2>5, <2>6, <3>2 DEF States
    <2>9. \A m, c : States(g, v, m, c) => States(h, w, m, c)
      <3>1. g.made <= h.made
        BY <1>1, <2>3
      <3> HIDE DEF h, w
      <3> QED
        BY <1>1, <2>5, <2>7, <3>1, StatesLater
    <2>10. LeadersAgree(h, w)
      <3>1. \A i \in Id : w[g.leader[i]] = w[i]
        <4> TAKE i \in Id
        <4>1. CASE i \in Made(g)
          BY <2>5, <4>1 DEF Sound, LeadersAgree
        <4>2. CASE i \notin Made(g)
          BY <4>2 DEF Sound, LeadersAgree
        <4> QED
          BY <4>1, <4>2
      <3>2. \A i \in Made(h) : g.leader[i] \in Made(h)
        BY <2>1, <2>6 DEF Sound, LeadersAgree
      <3>3. \A i \in Id \ Made(h) : g.leader[i] = i /\ w[i] = None
        BY <1>1, <2>6 DEF Sound, LeadersAgree
      <3> QED
        BY <2>3, <3>1, <3>2, <3>3 DEF LeadersAgree
    <2> HIDE DEF h, w
    <2>11. NodesAgree(h, w)
      <3> SUFFICES ASSUME NEW c \in Id, NEW m \in nodes[c] PROVE States(h, w, m, c)
        BY <2>3 DEF NodesAgree
      <3>1. CASE c = id
        BY <1>1, <2>1, <2>8, <3>1
      <3>2. CASE c # id
        BY <1>1, <2>9, <3>2 DEF Sound, NodesAgree
      <3> QED
        BY <3>1, <3>2
    <2>12. UsesAgree(h, w)
      <3> SUFFICES ASSUME NEW c \in Id, NEW e \in uses[c] PROVE States(h, w, e[1], e[2])
        BY <2>3 DEF UsesAgree
      <3>1. e \in g.uses[c] \/ e = <<n, id>>
        OBVIOUS
      <3> QED
        BY <2>8, <2>9, <3>1 DEF Sound, UsesAgree
    <2>13. MemoAgrees(h, w)
      <3> SUFFICES ASSUME NEW e \in memo PROVE States(h, w, e[1], e[2])
        BY <2>3 DEF MemoAgrees
      <3> QED
        BY <2>8, <2>9 DEF Sound, MemoAgrees
    <2>14. FactsAgree(h, w)
      <3> SUFFICES ASSUME NEW c \in Id, facts[c] # None PROVE facts[c] = w[c]
        BY <2>3 DEF FactsAgree
      <3>1. CASE c = id
        BY <1>1, <2>1, <2>5, <3>1, FactIsWorth
      <3>2. CASE c # id
        BY <1>1, <3>2 DEF Sound, FactsAgree, w
      <3> QED
        BY <3>1, <3>2
    <2> QED
      BY <2>1, <2>3, <2>4, <2>5, <2>6, <2>7, <2>10, <2>11, <2>12, <2>13, <2>14
      DEF Sound, h
  <1> QED
    BY <1>2, <1>3

\* A graph with the same classes whose parts state what those of a sound one
\* may is sound.
LEMMA ChangedParts ==
  ASSUME NEW g, NEW v, Sound(g, v), NEW h \in Graph, h.made = g.made, h.leader = g.leader,
         \A c \in Id : \A n \in h.nodes[c] : States(g, v, n, c),
         \A c \in Id : \A e \in h.uses[c] : States(g, v, e[1], e[2]),
         \A e \in h.memo : States(g, v, e[1], e[2]),
         FactsAgree(h, v)
  PROVE  Sound(h, v)
  <1>1. \A n, c : States(g, v, n, c) => States(h, v, n, c)
    BY SameMade
  <1>2. LeadersAgree(h, v)
    BY DEF Sound, LeadersAgree, Made
  <1> QED
    BY <1>1, <1>2 DEF Sound, NodesAgree, UsesAgree, MemoAgrees

\* A hashcons entry that agrees with the values keeps the graph sound
\* (memo.insert in repair).
LEMMA KeyedIsSound ==
  ASSUME NEW g, NEW v, Sound(g, v), NEW n, NEW i, States(g, v, n, i)
  PROVE  Sound(Keyed(g, n, i), v) /\ Keyed(g, n, i).made = g.made
  <1> DEFINE memo == {e \in g.memo : e[1] # n} \cup {<<n, i>>}
             h == Keyed(g, n, i)
  <1>1. g \in Graph
    BY DEF Sound
  <1>2. /\ memo \subseteq Node \X Id
        /\ \A e \in memo : States(g, v, e[1], e[2])
    <2>1. n \in Node /\ i \in Id
      BY <1>1, MadeIds DEF States
    <2>2. g.memo \in SUBSET (Node \X Id)
      BY <1>1 DEF Graph
    <2>3. \A e \in memo : e \in g.memo \/ e = <<n, i>>
      OBVIOUS
    <2> QED
      BY <2>1, <2>2, <2>3 DEF Sound, MemoAgrees
  <1>3. h = [g EXCEPT !.memo = memo]
    BY DEF Keyed
  <1> HIDE DEF memo, h
  <1>4. /\ h \in Graph /\ h.made = g.made /\ h.leader = g.leader /\ h.nodes = g.nodes
        /\ h.uses = g.uses /\ h.memo = memo /\ h.fact = g.fact
    BY <1>1, <1>2, <1>3 DEF Graph
  <1>5. Sound(h, v)
    BY <1>2, <1>4, ChangedParts DEF Sound, NodesAgree, UsesAgree, FactsAgree
  <1> QED
    BY <1>4, <1>5 DEF h

\* Nodes, hashcons and parent lists made afresh state what the nodes did (reindex).
LEMMA ReindexedIsSound ==
  ASSUME NEW g, NEW v, Sound(g, v)
  PROVE  Sound(Reindexed(g), v) /\ Reindexed(g).made = g.made
  <1> DEFINE nodes == [c \in Id |-> {Canonical(g, n) : n \in g.nodes[c]}]
             held == UNION {{<<n, c>> : n \in nodes[c]} : c \in Classes(g)}
             memo == {e \in held : \A f \in held : f[1] = e[1] => f[2] <= e[2]}
             uses == [c \in Id |-> {e \in held :
                        \E k \in DOMAIN e[1].kids : Find(g, e[1].kids[k]) = c}]
             h == Reindexed(g)
  <1>1. g \in Graph
    BY DEF Sound
  <1>2. \A c \in Id : \A n \in nodes[c] : States(g, v, n, c)
    BY CanonicalStates DEF Sound, NodesAgree
  <1>3. Classes(g) \subseteq Id
    BY <1>1, MadeIds DEF Classes
  <1>4. \A e \in held : e \in Node \X Id /\ States(g, v, e[1], e[2])
    <2> TAKE e \in held
    <2>0. PICK c \in Classes(g) : \E n \in nodes[c] : e = <<n, c>>
      OBVIOUS
    <2>1. PICK n \in nodes[c] : e = <<n, c>>
      BY <2>0
    <2>2. c \in Id /\ States(g, v, n, c)
      BY <1>2, <1>3
    <2> QED
      BY <2>1, <2>2 DEF States
  <1>5. h = [g EXCEPT !.nodes = nodes, !.memo = memo, !.uses = uses]
    BY DEF Reindexed
  <1>6. nodes \in [Id -> SUBSET Node]
    BY <1>2 DEF States
  <1> HIDE DEF nodes, held
  <1>7. memo \in SUBSET (Node \X Id) /\ uses \in [Id -> SUBSET (Node \X Id)]
    BY <1>4
  <1>8. /\ \A e \in memo : States(g, v, e[1], e[2])
        /\ \A c \in Id : \A e \in uses[c] : States(g, v, e[1], e[2])
    BY <1>4
  <1> HIDE DEF memo, uses, h
  <1>9. /\ h \in Graph /\ h.made = g.made /\ h.leader = g.leader /\ h.nodes = nodes
        /\ h.uses = uses /\ h.memo = memo /\ h.fact = g.fact
    BY <1>1, <1>5, <1>6, <1>7 DEF Graph
  <1>10. Sound(h, v)
    BY <1>2, <1>8, <1>9, ChangedParts DEF Sound, FactsAgree
  <1> QED
    BY <1>9, <1>10 DEF h

----------------------------------------------------------------------------
(* The invariant, and each action.                                          *)

RepairAgrees ==
  /\ \A p \in left : States(graph, value, p[1], p[2])
  /\ \A s \in seen : States(graph, value, s.node, s.owner)

IInv ==
  /\ TypeOK
  /\ Sound(graph, value)
  /\ RepairAgrees
  /\ phase \in {"facts", "modify"} => rounds <= MaxRounds

\* The empty graph satisfies the invariant (EGraph::new).
LEMMA InitHolds == Init => IInv
  <1> SUFFICES ASSUME Init PROVE IInv
    OBVIOUS
  <1>1. EmptyGraph \in Graph
    BY MaxIdsIsNat DEF EmptyGraph, Graph, Known
  <1>2. Made(EmptyGraph) = {}
    BY DEF EmptyGraph, Made
  <1>3. value \in [Id -> Known] /\ term \in [Id -> Node \cup {<<>>}]
    BY DEF Init, Known
  <1>4. Sound(EmptyGraph, value)
    BY <1>1, <1>2, <1>3 DEF Init, EmptyGraph, Sound, LeadersAgree, NodesAgree, UsesAgree,
                            MemoAgrees, FactsAgree
  <1>5. 0 \in Id
    BY BoundsAreFinite, FS_CardinalityType DEF Id, MaxIds
  <1> QED
    BY <1>1, <1>3, <1>4, <1>5, BoundsAreFinite DEF Init, IInv, TypeOK, RepairAgrees

\* While no id is made, what repair holds stays stated.
LEMMA RepairStaysAgreed ==
  ASSUME RepairAgrees, graph'.made = graph.made, UNCHANGED <<value, left, seen>>
  PROVE  RepairAgrees'
  <1>1. \A n, c : States(graph, value, n, c) => States(graph', value', n, c)
    BY SameMade
  <1> QED
    BY <1>1 DEF RepairAgrees

\* The values remembered are those of the grown graph.
LEMMA RememberedIsGrown ==
  ASSUME IInv, NEW n \in Node, HasRoom(graph, n), Remembers(n),
         graph'.made = Added(graph, n).made
  PROVE  value' = Grown(graph, value, n) /\ term' \in [Id -> Node \cup {<<>>}]
  <1>1. graph \in Graph /\ graph.made \in Nat
    BY MadeIds DEF IInv, TypeOK
  <1>2. CASE Owners(graph, n) # {}
    <2>1. Added(graph, n).made = graph.made
      BY <1>2 DEF Added
    <2> QED
      BY <1>2, <2>1 DEF Remembers, Grown, IInv, TypeOK
  <1>3. CASE Owners(graph, n) = {}
    <2>1. Added(graph, n).made = graph.made + 1
      BY <1>1, <1>3 DEF Added, Graph
    <2> QED
      BY <1>1, <1>3, <2>1 DEF Remembers, Grown, IInv, TypeOK
  <1> QED
    BY <1>2, <1>3

\* A node more, and what repair holds stays stated too.
LEMMA RepairStaysAgreedLater ==
  ASSUME IInv, NEW n \in Node, HasRoom(graph, n),
         \A k \in DOMAIN n.kids : n.kids[k] \in Made(graph),
         value' = Grown(graph, value, n), graph'.made = Added(graph, n).made,
         graph' \in Graph, UNCHANGED <<left, seen>>
  PROVE  RepairAgrees'
  <1>1. /\ Sound(graph, value) /\ Sound(Added(graph, n), value')
        /\ \A i \in Made(graph) : value'[i] = value[i]
    BY AddedIsSound DEF IInv
  <1>2. /\ graph \in Graph /\ Added(graph, n) \in Graph
        /\ value \in [Id -> Known] /\ value' \in [Id -> Known]
    BY <1>1 DEF Sound
  <1>3. graph.made <= graph'.made
    <2>1. graph.made \in Nat
      BY <1>2, MadeIds
    <2>2. CASE Owners(graph, n) # {}
      BY <2>1, <2>2 DEF Added
    <2>3. CASE Owners(graph, n) = {}
      <3>1. Added(graph, n).made = graph.made + 1
        BY <1>2, <2>1, <2>3 DEF Added, Graph
      <3> QED
        BY <2>1, <3>1
    <2> QED
      BY <2>2, <2>3
  <1>4. \A m, c : States(graph, value, m, c) => States(graph', value', m, c)
    BY <1>1, <1>2, <1>3, StatesLater
  <1> QED
    BY <1>4 DEF RepairAgrees, IInv

\* add keeps the invariant.
LEMMA AddKeeps ==
  ASSUME IInv, NEW n \in Node, Add(n)
  PROVE  IInv'
  <1>1. \A k \in DOMAIN n.kids : n.kids[k] \in Made(graph)
    BY DEF Add, Classes
  <1>2. HasRoom(graph, n)
    BY BoundsAreFinite, FS_CardinalityType DEF HasRoom, Add, MaxIds, IInv, TypeOK, Graph
  <1>3. /\ graph' = Added(graph, n) /\ Remembers(n)
        /\ phase \in {"clean", "dirty"} /\ phase' \in {"clean", "dirty"}
        /\ UNCHANGED <<rebuildVars, curtailed>>
    BY DEF Add, Between
  <1>4. value' = Grown(graph, value, n) /\ term' \in [Id -> Node \cup {<<>>}]
    BY <1>2, <1>3, RememberedIsGrown
  <1>5. Sound(graph', value')
    BY <1>1, <1>2, <1>3, <1>4, AddedIsSound DEF IInv
  <1>6. RepairAgrees'
    BY <1>1, <1>2, <1>3, <1>4, <1>5, RepairStaysAgreedLater DEF Sound, rebuildVars
  <1> QED
    BY <1>3, <1>4, <1>5, <1>6 DEF IInv, TypeOK, Sound, rebuildVars

\* union of two classes of one worth keeps the invariant.
LEMMA UnionKeeps ==
  ASSUME IInv, NEW a \in Classes(graph), NEW b \in Classes(graph), Union(a, b)
  PROVE  IInv'
  <1>1. /\ graph' = United(graph, a, b, Asserted)
        /\ value[a] = value[b]
        /\ phase \in {"clean", "dirty"} /\ phase' \in {"clean", "dirty"}
        /\ UNCHANGED <<rebuildVars, ghosts>>
    BY DEF Union, Between
  <1>2. Asserted \in Why /\ a \in Made(graph) /\ b \in Made(graph)
    BY DEF Why, Classes
  <1>3. Sound(graph', value') /\ graph'.made = graph.made
    BY <1>1, <1>2, UnitedIsSound DEF IInv, ghosts
  <1>4. RepairAgrees'
    BY <1>1, <1>3, RepairStaysAgreed DEF IInv, rebuildVars, ghosts
  <1> QED
    BY <1>1, <1>3, <1>4 DEF IInv, TypeOK, Sound, rebuildVars, ghosts

\* Taking the worklist of restore_congruence keeps the invariant.
LEMMA TakePendingKeeps ==
  ASSUME IInv, TakePending
  PROVE  IInv'
  <1>1. /\ graph \in Graph /\ graph' = [graph EXCEPT !.pending = {}]
        /\ todo' = {Find(graph, i) : i \in graph.pending}
        /\ phase' = "congruence"
        /\ UNCHANGED <<rounds, repairing, left, seen, queue, forced, changed, fuel, ghosts>>
    BY DEF TakePending, IInv, TypeOK
  <1>2. /\ graph' \in Graph /\ graph'.made = graph.made /\ graph'.leader = graph.leader
        /\ graph'.nodes = graph.nodes /\ graph'.uses = graph.uses
        /\ graph'.memo = graph.memo /\ graph'.fact = graph.fact
    BY <1>1 DEF Graph
  <1>3. todo' \in SUBSET Id
    BY <1>1 DEF Find, Graph
  <1>4. Sound(graph', value)
    BY <1>2, ChangedParts DEF IInv, Sound, NodesAgree, UsesAgree, MemoAgrees, FactsAgree
  <1>5. RepairAgrees'
    BY <1>1, <1>2, RepairStaysAgreed DEF IInv, ghosts
  <1> QED
    BY <1>1, <1>2, <1>3, <1>4, <1>5 DEF IInv, TypeOK, ghosts

\* What repair takes out of the parent list, it holds as agreed.
LEMMA BeginRepairKeeps ==
  ASSUME IInv, NEW i \in todo, BeginRepair(i)
  PROVE  IInv'
  <1> DEFINE id == graph.leader[i]
             uses == [graph.uses EXCEPT ![id] = {}]
             memo == {e \in graph.memo : \A p \in graph.uses[id] : p[1] # e[1]}
  <1>1. /\ graph \in Graph /\ graph' = [graph EXCEPT !.uses = uses, !.memo = memo]
        /\ phase' = "repair" /\ todo' = todo \ {i} /\ repairing' = id
        /\ left' = graph.uses[id] /\ seen' = {}
        /\ UNCHANGED <<rounds, queue, forced, changed, fuel, ghosts>>
    BY DEF BeginRepair, Find, IInv, TypeOK
  <1>2. i \in Id /\ id \in Id
    BY <1>1 DEF IInv, TypeOK, Graph
  <1>3. /\ uses \in [Id -> SUBSET (Node \X Id)] /\ memo \in SUBSET (Node \X Id)
        /\ left' \subseteq Node \X Id
    BY <1>1, <1>2 DEF Graph
  <1>4. /\ \A c \in Id : \A e \in uses[c] : e \in graph.uses[c]
        /\ \A e \in memo : e \in graph.memo
    BY <1>1, <1>2 DEF Graph
  <1> HIDE DEF uses, memo
  <1>5. /\ graph' \in Graph /\ graph'.made = graph.made /\ graph'.leader = graph.leader
        /\ graph'.nodes = graph.nodes /\ graph'.uses = uses
        /\ graph'.memo = memo /\ graph'.fact = graph.fact
    BY <1>1, <1>3 DEF Graph
  <1>6. Sound(graph', value)
    BY <1>4, <1>5, ChangedParts DEF IInv, Sound, NodesAgree, UsesAgree, MemoAgrees, FactsAgree
  <1>7. RepairAgrees'
    <2>1. \A p \in left' : States(graph, value, p[1], p[2])
      BY <1>1, <1>2 DEF IInv, Sound, UsesAgree
    <2>2. \A n, c : States(graph, value, n, c) => States(graph', value, n, c)
      BY <1>5, SameMade
    <2> QED
      BY <1>1, <2>1, <2>2 DEF RepairAgrees, ghosts
  <1> QED
    BY <1>1, <1>2, <1>3, <1>5, <1>6, <1>7 DEF IInv, TypeOK, ghosts

\* What repair puts back agrees with the values.
LEMMA EndRepairKeeps ==
  ASSUME IInv, EndRepair
  PROVE  IInv'
  <1> DEFINE root == graph.leader[repairing]
             new == {<<s.node, s.owner>> : s \in seen}
             uses == [graph.uses EXCEPT ![root] = @ \cup new]
  <1>1. /\ graph \in Graph /\ graph' = [graph EXCEPT !.uses = uses]
        /\ phase' = "congruence" /\ seen' = {} /\ repairing' = 0
        /\ UNCHANGED <<rounds, todo, left, queue, forced, changed, fuel, ghosts>>
    BY DEF EndRepair, Find, IInv, TypeOK
  <1>2. root \in Id /\ 0 \in Id
    BY <1>1, BoundsAreFinite, FS_CardinalityType DEF IInv, TypeOK, Graph, Id, MaxIds
  <1>3. new \subseteq Node \X Id /\ \A e \in new : States(graph, value, e[1], e[2])
    BY DEF IInv, TypeOK, RepairAgrees
  <1> HIDE DEF new
  <1>4. uses \in [Id -> SUBSET (Node \X Id)]
    BY <1>1, <1>2, <1>3 DEF Graph
  <1>5. \A c \in Id : \A e \in uses[c] : e \in graph.uses[c] \/ e \in new
    BY <1>1, <1>2 DEF Graph
  <1> HIDE DEF uses
  <1>6. /\ graph' \in Graph /\ graph'.made = graph.made /\ graph'.leader = graph.leader
        /\ graph'.nodes = graph.nodes /\ graph'.uses = uses
        /\ graph'.memo = graph.memo /\ graph'.fact = graph.fact
    BY <1>1, <1>4 DEF Graph
  <1>7. Sound(graph', value)
    BY <1>3, <1>5, <1>6, ChangedParts
    DEF IInv, Sound, NodesAgree, UsesAgree, MemoAgrees, FactsAgree
  <1>8. RepairAgrees'
    <2>1. \A n, c : States(graph, value, n, c) => States(graph', value, n, c)
      BY <1>6, SameMade
    <2> QED
      BY <1>1, <2>1 DEF IInv, RepairAgrees, ghosts
  <1> QED
    BY <1>1, <1>2, <1>6, <1>7, <1>8 DEF IInv, TypeOK, ghosts

\* Two parents of one canonical form are worth the same, so that the union of a
\* congruence keeps the invariant (repair).
LEMMA RepairParentKeeps ==
  ASSUME IInv, NEW p \in left, RepairParent(p)
  PROVE  IInv'
  <1> DEFINE node == Canonical(graph, p[1])
             owner == graph.leader[p[2]]
  <1>1. /\ Sound(graph, value) /\ graph \in Graph
        /\ left' = left \ {p} /\ phase = "repair"
        /\ NewParent(node, owner, p[1]) \/ CongruentParent(node, owner, p[1])
        /\ UNCHANGED <<phase, rounds, todo, repairing, queue, forced, changed, fuel, ghosts>>
    BY DEF RepairParent, Find, IInv, TypeOK
  <1>2. p[1] \in Node /\ States(graph, value, node, p[2])
    BY <1>1, CanonicalStates DEF IInv, TypeOK, RepairAgrees
  <1>3. States(graph, value, node, owner) /\ owner \in Id
    BY <1>1, <1>2, MadeIds DEF Sound, LeadersAgree, States
  <1> HIDE DEF node, owner
  <1>4. SUFFICES /\ Sound(graph', value) /\ graph'.made = graph.made
                 /\ seen' \subseteq [node : Node, owner : Id, stored : Node]
                 /\ \A s \in seen' : States(graph, value, s.node, s.owner)
    <2> SUFFICES ASSUME Sound(graph', value), graph'.made = graph.made,
                        seen' \subseteq [node : Node, owner : Id, stored : Node],
                        \A s \in seen' : States(graph, value, s.node, s.owner)
                 PROVE  IInv'
      OBVIOUS
    <2>1. \A n, c : States(graph, value, n, c) => States(graph', value, n, c)
      BY SameMade
    <2>2. RepairAgrees'
      BY <1>1, <2>1 DEF IInv, RepairAgrees, ghosts
    <2> QED
      BY <1>1, <2>2 DEF IInv, TypeOK, Sound, ghosts
  <1>5. CASE NewParent(node, owner, p[1])
    <2> DEFINE new == [node |-> node, owner |-> owner, stored |-> p[1]]
    <2>1. seen' = seen \cup {new} /\ graph' = Keyed(graph, node, owner)
      BY <1>5 DEF NewParent
    <2>2. Sound(graph', value) /\ graph'.made = graph.made
      BY <1>1, <1>3, <2>1, KeyedIsSound
    <2>3. new \in [node : Node, owner : Id, stored : Node]
      BY <1>2, <1>3 DEF States
    <2> QED
      BY <1>3, <2>1, <2>2, <2>3 DEF IInv, TypeOK, RepairAgrees
  <1>6. CASE CongruentParent(node, owner, p[1])
    <2>1. PICK s \in seen :
            LET g == United(graph, s.owner, owner, Congruence(s.stored, p[1])) IN
            /\ s.node = node
            /\ seen' = (seen \ {s}) \cup {[s EXCEPT !.owner = Find(g, owner)]}
            /\ graph' = Keyed(g, node, Find(g, owner))
      BY <1>6 DEF CongruentParent
    <2> DEFINE why == Congruence(s.stored, p[1])
               g == United(graph, s.owner, owner, why)
               root == g.leader[owner]
               new == [s EXCEPT !.owner = root]
    <2>2. /\ s \in [node : Node, owner : Id, stored : Node] /\ s.node = node
          /\ States(graph, value, s.node, s.owner)
      BY <2>1 DEF IInv, TypeOK, RepairAgrees
    <2>3. /\ s.owner \in Made(graph) /\ owner \in Made(graph)
          /\ value[s.owner] = value[owner]
      BY <1>3, <2>2 DEF States
    <2>4. why \in Why
      BY <1>2, <2>2 DEF Why, Congruence
    <2>5. /\ seen' = (seen \ {s}) \cup {new}
          /\ graph' = Keyed(g, node, root)
      BY <2>1 DEF Find
    <2> HIDE DEF why
    <2>6. Sound(g, value) /\ g.made = graph.made
      BY <1>1, <2>3, <2>4, UnitedIsSound
    <2> HIDE DEF g
    <2>7. States(g, value, node, root) /\ root \in Id
      <3>1. States(g, value, node, owner)
        BY <1>3, <2>6, SameMade
      <3> QED
        BY <1>3, <2>6, <3>1, MadeIds DEF Sound, LeadersAgree, States
    <2>8. Sound(graph', value) /\ graph'.made = graph.made
      BY <2>5, <2>6, <2>7, KeyedIsSound
    <2>9. States(graph, value, node, root)
      BY <2>6, <2>7, SameMade
    <2>10. new = [node |-> node, owner |-> root, stored |-> s.stored]
      BY <2>2
    <2> HIDE DEF root, new
    <2> QED
      BY <2>2, <2>5, <2>7, <2>8, <2>9, <2>10 DEF IInv, TypeOK, RepairAgrees, States
  <1> QED
    BY <1>1, <1>5, <1>6

\* Any order of a set of ids is a sequence of ids.
LEMMA OrderIsSeq ==
  ASSUME NEW S \in SUBSET Id, NEW order \in SetToSeqs(S)
  PROVE  order \in Seq(Id)
  <1>1. IsFiniteSet(S) /\ Cardinality(S) \in Nat
    <2>1. IsFiniteSet(Id)
      BY MaxIdsIsNat, FS_Interval DEF Id
    <2> QED
      BY <2>1, FS_Subset, FS_CardinalityType
  <1>2. order \in [1 .. Cardinality(S) -> S]
    BY DEF SetToSeqs
  <1> QED
    BY <1>1, <1>2

\* Seeding the queue of propagate_analysis keeps the invariant.
LEMMA BeginFactsKeeps ==
  ASSUME IInv, BeginFacts
  PROVE  IInv'
  <1> DEFINE seeds == {Find(graph, i) : i \in graph.learned}
  <1>1. /\ graph \in Graph /\ graph' = [graph EXCEPT !.learned = {}]
        /\ phase' = "facts" /\ rounds <= MaxRounds
        /\ queue' = Increasing(seeds)
        /\ forced' = seeds /\ changed' = {}
        /\ fuel' = FuelPerClass * Cardinality(Classes(graph)) + FuelFloor
        /\ UNCHANGED <<rounds, todo, repairing, left, seen, ghosts>>
    BY DEF BeginFacts, IInv, TypeOK
  <1>2. seeds \in SUBSET Id
    BY <1>1 DEF Find, Graph
  <1>3. IsFiniteSet(Id)
    BY MaxIdsIsNat, FS_Interval DEF Id
  <1>4. queue' \in Seq(Id)
    <2> HIDE DEF seeds
    <2>1. seeds \in SUBSET Nat
      BY <1>2, MaxIdsIsNat DEF Id
    <2>2. IsFiniteSet(seeds)
      BY <1>2, <1>3, FS_Subset
    <2> QED
      BY <1>1, <1>2, <2>1, <2>2, IncreasingLists, OrderIsSeq DEF Lists
  <1>5. fuel' \in Nat
    <2>1. Classes(graph) \subseteq Id
      BY <1>1, MadeIds DEF Classes
    <2>2. Cardinality(Classes(graph)) \in Nat
      BY <1>3, <2>1, FS_Subset, FS_CardinalityType
    <2> QED
      BY <1>1, <2>2, BoundsAreFinite
  <1> HIDE DEF seeds
  <1>6. /\ graph' \in Graph /\ graph'.made = graph.made /\ graph'.leader = graph.leader
        /\ graph'.nodes = graph.nodes /\ graph'.uses = graph.uses
        /\ graph'.memo = graph.memo /\ graph'.fact = graph.fact
    BY <1>1 DEF Graph
  <1>7. Sound(graph', value)
    BY <1>6, ChangedParts DEF IInv, Sound, NodesAgree, UsesAgree, MemoAgrees, FactsAgree
  <1>8. RepairAgrees'
    BY <1>1, <1>6, RepairStaysAgreed DEF IInv, ghosts
  <1> QED
    BY <1>1, <1>2, <1>4, <1>5, <1>6, <1>7, <1>8 DEF IInv, TypeOK, ghosts

\* A recomputed fact is sound whatever the queue holds (propagate_analysis).
LEMMA PopClassKeeps ==
  ASSUME IInv, NEW order \in SetToSeqs(Untold), PopClass(order)
  PROVE  IInv'
  <1> DEFINE id == Last(queue)
             new == Recomputed(graph, id)
             facts == [graph.fact EXCEPT ![id] = new]
  <1>1. /\ graph \in Graph /\ queue \in Seq(Id) /\ queue # <<>> /\ fuel > 0 /\ fuel \in Nat
        /\ fuel' = fuel - 1 /\ graph' = [graph EXCEPT !.fact = facts]
        /\ forced' = forced \ {id} /\ phase = "facts"
        /\ \/ /\ changed' = changed \cup {id}
              /\ queue' = Front(queue) \o order
           \/ queue' = Front(queue) /\ changed' = changed
        /\ UNCHANGED <<phase, rounds, todo, repairing, left, seen, ghosts>>
    BY DEF PopClass, FuelLeft, IInv, TypeOK
  <1>2. id \in Id
    BY <1>1 DEF Last
  <1>3. Front(queue) \in Seq(Id)
    BY <1>1 DEF Front
  <1>4. Untold \in SUBSET Id
    BY <1>1, <1>2 DEF Untold, Find, Graph
  <1>5. /\ facts \in [Id -> Known]
        /\ \A c \in Id : facts[c] # None => facts[c] = value[c]
    <2>1. new \in Known /\ (new # None => new = value[id])
      BY <1>2, RecomputedAgrees DEF IInv
    <2>2. /\ graph.fact \in [Id -> Known]
          /\ \A c \in Id : graph.fact[c] # None => graph.fact[c] = value[c]
      BY <1>1 DEF IInv, Sound, FactsAgree, Graph
    <2> HIDE DEF id, new
    <2> QED
      BY <1>2, <2>1, <2>2
  <1> HIDE DEF id, new, facts
  <1>6. queue' \in Seq(Id) /\ changed' \in SUBSET Id
    <2>1. Front(queue) \o order \in Seq(Id)
      BY <1>3, <1>4, OrderIsSeq
    <2>2. changed \in SUBSET Id
      BY DEF IInv, TypeOK
    <2> QED
      BY <1>1, <1>2, <1>3, <2>1, <2>2
  <1>7. /\ graph' \in Graph /\ graph'.made = graph.made /\ graph'.leader = graph.leader
        /\ graph'.nodes = graph.nodes /\ graph'.uses = graph.uses
        /\ graph'.memo = graph.memo /\ graph'.fact = facts
    BY <1>1, <1>5 DEF Graph
  <1>8. Sound(graph', value)
    BY <1>5, <1>7, ChangedParts DEF IInv, Sound, NodesAgree, UsesAgree, MemoAgrees, FactsAgree
  <1>9. RepairAgrees'
    BY <1>1, <1>7, RepairStaysAgreed DEF IInv, ghosts
  <1>10. fuel' \in Nat /\ forced' \in SUBSET Id
    BY <1>1 DEF IInv, TypeOK
  <1> QED
    BY <1>1, <1>6, <1>7, <1>8, <1>9, <1>10 DEF IInv, TypeOK, ghosts

\* Stopping for want of fuel keeps the invariant: it changes no fact.
LEMMA EndFactsKeeps ==
  ASSUME IInv, EndFacts
  PROVE  IInv'
  <1>1. /\ UNCHANGED <<graph, rounds, todo, repairing, left, seen, changed, term, value>>
        /\ phase = "facts" /\ phase' = "modify"
        /\ queue' = <<>> /\ forced' = {} /\ fuel' = 0
        /\ curtailed' = (curtailed \/ queue # <<>>)
    BY DEF EndFacts
  <1>2. curtailed' \in BOOLEAN
    BY <1>1 DEF IInv, TypeOK
  <1>3. RepairAgrees'
    BY <1>1, RepairStaysAgreed DEF IInv
  <1> QED
    BY <1>1, <1>2, <1>3 DEF IInv, TypeOK

\* A class and the literal of its constant are worth the same (modify).
LEMMA ModifyKeeps ==
  ASSUME IInv, NEW id \in changed, Modify(id)
  PROVE  IInv'
  <1> DEFINE c == graph.fact[graph.leader[id]]
             lit == LiteralNode(c)
             folds == c # None /\ lit \notin graph.nodes[graph.leader[id]]
             g == Added(graph, lit)
             lands == LandsIn(graph, lit)
  <1>1. /\ Sound(graph, value) /\ graph \in Graph /\ id \in Id /\ phase = "modify"
        /\ changed' = changed \ {id}
        /\ folds => HasRoom(graph, lit)
        /\ graph' = IF folds THEN United(g, id, lands, Folded) ELSE graph
        /\ Remembers(lit)
        /\ UNCHANGED <<phase, rounds, todo, repairing, left, seen, queue, forced, fuel,
                       curtailed>>
    BY DEF Modify, Find, IInv, TypeOK
  <1>2. CASE ~ folds
    <2>1. graph' = graph /\ UNCHANGED <<term, value>>
      BY <1>1, <1>2 DEF Remembers
    <2>2. RepairAgrees'
      BY <1>1, <2>1, RepairStaysAgreed DEF IInv
    <2> QED
      BY <1>1, <2>1, <2>2 DEF IInv, TypeOK
  <1>3. CASE folds
    <2>1. c \in Number /\ c = value[id]
      BY <1>1, <1>3 DEF Sound, LeadersAgree, FactsAgree, Graph, Known
    <2>2. id \in Made(graph)
      BY <1>1, <1>3, <2>1 DEF Sound, LeadersAgree
    <2>3. /\ lit \in Node /\ Worth(value, lit) = c
          /\ \A k \in DOMAIN lit.kids : lit.kids[k] \in Made(graph)
      BY <2>1 DEF LiteralNode, Node, Worth
    <2> HIDE DEF c, lit, g, lands
    <2>4. /\ Sound(g, Grown(graph, value, lit))
          /\ lands \in Made(g)
          /\ Grown(graph, value, lit)[lands] = c
          /\ id \in Made(g) /\ Grown(graph, value, lit)[id] = value[id]
      BY <1>1, <1>3, <2>2, <2>3, AddedIsSound DEF g, lands
    <2>5. Folded \in Why
      BY DEF Why
    <2>6. Sound(graph', Grown(graph, value, lit)) /\ graph'.made = g.made
      BY <1>1, <1>3, <2>1, <2>4, <2>5, UnitedIsSound
    <2>7. value' = Grown(graph, value, lit) /\ term' \in [Id -> Node \cup {<<>>}]
      BY <1>1, <1>3, <2>3, <2>6, RememberedIsGrown DEF g
    <2>8. RepairAgrees'
      BY <1>1, <1>3, <2>3, <2>6, <2>7, RepairStaysAgreedLater DEF g, Sound
    <2> QED
      BY <1>1, <2>6, <2>7, <2>8 DEF IInv, TypeOK, Sound
  <1> QED
    BY <1>2, <1>3

\* Another round, or giving up on facts, keeps the invariant (rebuild).
LEMMA NextRoundKeeps ==
  ASSUME IInv, NextRound
  PROVE  IInv'
  <1>1. /\ graph \in Graph /\ phase = "modify" /\ phase' = "congruence"
        /\ rounds' = rounds + 1
        /\ graph' = [graph EXCEPT !.learned = {}] \/ graph' = graph
        /\ curtailed' \in BOOLEAN
        /\ UNCHANGED <<todo, repairing, left, seen, queue, forced, changed, fuel, term, value>>
    BY DEF NextRound, IInv, TypeOK
  <1>2. rounds' \in 0 .. MaxRounds + 1
    BY <1>1, BoundsAreFinite DEF IInv, TypeOK
  <1>3. /\ graph' \in Graph /\ graph'.made = graph.made /\ graph'.leader = graph.leader
        /\ graph'.nodes = graph.nodes /\ graph'.uses = graph.uses
        /\ graph'.memo = graph.memo /\ graph'.fact = graph.fact
    BY <1>1 DEF Graph
  <1>4. Sound(graph', value)
    BY <1>3, ChangedParts DEF IInv, Sound, NodesAgree, UsesAgree, MemoAgrees, FactsAgree
  <1>5. RepairAgrees'
    BY <1>1, <1>3, RepairStaysAgreed DEF IInv
  <1> QED
    BY <1>1, <1>2, <1>3, <1>4, <1>5 DEF IInv, TypeOK

\* The end of rebuild keeps the invariant.
LEMMA FinishKeeps ==
  ASSUME IInv, Finish
  PROVE  IInv'
  <1>1. /\ phase' = "clean" /\ rounds' = 0 /\ graph' = Reindexed(graph)
        /\ UNCHANGED <<todo, repairing, left, seen, queue, forced, changed, fuel, ghosts>>
    BY DEF Finish
  <1>2. Sound(graph', value) /\ graph'.made = graph.made
    BY <1>1, ReindexedIsSound DEF IInv
  <1>3. RepairAgrees'
    BY <1>1, <1>2, RepairStaysAgreed DEF IInv, ghosts
  <1> QED
    BY <1>1, <1>2, <1>3, BoundsAreFinite DEF IInv, TypeOK, Sound, ghosts

\* Every step of rebuild keeps the invariant.
LEMMA RebuildKeeps == IInv /\ (Rebuild \/ RebuildStep) => IInv'
  <1> SUFFICES ASSUME IInv, Rebuild \/ RebuildStep PROVE IInv'
    OBVIOUS
  <1>3. CASE Rebuild
    <2>1. /\ phase' = "congruence" /\ rounds' = 0
          /\ UNCHANGED <<graph, todo, repairing, left, seen, queue, forced, changed, fuel,
                         ghosts>>
      BY <1>3 DEF Rebuild
    <2>2. RepairAgrees'
      BY <2>1, RepairStaysAgreed DEF IInv, ghosts
    <2> QED
      BY <2>1, <2>2, BoundsAreFinite DEF IInv, TypeOK, ghosts
  <1>4. CASE TakePending
    BY <1>4, TakePendingKeeps
  <1>5. ASSUME NEW i \in todo, BeginRepair(i) PROVE IInv'
    BY <1>5, BeginRepairKeeps
  <1>6. ASSUME NEW p \in left, RepairParent(p) PROVE IInv'
    BY <1>6, RepairParentKeeps
  <1>7. CASE EndRepair
    BY <1>7, EndRepairKeeps
  <1>8. CASE BeginFacts
    BY <1>8, BeginFactsKeeps
  <1>9. ASSUME NEW order \in SetToSeqs(Untold), PopClass(order) PROVE IInv'
    BY <1>9, PopClassKeeps
  <1>10. CASE EndFacts
    BY <1>10, EndFactsKeeps
  <1>11. ASSUME NEW i \in changed, Modify(i) PROVE IInv'
    BY <1>11, ModifyKeeps
  <1>12. CASE NextRound
    BY <1>12, NextRoundKeeps
  <1>13. CASE Finish
    BY <1>13, FinishKeeps
  <1> QED
    BY <1>3, <1>4, <1>5, <1>6, <1>7, <1>8, <1>9, <1>10, <1>11, <1>12, <1>13 DEF RebuildStep

\* Every step keeps the invariant.
LEMMA StepKeeps == IInv /\ [Next]_vars => IInv'
  <1> SUFFICES ASSUME IInv, [Next]_vars PROVE IInv'
    OBVIOUS
  <1>1. ASSUME NEW node \in Node, Add(node) PROVE IInv'
    BY <1>1, AddKeeps
  <1>2. ASSUME NEW a \in Classes(graph), NEW b \in Classes(graph), Union(a, b) PROVE IInv'
    BY <1>2, UnionKeeps
  <1>3. CASE Rebuild \/ RebuildStep
    BY <1>3, RebuildKeeps
  <1>4. CASE UNCHANGED vars
    <2>1. UNCHANGED <<graph, value, left, seen, phase, rounds, todo, repairing, queue, forced,
                      changed, fuel, term, curtailed>>
      BY <1>4 DEF vars, rebuildVars, ghosts
    <2>2. RepairAgrees'
      BY <2>1, RepairStaysAgreed DEF IInv
    <2> QED
      BY <2>1, <2>2 DEF IInv, TypeOK
  <1> QED
    BY <1>1, <1>2, <1>3, <1>4 DEF Next

----------------------------------------------------------------------------
(* The results.                                                             *)

\* Every variable keeps its type: above all, no call and no step of rebuild
\* leaves an id, a node or a fact where another kind of thing belongs.
THEOREM EGraphTypes == Spec => []TypeOK
  <1>1. IInv => TypeOK
    BY DEF IInv
  <1> QED
    BY InitHolds, StepKeeps, <1>1, PTL DEF Spec

\* Whatever nodes are added and equals declared, in whatever order the parents
\* come, and wherever fuel or rounds cut a rebuild short, a constant the graph
\* believes of a class is what each of its terms is worth (propagate_analysis,
\* modify, repair, union).
THEOREM FactsStaySound == Spec => []FactsAreSound
  <1>1. IInv => FactsAreSound
    <2> SUFFICES ASSUME IInv, NEW i \in Made(graph), graph.fact[graph.leader[i]] # None
                 PROVE  graph.fact[graph.leader[i]] = value[i]
      BY DEF FactsAreSound, Find
    <2>1. i \in Id /\ graph.leader[i] \in Id
      BY MadeIds DEF IInv, TypeOK
    <2> QED
      BY <2>1 DEF IInv, Sound, FactsAgree, LeadersAgree
  <1> QED
    BY InitHolds, StepKeeps, <1>1, PTL DEF Spec

----------------------------------------------------------------------------
(* Canonical forms.                                                         *)

Kids(n) == {n.kids[k] : k \in DOMAIN n.kids}

\* The classes of some ids.
Under(g, ids) == {g.leader[x] : x \in ids}

\* The canonical form of a leaf, of one argument and of two.
LEMMA FormOfLeaf ==
  ASSUME NEW g, NEW op, op \notin Commutative
  PROVE  Canonical(g, [op |-> op, kids |-> <<>>]) = [op |-> op, kids |-> <<>>]
  <1> DEFINE n == [op |-> op, kids |-> <<>>]
  <1>1. [k \in DOMAIN n.kids |-> Find(g, n.kids[k])] = <<>>
    OBVIOUS
  <1> QED
    BY <1>1 DEF Canonical, Normalized

LEMMA FormOfOne ==
  ASSUME NEW g, NEW op, NEW i, op \notin Commutative
  PROVE  Canonical(g, [op |-> op, kids |-> <<i>>]) = [op |-> op, kids |-> <<g.leader[i]>>]
  <1> DEFINE n == [op |-> op, kids |-> <<i>>]
  <1>1. [k \in DOMAIN n.kids |-> Find(g, n.kids[k])] = <<g.leader[i]>>
    BY DEF Find
  <1> QED
    BY <1>1 DEF Canonical, Normalized

LEMMA FormOfTwo ==
  ASSUME NEW g, NEW op, NEW i, NEW j, op \in Commutative
  PROVE  Canonical(g, [op |-> op, kids |-> <<i, j>>]) =
           IF g.leader[j] < g.leader[i]
           THEN [op |-> op, kids |-> <<g.leader[j], g.leader[i]>>]
           ELSE [op |-> op, kids |-> <<g.leader[i], g.leader[j]>>]
  <1> DEFINE n == [op |-> op, kids |-> <<i, j>>]
             m == [op |-> op, kids |-> <<g.leader[i], g.leader[j]>>]
  <1>1. [k \in DOMAIN n.kids |-> Find(g, n.kids[k])] = <<g.leader[i], g.leader[j]>>
    BY DEF Find
  <1>2. [n EXCEPT !.kids = [k \in DOMAIN n.kids |-> Find(g, n.kids[k])]] = m
    BY <1>1
  <1>3. m.op = op /\ m.kids[1] = g.leader[i] /\ m.kids[2] = g.leader[j]
    OBVIOUS
  <1>4. [m EXCEPT !.kids = <<m.kids[2], m.kids[1]>>]
          = [op |-> op, kids |-> <<g.leader[j], g.leader[i]>>]
    BY <1>3
  <1>5. Canonical(g, n) = Normalized(m)
    BY <1>2 DEF Canonical
  <1> HIDE DEF m
  <1>6. Normalized(m) = IF g.leader[j] < g.leader[i]
                        THEN [op |-> op, kids |-> <<g.leader[j], g.leader[i]>>] ELSE m
    BY <1>3, <1>4 DEF Normalized
  <1> QED
    BY <1>5, <1>6 DEF m

\* A canonical form is a node over the classes of the arguments (canonicalize).
LEMMA FormIsNode ==
  ASSUME NEW g \in Graph, NEW n \in Node
  PROVE  /\ Canonical(g, n) \in Node
         /\ Kids(n) \subseteq Id
         /\ Kids(Canonical(g, n)) = Under(g, Kids(n))
  <1>1. g.leader \in [Id -> Id]
    BY MadeIds
  <1>2. CASE n.op \in Var \cup Number /\ n = [op |-> n.op, kids |-> <<>>]
    <2>1. Canonical(g, n) = n /\ Kids(n) = {}
      BY <1>2, FormOfLeaf, OperatorsDiffer DEF Kids
    <2> QED
      BY <2>1 DEF Under
  <1>3. CASE n.op \in Unary /\ \E i \in Id : n = [op |-> n.op, kids |-> <<i>>]
    <2>1. PICK i \in Id : n = [op |-> n.op, kids |-> <<i>>]
      BY <1>3
    <2>2. Canonical(g, n) = [op |-> n.op, kids |-> <<g.leader[i]>>]
      BY <1>3, <2>1, FormOfOne, OperatorsDiffer
    <2>3. Kids(n) = {i} /\ Kids(Canonical(g, n)) = {g.leader[i]}
      BY <2>1, <2>2 DEF Kids
    <2>4. Canonical(g, n) \in Node
      BY <1>1, <1>3, <2>2 DEF Node
    <2> QED
      BY <2>3, <2>4 DEF Under
  <1>4. CASE n.op \in Commutative /\ \E i, j \in Id : n = [op |-> n.op, kids |-> <<i, j>>]
    <2>1. PICK i \in Id, j \in Id : n = [op |-> n.op, kids |-> <<i, j>>]
      BY <1>4
    <2>2. Canonical(g, n) = IF g.leader[j] < g.leader[i]
                            THEN [op |-> n.op, kids |-> <<g.leader[j], g.leader[i]>>]
                            ELSE [op |-> n.op, kids |-> <<g.leader[i], g.leader[j]>>]
      BY <1>4, <2>1, FormOfTwo
    <2>3. Kids(n) = {i, j}
      BY <2>1 DEF Kids
    <2>4. Kids(Canonical(g, n)) = {g.leader[i], g.leader[j]}
      BY <2>2 DEF Kids
    <2>5. Canonical(g, n) \in Node
      BY <1>1, <1>4, <2>2 DEF Node
    <2> QED
      BY <2>3, <2>4, <2>5 DEF Under
  <1> QED
    BY <1>2, <1>3, <1>4, NodeShape

\* Where classes have only been joined since, the form of a form is the form.
LEMMA FormOfForm ==
  ASSUME NEW g \in Graph, NEW h \in Graph, NEW n \in Node,
         \A i \in Id : h.leader[g.leader[i]] = h.leader[i]
  PROVE  Canonical(h, Canonical(g, n)) = Canonical(h, n)
  <1>1. g.leader \in [Id -> Id] /\ h.leader \in [Id -> Id] /\ Id \subseteq Int
    BY MadeIds, MaxIdsIsNat DEF Id
  <1>2. CASE n.op \in Var \cup Number /\ n = [op |-> n.op, kids |-> <<>>]
    BY <1>2, FormOfLeaf, OperatorsDiffer
  <1>3. CASE n.op \in Unary /\ \E i \in Id : n = [op |-> n.op, kids |-> <<i>>]
    <2>1. PICK i \in Id : n = [op |-> n.op, kids |-> <<i>>]
      BY <1>3
    <2>2. /\ Canonical(g, n) = [op |-> n.op, kids |-> <<g.leader[i]>>]
          /\ Canonical(h, n) = [op |-> n.op, kids |-> <<h.leader[i]>>]
          /\ Canonical(h, [op |-> n.op, kids |-> <<g.leader[i]>>])
               = [op |-> n.op, kids |-> <<h.leader[g.leader[i]]>>]
      BY <1>3, <2>1, FormOfOne, OperatorsDiffer
    <2> QED
      BY <2>2
  <1>4. CASE n.op \in Commutative /\ \E i, j \in Id : n = [op |-> n.op, kids |-> <<i, j>>]
    <2>1. PICK i \in Id, j \in Id : n = [op |-> n.op, kids |-> <<i, j>>]
      BY <1>4
    <2> DEFINE node(x, y) == [op |-> n.op, kids |-> <<x, y>>]
    <2>2. n = node(i, j)
      BY <2>1
    <2>3. ASSUME NEW f, NEW x, NEW y
          PROVE  Canonical(f, node(x, y)) = IF f.leader[y] < f.leader[x]
                                            THEN node(f.leader[y], f.leader[x])
                                            ELSE node(f.leader[x], f.leader[y])
      <3> n.op \in Commutative
        BY <1>4
      <3> QED
        BY FormOfTwo
    <2>4. /\ h.leader[g.leader[i]] = h.leader[i] /\ h.leader[g.leader[j]] = h.leader[j]
          /\ h.leader[i] \in Int /\ h.leader[j] \in Int
      BY <1>1
    <2> HIDE DEF node
    <2>5. CASE g.leader[j] < g.leader[i]
      <3>1. Canonical(h, Canonical(g, n)) = IF h.leader[i] < h.leader[j]
                                            THEN node(h.leader[i], h.leader[j])
                                            ELSE node(h.leader[j], h.leader[i])
        BY <2>2, <2>3, <2>4, <2>5
      <3> QED
        BY <2>2, <2>3, <2>4, <3>1
    <2>6. CASE ~ (g.leader[j] < g.leader[i])
      BY <2>2, <2>3, <2>4, <2>6
    <2> QED
      BY <2>5, <2>6
  <1> QED
    BY <1>2, <1>3, <1>4, NodeShape

\* A form depends on the classes of the arguments alone.
LEMMA FormByKids ==
  ASSUME NEW g \in Graph, NEW h \in Graph, NEW n \in Node,
         \A k \in Kids(n) : h.leader[k] = g.leader[k]
  PROVE  Canonical(h, n) = Canonical(g, n)
  <1>1. \A k \in DOMAIN n.kids : Find(h, n.kids[k]) = Find(g, n.kids[k])
    BY DEF Kids, Find
  <1>2. [k \in DOMAIN n.kids |-> Find(h, n.kids[k])] = [k \in DOMAIN n.kids |-> Find(g, n.kids[k])]
    BY <1>1
  <1> QED
    BY <1>2 DEF Canonical

\* A normalized node over leaders is its own form.
LEMMA FormOfLeaders ==
  ASSUME NEW g \in Graph, NEW n \in Node, n = Normalized(n),
         \A k \in Kids(n) : g.leader[k] = k
  PROVE  Canonical(g, n) = n
  <1>1. [k \in DOMAIN n.kids |-> Find(g, n.kids[k])] = n.kids
    <2>1. \A k \in DOMAIN n.kids : Find(g, n.kids[k]) = n.kids[k]
      BY DEF Kids, Find
    <2>2. n.kids = [k \in DOMAIN n.kids |-> n.kids[k]]
      <3>1. n.kids = <<>> \/ (\E i \in Id : n.kids = <<i>>) \/ (\E i, j \in Id : n.kids = <<i, j>>)
        BY DEF Node
      <3> QED
        BY <3>1
    <2> QED
      BY <2>1, <2>2
  <1>2. [n EXCEPT !.kids = n.kids] = n
    BY NodeShape
  <1> QED
    BY <1>1, <1>2 DEF Canonical

----------------------------------------------------------------------------
(* What is so of a graph between two repairs, for the terms t its ids were  *)
(* made for.  Some classes are dirty: they have absorbed another and their  *)
(* parents have not been looked at since.                                   *)

\* The node has the canonical form of the term of i.
HasForm(g, t, n, i) == Canonical(g, n) = Canonical(g, t[i])

\* What an id was made for is a node over ids that were there before it.
TermsAreNodes(g, t) ==
  \A i \in Made(g) : t[i] \in Node /\ \A k \in DOMAIN t[i].kids : t[i].kids[k] < i

\* Leaders lead themselves.
Forest(g) == \A i \in Id : g.leader[g.leader[i]] = g.leader[i]

\* A class holds its terms, and nothing else.
NodesCover(g, t) == \A i \in Made(g) : \E n \in g.nodes[g.leader[i]] : HasForm(g, t, n, i)

NodesAreTerms(g, t) ==
  \A c \in Classes(g) : \A n \in g.nodes[c] :
    \E i \in Made(g) : g.leader[i] = c /\ HasForm(g, t, n, i)

\* A parent entry speaks for i.
SpeaksFor(g, t, p, i) == HasForm(g, t, p[1], i) /\ g.leader[p[2]] = g.leader[i]

\* The classes the term of i is over.
Over(g, t, i) == Under(g, Kids(t[i]))

\* A class has, for each term over it, a parent entry that speaks for it.  Those
\* of the class under repair may be in repair's hands.
UsesCover(g, t, at, hand) ==
  \A i \in Made(g) : \A c \in Over(g, t, i) :
    \/ \E p \in g.uses[c] : SpeaksFor(g, t, p, i)
    \/ c = g.leader[at] /\ \E p \in hand : SpeaksFor(g, t, p, i)

\* A parent is one: it is over the class that lists it.
UsesAreOver(g, at, hand) ==
  /\ \A c \in Id : \A p \in g.uses[c] : c \in Under(g, Kids(p[1]))
  /\ \A p \in hand : g.leader[at] \in Under(g, Kids(p[1]))

\* Congruence, but for terms over dirty classes.
CongruentTerms(g, t, dirty) ==
  \A i, j \in Made(g) :
    HasForm(g, t, t[j], i) /\ Over(g, t, i) \cap dirty = {} => g.leader[i] = g.leader[j]

\* The hashcons, but for terms over dirty classes.
MemoCovers(g, t, dirty) ==
  \A i \in Made(g) : Over(g, t, i) \cap dirty = {} =>
    \E e \in g.memo : e[1] = Canonical(g, t[i]) /\ g.leader[e[2]] = g.leader[i]

\* Those that wait in the graph, and others.
Dirty(g, others) == Under(g, g.pending \cup others)

Closed(g, t, others, at, hand) ==
  /\ TermsAreNodes(g, t) /\ Forest(g)
  /\ NodesCover(g, t) /\ NodesAreTerms(g, t)
  /\ UsesCover(g, t, at, hand) /\ UsesAreOver(g, at, hand)
  /\ CongruentTerms(g, t, Dirty(g, others))
  /\ MemoCovers(g, t, Dirty(g, others))

----------------------------------------------------------------------------
(* What union does to it.                                                   *)

\* What union changes, when it joins two classes.
LEMMA UnitedParts ==
  ASSUME NEW g, NEW v, Sound(g, v), NEW a \in Made(g), NEW b \in Made(g), NEW why,
         Survivor(g, a, b) # Absorbed(g, a, b), NEW h, h = United(g, a, b, why)
  PROVE  LET root == Survivor(g, a, b)
             gone == Absorbed(g, a, b)
         IN  /\ h.made = g.made /\ h.memo = g.memo /\ h.pending = g.pending \cup {root}
             /\ h.leader = [i \in Id |-> IF g.leader[i] = gone THEN root ELSE g.leader[i]]
             /\ h.nodes = [g.nodes EXCEPT ![root] = @ \cup g.nodes[gone], ![gone] = {}]
             /\ h.uses = [g.uses EXCEPT ![root] = @ \cup g.uses[gone], ![gone] = {}]
             /\ root \in {g.leader[a], g.leader[b]} /\ gone \in {g.leader[a], g.leader[b]}
             /\ root \in Made(g) /\ gone \in Made(g) /\ root \in Id /\ gone \in Id
  <1>1. g \in Graph /\ a \in Id /\ b \in Id /\ g.leader[a] \in Made(g) /\ g.leader[b] \in Made(g)
    BY MadeIds DEF Sound, LeadersAgree
  <1>2. Made(g) \subseteq Id
    BY <1>1, MadeIds
  <1>3. h = [g EXCEPT !.leader = h.leader, !.nodes = h.nodes, !.uses = h.uses, !.fact = h.fact,
                      !.pending = h.pending, !.learned = h.learned, !.history = h.history]
    BY <1>1 DEF United, Graph
  <1>4. h.made = g.made /\ h.memo = g.memo
    BY <1>1 DEF United, Graph
  <1>5. /\ h.pending = g.pending \cup {Survivor(g, a, b)}
        /\ h.leader = [i \in Id |-> IF g.leader[i] = Absorbed(g, a, b)
                                    THEN Survivor(g, a, b) ELSE g.leader[i]]
        /\ h.nodes = [g.nodes EXCEPT ![Survivor(g, a, b)] = @ \cup g.nodes[Absorbed(g, a, b)],
                                     ![Absorbed(g, a, b)] = {}]
        /\ h.uses = [g.uses EXCEPT ![Survivor(g, a, b)] = @ \cup g.uses[Absorbed(g, a, b)],
                                   ![Absorbed(g, a, b)] = {}]
    BY <1>1 DEF United, Graph
  <1> QED
    BY <1>1, <1>2, <1>4, <1>5 DEF Survivor, Absorbed, Find

\* Joining leaves closed what was, with the survivor dirty (union).
LEMMA UnitedCloses ==
  ASSUME NEW g, NEW v, Sound(g, v), NEW a \in Made(g), NEW b \in Made(g), NEW why \in Why,
         v[a] = v[b], NEW t, NEW others \in SUBSET Id, NEW at \in Id,
         NEW hand \in SUBSET (Node \X Id),
         Closed(g, t, others, at, hand)
  PROVE  Closed(United(g, a, b, why), t, others, at, hand)
  <1> DEFINE root == Survivor(g, a, b)
             gone == Absorbed(g, a, b)
             h == United(g, a, b, why)
             G == Dirty(g, others)
             H == Dirty(h, others)
  <1>1. CASE root = gone
    BY <1>1 DEF United
  <1>2. CASE root # gone
    <2>1. /\ h.made = g.made /\ h.memo = g.memo /\ h.pending = g.pending \cup {root}
          /\ h.leader = [i \in Id |-> IF g.leader[i] = gone THEN root ELSE g.leader[i]]
          /\ h.nodes = [g.nodes EXCEPT ![root] = @ \cup g.nodes[gone], ![gone] = {}]
          /\ h.uses = [g.uses EXCEPT ![root] = @ \cup g.uses[gone], ![gone] = {}]
          /\ root \in {g.leader[a], g.leader[b]} /\ gone \in {g.leader[a], g.leader[b]}
          /\ root \in Made(g) /\ gone \in Made(g) /\ root \in Id /\ gone \in Id
      BY <1>2, UnitedParts
    <2>2. /\ g \in Graph /\ h \in Graph /\ g.leader \in [Id -> Id]
          /\ g.nodes \in [Id -> SUBSET Node] /\ g.uses \in [Id -> SUBSET (Node \X Id)]
          /\ g.memo \in SUBSET (Node \X Id) /\ g.pending \in SUBSET Id
          /\ Made(h) = Made(g) /\ Made(g) \subseteq Id /\ a \in Id /\ b \in Id
      <3>1. g \in Graph /\ h \in Graph
        BY UnitedIsSound DEF Sound
      <3>2. Made(h) = Made(g) /\ Made(g) \subseteq Id
        BY <2>1, <3>1, MadeIds DEF Made
      <3> QED
        BY <3>1, <3>2 DEF Graph
    <2>3. /\ \A i \in Id : h.leader[i] = IF g.leader[i] = gone THEN root ELSE g.leader[i]
          /\ g.leader[root] = root /\ g.leader[gone] = gone
          /\ \A i \in Id : g.leader[g.leader[i]] = g.leader[i]
      BY <2>1, <2>2 DEF Closed, Forest
    <2> HIDE DEF root, gone, h
    <2>4. /\ \A i \in Id : h.leader[g.leader[i]] = h.leader[i]
          /\ \A i \in Id : h.leader[h.leader[i]] = h.leader[i]
          /\ h.leader[root] = root /\ h.leader[gone] = root
          /\ \A i, j \in Id : g.leader[i] = g.leader[j] => h.leader[i] = h.leader[j]
      BY <1>2, <2>1, <2>2, <2>3
    \* Equal forms stay equal.
    <2>5. ASSUME NEW n \in Node, NEW m \in Node, Canonical(g, n) = Canonical(g, m)
          PROVE  Canonical(h, n) = Canonical(h, m)
      <3>1. /\ g \in Graph /\ h \in Graph
            /\ \A i \in Id : h.leader[g.leader[i]] = h.leader[i]
        BY <2>2, <2>4
      <3>2. Canonical(h, Canonical(g, n)) = Canonical(h, n)
        BY <3>1, FormOfForm
      <3>3. Canonical(h, Canonical(g, m)) = Canonical(h, m)
        BY <3>1, FormOfForm
      <3> QED
        BY <2>5, <3>2, <3>3
    <2>6. \A i \in Made(g) : t[i] \in Node
      BY DEF Closed, TermsAreNodes
    <2>7. ASSUME NEW n \in Node, NEW i \in Made(g), HasForm(g, t, n, i)
          PROVE  HasForm(h, t, n, i)
      BY <2>5, <2>6, <2>7 DEF HasForm
    \* A term is over the survivor, or its form is what it was.
    <2>8. ASSUME NEW n \in Node, root \notin Under(h, Kids(n))
          PROVE  /\ Canonical(h, n) = Canonical(g, n)
                 /\ Under(h, Kids(n)) = Under(g, Kids(n))
      <3>1. Kids(n) \subseteq Id
        BY <2>2, FormIsNode
      <3>2. \A k \in Kids(n) : h.leader[k] = g.leader[k]
        BY <2>3, <2>8, <3>1 DEF Under
      <3> QED
        BY <2>2, <3>2, FormByKids DEF Under
    <2>9. /\ root \in H
          /\ \A c \in G : h.leader[c] \in H
      <3>1. \A x \in g.pending \cup others : x \in Id
        BY <2>2
      <3>2. root \in H
        BY <2>1, <2>4 DEF Dirty, Under
      <3>3. ASSUME NEW c \in G PROVE h.leader[c] \in H
        <4>1. PICK x \in g.pending \cup others : c = g.leader[x]
          BY DEF Dirty, Under
        <4>2. h.leader[c] = h.leader[x] /\ x \in h.pending \cup others
          BY <2>1, <2>4, <3>1, <4>1
        <4> QED
          BY <4>2 DEF Dirty, Under
      <3> QED
        BY <3>2, <3>3
    <2>10. Forest(h) /\ TermsAreNodes(h, t)
      <3>1. TermsAreNodes(g, t) /\ h.made = g.made
        BY <2>1 DEF Closed
      <3>2. Made(h) = Made(g)
        BY <3>1 DEF Made
      <3> QED
        BY <2>2, <2>4, <3>1, <3>2 DEF Forest, TermsAreNodes
    <2>11. NodesCover(h, t)
      <3> SUFFICES ASSUME NEW i \in Made(g)
                   PROVE  \E n \in h.nodes[h.leader[i]] : HasForm(h, t, n, i)
        BY <2>2 DEF NodesCover
      <3>1. PICK n \in g.nodes[g.leader[i]] : HasForm(g, t, n, i)
        BY DEF Closed, NodesCover
      <3>2. n \in Node /\ g.leader[i] \in Id
        BY <2>2
      <3>3. n \in h.nodes[h.leader[i]]
        BY <1>2, <2>1, <2>2, <2>3, <3>1
      <3> QED
        BY <2>7, <3>1, <3>2, <3>3
    <2>12. NodesAreTerms(h, t)
      <3> SUFFICES ASSUME NEW c \in Classes(h), NEW n \in h.nodes[c]
                   PROVE  \E i \in Made(g) : h.leader[i] = c /\ HasForm(h, t, n, i)
        BY <2>2 DEF NodesAreTerms
      <3>1. c \in Made(g) /\ c \in Id /\ h.leader[c] = c /\ c # gone /\ g.leader[c] = c
        BY <1>2, <2>2, <2>3, <2>4 DEF Classes
      <3>2. PICK d \in {c, gone} : n \in g.nodes[d] /\ h.leader[d] = c /\ d \in Classes(g)
        <4>1. CASE c = root
          <5>1. n \in g.nodes[root] \/ n \in g.nodes[gone]
            BY <1>2, <2>1, <2>2, <4>1
          <5> QED
            BY <2>1, <2>3, <2>4, <4>1, <5>1 DEF Classes, Find
        <4>2. CASE c # root
          <5>1. n \in g.nodes[c]
            BY <2>1, <2>2, <3>1, <4>2
          <5> QED
            BY <3>1, <5>1 DEF Classes
        <4> QED
          BY <4>1, <4>2
      <3>3. PICK i \in Made(g) : g.leader[i] = d /\ HasForm(g, t, n, i)
        BY <3>2 DEF Closed, NodesAreTerms
      <3>4. n \in Node /\ h.leader[i] = c
        BY <2>1, <2>2, <2>4, <3>1, <3>2, <3>3
      <3> QED
        BY <2>7, <3>3, <3>4
    <2>13. ASSUME NEW i \in Made(g), NEW c \in Over(h, t, i)
           PROVE  \E d \in Over(g, t, i) : h.leader[d] = c /\ d \in Id /\ c \in Id
      <3>1. PICK k \in Kids(t[i]) : h.leader[k] = c
        BY DEF Over, Under
      <3>2. k \in Id
        BY <2>2, <2>6, FormIsNode
      <3>3. g.leader[k] \in Id /\ c \in Id /\ h.leader[g.leader[k]] = c
        BY <2>1, <2>2, <2>3, <2>4, <3>1, <3>2
      <3> QED
        BY <3>3 DEF Over, Under
    <2>14. UsesCover(h, t, at, hand)
      <3> SUFFICES ASSUME NEW i \in Made(g), NEW c \in Over(h, t, i)
                   PROVE  \/ \E p \in h.uses[c] : SpeaksFor(h, t, p, i)
                          \/ c = h.leader[at] /\ \E p \in hand : SpeaksFor(h, t, p, i)
        BY <2>2 DEF UsesCover
      <3>1. PICK d \in Over(g, t, i) : h.leader[d] = c /\ d \in Id /\ c \in Id
        BY <2>13
      <3>2. ASSUME NEW p \in Node \X Id, SpeaksFor(g, t, p, i)
            PROVE  SpeaksFor(h, t, p, i)
        BY <2>2, <2>4, <2>7, <3>2 DEF SpeaksFor
      <3>3. CASE \E p \in g.uses[d] : SpeaksFor(g, t, p, i)
        <4>1. PICK p \in g.uses[d] : SpeaksFor(g, t, p, i)
          BY <3>3
        <4>2. g.leader[d] = d
          BY <2>2, <2>3, <2>6, FormIsNode DEF Over, Under
        <4>3. c = IF d = gone THEN root ELSE d
          BY <2>3, <3>1, <4>2
        <4>4. p \in h.uses[c]
          BY <1>2, <2>1, <2>2, <3>1, <4>1, <4>3
        <4> QED
          BY <2>2, <3>1, <3>2, <4>1, <4>4
      <3>4. CASE d = g.leader[at] /\ \E p \in hand : SpeaksFor(g, t, p, i)
        BY <2>4, <3>1, <3>2, <3>4
      <3> QED
        BY <3>3, <3>4 DEF Closed, UsesCover
    <2>15. UsesAreOver(h, at, hand)
      <3>1. ASSUME NEW c \in Id, NEW n \in Node, c \in Under(g, Kids(n))
            PROVE  h.leader[c] \in Under(h, Kids(n))
        BY <2>2, <2>4, <3>1, FormIsNode DEF Under
      <3>2. ASSUME NEW c \in Id, NEW p \in h.uses[c] PROVE c \in Under(h, Kids(p[1]))
        <4>1. PICK d \in Id : p \in g.uses[d] /\ h.leader[d] = c
          <5>1. CASE c = root
            BY <1>2, <2>1, <2>2, <2>4, <3>2, <5>1
          <5>2. CASE c # root
            <6>1. c # gone /\ p \in g.uses[c]
              BY <1>2, <2>1, <2>2, <3>2, <5>2
            <6>2. PICK k \in Kids(p[1]) : g.leader[k] = c
              BY <6>1 DEF Closed, UsesAreOver, Under
            <6>3. k \in Id
              BY <2>2, <6>1, FormIsNode
            <6> QED
              BY <2>3, <6>1, <6>2, <6>3
          <5> QED
            BY <5>1, <5>2
        <4>2. d \in Under(g, Kids(p[1])) /\ p[1] \in Node
          BY <2>2, <4>1 DEF Closed, UsesAreOver
        <4> QED
          BY <3>1, <4>1, <4>2
      <3>3. ASSUME NEW p \in hand PROVE h.leader[at] \in Under(h, Kids(p[1]))
        <4>1. g.leader[at] \in Under(g, Kids(p[1])) /\ p[1] \in Node /\ g.leader[at] \in Id
          BY <2>2 DEF Closed, UsesAreOver
        <4> QED
          BY <2>4, <3>1, <4>1
      <3> QED
        BY <3>2, <3>3 DEF UsesAreOver
    <2>16. ASSUME NEW i \in Made(g), Over(h, t, i) \cap H = {}
           PROVE  /\ Over(g, t, i) \cap G = {} /\ Over(h, t, i) = Over(g, t, i)
                  /\ Canonical(h, t[i]) = Canonical(g, t[i])
      <3>1. root \notin Over(h, t, i)
        BY <2>9, <2>16
      <3>2. Over(h, t, i) = Over(g, t, i) /\ Canonical(h, t[i]) = Canonical(g, t[i])
        BY <2>6, <2>8, <3>1 DEF Over
      <3>3. ASSUME NEW c \in Over(g, t, i), c \in G PROVE FALSE
        <4>1. PICK k \in Kids(t[i]) : c = g.leader[k]
          BY DEF Over, Under
        <4>2. k \in Id /\ c \in Id
          BY <2>2, <2>6, <4>1, FormIsNode
        <4>3. h.leader[c] = h.leader[k] /\ h.leader[k] \in Over(h, t, i)
          BY <2>4, <4>1, <4>2 DEF Over, Under
        <4> QED
          BY <2>9, <2>16, <3>3, <4>3
      <3> QED
        BY <3>2, <3>3
    <2>17. CongruentTerms(h, t, H)
      <3> SUFFICES ASSUME NEW i \in Made(g), NEW j \in Made(g), HasForm(h, t, t[j], i),
                          Over(h, t, i) \cap H = {}
                   PROVE  h.leader[i] = h.leader[j]
        BY <2>2 DEF CongruentTerms
      <3>1. Over(h, t, j) = Over(h, t, i)
        BY <2>2, <2>6, FormIsNode DEF HasForm, Over
      <3>2. HasForm(g, t, t[j], i)
        BY <2>16, <3>1 DEF HasForm
      <3>3. g.leader[i] = g.leader[j]
        BY <2>16, <3>2 DEF Closed, CongruentTerms
      <3> QED
        BY <2>2, <2>4, <3>3
    <2>18. MemoCovers(h, t, H)
      <3> SUFFICES ASSUME NEW i \in Made(g), Over(h, t, i) \cap H = {}
                   PROVE  \E e \in g.memo : /\ e[1] = Canonical(h, t[i])
                                            /\ h.leader[e[2]] = h.leader[i]
        BY <2>1, <2>2 DEF MemoCovers
      <3>1. PICK e \in g.memo : e[1] = Canonical(g, t[i]) /\ g.leader[e[2]] = g.leader[i]
        BY <2>16 DEF Closed, MemoCovers
      <3>2. e[2] \in Id /\ i \in Id
        BY <2>2
      <3> QED
        BY <2>4, <2>16, <3>1, <3>2
    <2> QED
      BY <2>10, <2>11, <2>12, <2>14, <2>15, <2>17, <2>18 DEF Closed, h
  <1> QED
    BY <1>1, <1>2

----------------------------------------------------------------------------
(* What the other calls do to it.                                           *)

\* Only classes, their nodes and parents and the hashcons matter, and more may
\* be dirty.
LEMMA SameCloses ==
  ASSUME NEW g \in Graph, NEW h \in Graph, h.made = g.made, h.leader = g.leader,
         h.nodes = g.nodes, h.uses = g.uses, h.memo = g.memo,
         NEW t, NEW others, NEW more, NEW at, NEW hand,
         Dirty(g, others) \subseteq Dirty(h, more),
         Closed(g, t, others, at, hand)
  PROVE  Closed(h, t, more, at, hand)
  <1>1. \A n : Canonical(h, n) = Canonical(g, n)
    BY DEF Canonical, Find
  <1>2. Made(h) = Made(g) /\ Classes(h) = Classes(g) /\ \A ids : Under(h, ids) = Under(g, ids)
    BY DEF Made, Classes, Under
  <1>3. /\ TermsAreNodes(h, t) /\ Forest(h) /\ NodesCover(h, t) /\ NodesAreTerms(h, t)
        /\ UsesAreOver(h, at, hand)
    BY <1>1, <1>2 DEF Closed, TermsAreNodes, Forest, NodesCover, NodesAreTerms, UsesAreOver, HasForm
  <1>4. UsesCover(h, t, at, hand)
    BY <1>1, <1>2 DEF Closed, UsesCover, Over, SpeaksFor, HasForm
  <1>5. /\ CongruentTerms(h, t, Dirty(h, more))
        /\ MemoCovers(h, t, Dirty(h, more))
    BY <1>1, <1>2 DEF Closed, CongruentTerms, MemoCovers, Over, HasForm
  <1> QED
    BY <1>3, <1>4, <1>5 DEF Closed

\* A node the hashcons does not know is a term of its own (add).
LEMMA AddedCloses ==
  ASSUME NEW g, NEW v, Sound(g, v), NEW n \in Node, HasRoom(g, n), Owners(g, n) = {},
         n = Normalized(n), Kids(n) \subseteq Classes(g),
         NEW t \in [Id -> Node \cup {<<>>}], NEW u, u = [t EXCEPT ![g.made] = n],
         NEW others \in SUBSET Id, NEW at \in Id, NEW hand,
         Closed(g, t, others, at, hand)
  PROVE  Closed(Added(g, n), u, others, at, hand)
  <1> DEFINE new == g.made
             h == Added(g, n)
             D == Dirty(g, others)
  <1>1. /\ g \in Graph /\ g.leader \in [Id -> Id] /\ g.nodes \in [Id -> SUBSET Node]
        /\ g.uses \in [Id -> SUBSET (Node \X Id)] /\ g.made \in Nat /\ Made(g) \subseteq Id
        /\ new \in Id /\ new \notin Made(g) /\ g.leader[new] = new
        /\ \A i \in Made(g) : g.leader[i] \in Made(g) /\ g.leader[i] # new
    <2>1. g \in Graph /\ g.made \in Nat /\ Made(g) \subseteq Id
      BY MadeIds DEF Sound
    <2>2. new \in Id /\ new \notin Made(g)
      BY <2>1, MaxIdsIsNat DEF HasRoom, Id, Made
    <2> QED
      BY <2>1, <2>2 DEF Sound, LeadersAgree, Graph
  <1>2. h \in Graph
    <2>1. \A k \in DOMAIN n.kids : n.kids[k] \in Made(g)
      BY DEF Kids, Classes
    <2> QED
      BY <2>1, AddedIsSound DEF Sound
  <1>3. /\ h.made = new + 1 /\ h.leader = g.leader /\ h.pending = g.pending
        /\ h.nodes = [g.nodes EXCEPT ![new] = {n}]
        /\ h.uses = [i \in Id |-> IF \E k \in DOMAIN n.kids : Find(g, n.kids[k]) = i
                                  THEN g.uses[i] \cup {<<n, new>>} ELSE g.uses[i]]
        /\ h.memo = g.memo \cup {<<n, new>>}
    BY <1>1 DEF Added, Graph
  <1>4. Made(h) = Made(g) \cup {new}
    BY <1>1, <1>3 DEF Made
  <1>5. /\ \A m : Canonical(h, m) = Canonical(g, m)
        /\ \A ids : Under(h, ids) = Under(g, ids)
        /\ Dirty(h, others) = D
    BY <1>3 DEF Canonical, Find, Under, Dirty
  <1> HIDE DEF h, new, D
  <1>6. u[new] = n /\ \A i \in Made(g) : u[i] = t[i]
    BY <1>1 DEF new
  <1>7. Canonical(g, n) = n /\ Under(g, Kids(n)) = Kids(n)
    <2>1. \A k \in Kids(n) : g.leader[k] = k /\ k \in Made(g)
      BY DEF Classes
    <2> QED
      BY <1>1, <2>1, FormOfLeaders DEF Under
  <1>8. /\ \A i \in Made(g) : Over(h, u, i) = Over(g, t, i)
        /\ Over(h, u, new) = Kids(n)
    BY <1>5, <1>6, <1>7 DEF Over
  <1>9. /\ \A i \in Made(g) : \A m : HasForm(h, u, m, i) <=> HasForm(g, t, m, i)
        /\ \A m : HasForm(h, u, m, new) <=> Canonical(g, m) = n
    BY <1>5, <1>6, <1>7 DEF HasForm
  <1>10. TermsAreNodes(h, u) /\ Forest(h)
    <2>1. \A k \in DOMAIN n.kids : n.kids[k] \in Made(g)
      BY DEF Kids, Classes
    <2>2. \A k \in DOMAIN n.kids : n.kids[k] < new
      BY <2>1, MadeIds DEF Made, new, Sound
    <2>3. TermsAreNodes(g, t) /\ Forest(g)
      BY DEF Closed
    <2>4. Forest(h)
      BY <1>3, <2>3 DEF Forest
    <2>5. TermsAreNodes(h, u)
      BY <1>4, <1>6, <2>2, <2>3 DEF TermsAreNodes
    <2> QED
      BY <2>4, <2>5
  <1>11. NodesCover(h, u)
    <2> SUFFICES ASSUME NEW i \in Made(h)
                 PROVE  \E m \in h.nodes[h.leader[i]] : HasForm(h, u, m, i)
      BY DEF NodesCover
    <2>1. CASE i = new
      <3>1. h.nodes[h.leader[new]] = {n}
        BY <1>1, <1>3
      <3> QED
        BY <1>7, <1>9, <2>1, <3>1
    <2>2. CASE i \in Made(g)
      <3>1. PICK m \in g.nodes[g.leader[i]] : HasForm(g, t, m, i)
        BY <2>2 DEF Closed, NodesCover
      <3>2. h.nodes[h.leader[i]] = g.nodes[g.leader[i]]
        BY <1>1, <1>3, <2>2
      <3> QED
        BY <1>9, <2>2, <3>1, <3>2
    <2> QED
      BY <1>4, <2>1, <2>2
  <1>12. NodesAreTerms(h, u)
    <2> SUFFICES ASSUME NEW c \in Classes(h), NEW m \in h.nodes[c]
                 PROVE  \E i \in Made(h) : h.leader[i] = c /\ HasForm(h, u, m, i)
      BY DEF NodesAreTerms
    <2>1. CASE c = new
      <3>1. m = n
        BY <1>1, <1>3, <2>1
      <3> QED
        BY <1>1, <1>3, <1>4, <1>7, <1>9, <2>1, <3>1
    <2>2. CASE c # new
      <3>1. c \in Classes(g) /\ m \in g.nodes[c]
        BY <1>1, <1>3, <1>4, <2>2 DEF Classes, Find
      <3>2. PICK i \in Made(g) : g.leader[i] = c /\ HasForm(g, t, m, i)
        BY <3>1 DEF Closed, NodesAreTerms
      <3> QED
        BY <1>3, <1>4, <1>9, <3>2
    <2> QED
      BY <2>1, <2>2
  <1>13. ASSUME NEW c \in Id
         PROVE  /\ g.uses[c] \subseteq h.uses[c]
                /\ c \in Kids(n) => <<n, new>> \in h.uses[c]
                /\ \A p \in h.uses[c] : p \in g.uses[c] \/ (p = <<n, new>> /\ c \in Kids(n))
    <2>1. (\E k \in DOMAIN n.kids : Find(g, n.kids[k]) = c) <=> c \in Kids(n)
      BY <1>7 DEF Under, Kids, Find
    <2> QED
      BY <1>3, <2>1
  <1>14. UsesCover(h, u, at, hand)
    <2> SUFFICES ASSUME NEW i \in Made(h), NEW c \in Over(h, u, i)
                 PROVE  \/ \E p \in h.uses[c] : SpeaksFor(h, u, p, i)
                        \/ c = h.leader[at] /\ \E p \in hand : SpeaksFor(h, u, p, i)
      BY DEF UsesCover
    <2>1. CASE i = new
      <3>1. c \in Kids(n) /\ c \in Id
        BY <1>1, <1>8, <2>1, FormIsNode
      <3>2. SpeaksFor(h, u, <<n, new>>, i)
        BY <1>7, <1>9, <2>1 DEF SpeaksFor
      <3> QED
        BY <1>13, <3>1, <3>2
    <2>2. CASE i \in Made(g)
      <3>1. c \in Over(g, t, i)
        BY <1>8, <2>2
      <3>2. c \in Id
        <4>1. t[i] \in Node
          BY <2>2 DEF Closed, TermsAreNodes
        <4> QED
          BY <1>1, <3>1, <4>1, FormIsNode DEF Over, Under
      <3>3. \A p : SpeaksFor(g, t, p, i) => SpeaksFor(h, u, p, i)
        BY <1>3, <1>9, <2>2 DEF SpeaksFor
      <3> QED
        BY <1>3, <1>13, <2>2, <3>1, <3>2, <3>3 DEF Closed, UsesCover
    <2> QED
      BY <1>4, <2>1, <2>2
  <1>15. UsesAreOver(h, at, hand)
    <2>1. ASSUME NEW c \in Id, NEW p \in h.uses[c] PROVE c \in Under(h, Kids(p[1]))
      BY <1>5, <1>7, <1>13 DEF Closed, UsesAreOver
    <2>2. ASSUME NEW p \in hand PROVE h.leader[at] \in Under(h, Kids(p[1]))
      BY <1>3, <1>5 DEF Closed, UsesAreOver
    <2> QED
      BY <2>1, <2>2 DEF UsesAreOver
  \* A settled term of the new node's form would be in the hashcons.
  <1>16. ASSUME NEW i \in Made(g), Over(g, t, i) \cap D = {}
         PROVE  Canonical(g, t[i]) # n
    <2>1. PICK e \in g.memo : e[1] = Canonical(g, t[i])
      BY <1>16 DEF Closed, MemoCovers, D
    <2> QED
      BY <2>1 DEF Owners
  <1>17. CongruentTerms(h, u, Dirty(h, others))
    <2> SUFFICES ASSUME NEW i \in Made(h), NEW j \in Made(h), HasForm(h, u, u[j], i),
                        Over(h, u, i) \cap D = {}
                 PROVE  h.leader[i] = h.leader[j]
      BY <1>5 DEF CongruentTerms
    <2>1. CASE i \in Made(g) /\ j \in Made(g)
      <3>1. HasForm(g, t, t[j], i) /\ Over(g, t, i) \cap D = {}
        BY <1>6, <1>8, <1>9, <2>1
      <3> QED
        BY <1>3, <2>1, <3>1 DEF Closed, CongruentTerms, D
    <2>2. CASE i \in Made(g) /\ j = new
      <3>1. HasForm(g, t, n, i) /\ Over(g, t, i) \cap D = {}
        BY <1>6, <1>8, <1>9, <2>2
      <3> QED
        BY <1>7, <1>16, <2>2, <3>1 DEF HasForm
    <2>3. CASE i = new /\ j \in Made(g)
      <3>1. Canonical(g, t[j]) = n
        BY <1>6, <1>9, <2>3
      <3>2. Over(g, t, j) = Kids(n)
        <4>1. t[j] \in Node
          BY <2>3 DEF Closed, TermsAreNodes
        <4> QED
          BY <1>1, <3>1, <4>1, FormIsNode DEF Over
      <3> QED
        BY <1>8, <1>16, <2>3, <3>1, <3>2
    <2> QED
      BY <1>4, <2>1, <2>2, <2>3
  <1>18. MemoCovers(h, u, Dirty(h, others))
    <2> SUFFICES ASSUME NEW i \in Made(h), Over(h, u, i) \cap D = {}
                 PROVE  \E e \in h.memo : e[1] = Canonical(h, u[i]) /\ h.leader[e[2]] = h.leader[i]
      BY <1>5 DEF MemoCovers
    <2>1. CASE i = new
      <3>1. <<n, new>> \in h.memo /\ n = Canonical(h, u[i])
        BY <1>3, <1>5, <1>6, <1>7, <2>1
      <3> QED
        BY <2>1, <3>1
    <2>2. CASE i \in Made(g)
      <3>1. Over(g, t, i) \cap D = {} /\ Canonical(h, u[i]) = Canonical(g, t[i])
        BY <1>5, <1>6, <1>8, <2>2
      <3>2. PICK e \in g.memo : e[1] = Canonical(g, t[i]) /\ g.leader[e[2]] = g.leader[i]
        BY <2>2, <3>1 DEF Closed, MemoCovers, D
      <3> QED
        BY <1>3, <3>1, <3>2
    <2> QED
      BY <1>4, <2>1, <2>2
  <1> QED
    BY <1>10, <1>11, <1>12, <1>14, <1>15, <1>17, <1>18 DEF Closed, h

\* Nodes, hashcons and parents made afresh of a graph with nothing dirty: two
\* ids with one form are one class, and that is the class the hashcons gives for
\* it (reindex).
LEMMA ReindexedCloses ==
  ASSUME NEW g, NEW v, Sound(g, v), g.pending = {}, NEW t, NEW at,
         Closed(g, t, {}, at, {}), NEW h, h = Reindexed(g)
  PROVE  /\ Closed(h, t, {}, at, {})
         /\ \A i, j \in Made(h) :
              /\ Canonical(h, t[i]) = Canonical(h, t[j]) => h.leader[i] = h.leader[j]
              /\ Owners(h, Canonical(h, t[i])) = {h.leader[i]}
  <1> DEFINE nodes == [c \in Id |-> {Canonical(g, n) : n \in g.nodes[c]}]
             held == UNION {{<<n, c>> : n \in nodes[c]} : c \in Classes(g)}
             memo == {e \in held : \A f \in held : f[1] = e[1] => f[2] <= e[2]}
             uses == [c \in Id |-> {e \in held :
                        \E k \in DOMAIN e[1].kids : Find(g, e[1].kids[k]) = c}]
  <1>1. /\ g \in Graph /\ g.leader \in [Id -> Id] /\ g.nodes \in [Id -> SUBSET Node]
        /\ Made(g) \subseteq Id /\ \A i \in Made(g) : g.leader[i] \in Made(g)
    BY MadeIds DEF Sound, LeadersAgree, Graph
  <1>2. /\ h.made = g.made /\ h.leader = g.leader /\ h.pending = {}
        /\ h.nodes = nodes /\ h.memo = memo /\ h.uses = uses
    BY <1>1 DEF Reindexed, Graph
  <1>3. /\ \A m : Canonical(h, m) = Canonical(g, m)
        /\ \A ids : Under(h, ids) = Under(g, ids)
        /\ Made(h) = Made(g) /\ Classes(h) = Classes(g)
        /\ Dirty(h, {}) = {} /\ Dirty(g, {}) = {}
    BY <1>2 DEF Canonical, Find, Under, Dirty, Made, Classes
  <1>4. /\ \A i \in Made(g) : t[i] \in Node
        /\ \A i \in Id : g.leader[g.leader[i]] = g.leader[i]
        /\ \A i \in Made(g) : g.leader[i] \in Classes(g)
        /\ Classes(g) \subseteq Id
    BY <1>1 DEF Closed, TermsAreNodes, Forest, Classes, Find
  <1>5. \A n \in Node : Canonical(g, Canonical(g, n)) = Canonical(g, n)
    BY <1>1, <1>4, FormOfForm
  <1>6. \A c \in Id : \A m : m \in nodes[c] <=> \E n \in g.nodes[c] : m = Canonical(g, n)
    OBVIOUS
  <1>7. \A c \in Id : \A n \in g.nodes[c] : n \in Node
    BY <1>1
  <1>8. ASSUME NEW e \in held
        PROVE  \E c \in Classes(g) : \E n \in g.nodes[c] : e = <<Canonical(g, n), c>>
    <2>1. PICK c \in Classes(g) : e \in {<<m, c>> : m \in nodes[c]}
      OBVIOUS
    <2>2. PICK m \in nodes[c] : e = <<m, c>>
      BY <2>1
    <2> QED
      BY <1>4, <1>6, <2>2
  <1>9. ASSUME NEW c \in Classes(g), NEW n \in g.nodes[c]
        PROVE  <<Canonical(g, n), c>> \in held
    <2>1. <<Canonical(g, n), c>> \in {<<m, c>> : m \in nodes[c]}
      BY <1>4
    <2> HIDE DEF nodes
    <2> QED
      BY <2>1
  <1> HIDE DEF nodes, held
  \* Every term's form is held for its class, and for no other.
  <1>10. ASSUME NEW i \in Made(g)
         PROVE  <<Canonical(g, t[i]), g.leader[i]>> \in held
    <2>1. PICK n \in g.nodes[g.leader[i]] : Canonical(g, n) = Canonical(g, t[i])
      BY DEF Closed, NodesCover, HasForm
    <2> QED
      BY <1>4, <1>9, <2>1
  <1>11. ASSUME NEW e \in held
         PROVE  \E j \in Made(g) : e = <<Canonical(g, t[j]), g.leader[j]>>
    <2>1. PICK c \in Classes(g) : \E n \in g.nodes[c] : e = <<Canonical(g, n), c>>
      BY <1>8
    <2>2. PICK n \in g.nodes[c] : e = <<Canonical(g, n), c>>
      BY <2>1
    <2>3. PICK j \in Made(g) : g.leader[j] = c /\ Canonical(g, n) = Canonical(g, t[j])
      BY DEF Closed, NodesAreTerms, HasForm
    <2> QED
      BY <2>2, <2>3
  <1>12. \A i, j \in Made(g) : Canonical(g, t[j]) = Canonical(g, t[i]) => g.leader[i] = g.leader[j]
    BY <1>3 DEF Closed, CongruentTerms, HasForm
  <1>13. ASSUME NEW i \in Made(g)
         PROVE  /\ <<Canonical(g, t[i]), g.leader[i]>> \in memo
                /\ \A e \in memo : e[1] = Canonical(g, t[i]) => e[2] = g.leader[i]
    <2>1. ASSUME NEW e \in held, e[1] = Canonical(g, t[i]) PROVE e[2] = g.leader[i]
      <3>1. PICK j \in Made(g) : e = <<Canonical(g, t[j]), g.leader[j]>>
        BY <1>11
      <3> QED
        BY <1>12, <2>1, <3>1
    <2>2. g.leader[i] <= g.leader[i]
      BY <1>1, MaxIdsIsNat DEF Id
    <2> QED
      BY <1>10, <2>1, <2>2
  <1> HIDE DEF memo
  <1>14. /\ TermsAreNodes(h, t) /\ Forest(h)
         /\ CongruentTerms(h, t, {})
    <2>1. TermsAreNodes(g, t) /\ Forest(g)
      BY DEF Closed
    <2>2. TermsAreNodes(h, t) /\ Forest(h)
      BY <1>2, <1>3, <1>4, <2>1 DEF TermsAreNodes, Forest
    <2>3. CongruentTerms(h, t, {})
      BY <1>2, <1>3, <1>4, <1>12 DEF CongruentTerms, HasForm
    <2> QED
      BY <2>2, <2>3
  <1>15. NodesCover(h, t)
    <2> SUFFICES ASSUME NEW i \in Made(g)
                 PROVE  \E m \in nodes[g.leader[i]] : Canonical(g, m) = Canonical(g, t[i])
      BY <1>2, <1>3 DEF NodesCover, HasForm
    <2>1. PICK n \in g.nodes[g.leader[i]] : Canonical(g, n) = Canonical(g, t[i])
      BY DEF Closed, NodesCover, HasForm
    <2>2. g.leader[i] \in Id /\ n \in Node
      BY <1>1, <1>7
    <2> QED
      BY <1>5, <1>6, <2>1, <2>2
  <1>16. NodesAreTerms(h, t)
    <2> SUFFICES ASSUME NEW c \in Classes(g), NEW m \in nodes[c]
                 PROVE  \E i \in Made(g) : g.leader[i] = c /\ Canonical(g, m) = Canonical(g, t[i])
      BY <1>2, <1>3 DEF NodesAreTerms, HasForm
    <2>1. PICK n \in g.nodes[c] : m = Canonical(g, n)
      BY <1>4, <1>6
    <2>2. n \in Node
      BY <1>4, <1>7
    <2>3. PICK i \in Made(g) : g.leader[i] = c /\ Canonical(g, n) = Canonical(g, t[i])
      BY DEF Closed, NodesAreTerms, HasForm
    <2> QED
      BY <1>5, <2>1, <2>2, <2>3
  <1>17. ASSUME NEW c \in Id, NEW e
         PROVE  e \in uses[c] <=> e \in held /\ c \in Under(g, Kids(e[1]))
    BY DEF Under, Kids, Find
  <1> HIDE DEF uses
  <1>18. UsesCover(h, t, at, {})
    <2> SUFFICES ASSUME NEW i \in Made(g), NEW c \in Over(g, t, i)
                 PROVE  \E p \in uses[c] : SpeaksFor(g, t, p, i)
      BY <1>2, <1>3 DEF UsesCover, SpeaksFor, HasForm, Over
    <2> DEFINE f == Canonical(g, t[i])
    <2>1. f \in Node /\ Kids(f) = Over(g, t, i) /\ Kids(t[i]) \subseteq Id
      BY <1>1, <1>4, FormIsNode DEF Over
    <2>2. Canonical(g, f) = f /\ <<f, g.leader[i]>> \in held
      BY <1>4, <1>5, <1>10
    <2>3. PICK k \in Kids(t[i]) : c = g.leader[k]
      BY DEF Over, Under
    <2>4. c \in Id /\ g.leader[c] = c
      BY <1>1, <1>4, <2>1, <2>3
    <2>5. c \in Under(g, Kids(f))
      BY <2>1, <2>4 DEF Under
    <2>6. g.leader[g.leader[i]] = g.leader[i]
      BY <1>1, <1>4
    <2>7. <<f, g.leader[i]>> \in uses[c]
      BY <1>17, <2>2, <2>4, <2>5
    <2>8. SpeaksFor(g, t, <<f, g.leader[i]>>, i)
      BY <2>2, <2>6 DEF SpeaksFor, HasForm
    <2> QED
      BY <2>7, <2>8
  <1>19. UsesAreOver(h, at, {})
    BY <1>2, <1>3, <1>17 DEF UsesAreOver
  <1>20. MemoCovers(h, t, {})
    <2> SUFFICES ASSUME NEW i \in Made(g)
                 PROVE  \E e \in memo : e[1] = Canonical(g, t[i]) /\ g.leader[e[2]] = g.leader[i]
      BY <1>2, <1>3 DEF MemoCovers
    <2>1. g.leader[g.leader[i]] = g.leader[i]
      BY <1>1, <1>4
    <2> QED
      BY <1>13, <2>1
  <1>21. ASSUME NEW i \in Made(g) PROVE Owners(h, Canonical(g, t[i])) = {g.leader[i]}
    BY <1>2, <1>13 DEF Owners
  <1>22. \A i, j \in Made(h) :
           /\ Canonical(h, t[i]) = Canonical(h, t[j]) => h.leader[i] = h.leader[j]
           /\ Owners(h, Canonical(h, t[i])) = {h.leader[i]}
    BY <1>2, <1>3, <1>12, <1>21
  <1> QED
    BY <1>3, <1>14, <1>15, <1>16, <1>18, <1>19, <1>20, <1>22 DEF Closed

\* After a union each id has the class it had, with the same parents, or a class
\* that waits; those that were one stay one, and the two are (union).
Merges(g, h, a, b) ==
  /\ h \in Graph /\ h.made = g.made /\ h.memo = g.memo /\ g.pending \subseteq h.pending
  /\ \A i \in Id : h.leader[g.leader[i]] = h.leader[i] /\ h.leader[h.leader[i]] = h.leader[i]
  /\ \A i, j \in Id : g.leader[i] = g.leader[j] => h.leader[i] = h.leader[j]
  /\ h.leader[a] = h.leader[b]
  /\ \A i \in Id :
       \/ h.leader[i] \in Under(h, h.pending)
       \/ h.leader[i] = g.leader[i] /\ h.uses[h.leader[i]] = g.uses[g.leader[i]]

LEMMA UnitedMoves ==
  ASSUME NEW g, NEW v, Sound(g, v), Forest(g), NEW a \in Made(g), NEW b \in Made(g),
         NEW why \in Why, v[a] = v[b], NEW h, h = United(g, a, b, why)
  PROVE  Merges(g, h, a, b)
  <1> DEFINE root == Survivor(g, a, b)
             gone == Absorbed(g, a, b)
  <1>1. /\ g \in Graph /\ h \in Graph /\ g.leader \in [Id -> Id] /\ Made(g) \subseteq Id
        /\ g.uses \in [Id -> SUBSET (Node \X Id)]
        /\ \A i \in Id : g.leader[g.leader[i]] = g.leader[i]
    BY UnitedIsSound, MadeIds DEF Sound, Forest, Graph
  <1>2. CASE root = gone
    <2>1. h = g /\ g.leader[a] = g.leader[b]
      BY <1>2 DEF United, Survivor, Absorbed, Find
    <2> QED
      BY <1>1, <2>1 DEF Merges
  <1>3. CASE root # gone
    <2>1. /\ h.made = g.made /\ h.memo = g.memo /\ h.pending = g.pending \cup {root}
          /\ h.leader = [i \in Id |-> IF g.leader[i] = gone THEN root ELSE g.leader[i]]
          /\ h.nodes = [g.nodes EXCEPT ![root] = @ \cup g.nodes[gone], ![gone] = {}]
          /\ h.uses = [g.uses EXCEPT ![root] = @ \cup g.uses[gone], ![gone] = {}]
          /\ root \in {g.leader[a], g.leader[b]} /\ gone \in {g.leader[a], g.leader[b]}
          /\ root \in Made(g) /\ gone \in Made(g) /\ root \in Id /\ gone \in Id
      BY <1>3, UnitedParts
    <2> HIDE DEF root, gone
    <2>2. g.leader[root] = root /\ g.leader[gone] = gone
      BY <1>1, <2>1
    <2>3. \A i \in Id : h.leader[i] = IF g.leader[i] = gone THEN root ELSE g.leader[i]
      BY <1>1, <2>1
    <2>4. h.leader[a] = root /\ h.leader[b] = root /\ h.leader[root] = root
      BY <1>1, <1>3, <2>1, <2>2, <2>3
    <2>5. root \in Under(h, h.pending)
      BY <2>1, <2>4 DEF Under
    <2>6. /\ \A i \in Id : h.leader[g.leader[i]] = h.leader[i]
          /\ \A i \in Id : h.leader[h.leader[i]] = h.leader[i]
          /\ \A i, j \in Id : g.leader[i] = g.leader[j] => h.leader[i] = h.leader[j]
      BY <1>1, <1>3, <2>1, <2>2, <2>3
    <2>7. ASSUME NEW i \in Id, h.leader[i] # root
          PROVE  h.leader[i] = g.leader[i] /\ h.uses[h.leader[i]] = g.uses[g.leader[i]]
      <3>1. h.leader[i] = g.leader[i] /\ g.leader[i] # gone /\ g.leader[i] # root /\ g.leader[i] \in Id
        BY <1>1, <2>3, <2>7
      <3> QED
        BY <1>1, <2>1, <3>1
    <2> QED
      BY <1>1, <2>1, <2>4, <2>5, <2>6, <2>7 DEF Merges
  <1> QED
    BY <1>2, <1>3

\* A hashcons entry for a node over the class under repair, which is dirty, and a
\* hand that speaks for no fewer (memo.insert in repair).
LEMMA KeyedCloses ==
  ASSUME NEW g \in Graph, NEW t, NEW others \in SUBSET Id, NEW at \in others,
         NEW hand, NEW hand2,
         Closed(g, t, others, at, hand),
         \A p \in hand : \E q \in hand2 : \A i \in Made(g) :
           SpeaksFor(g, t, p, i) => SpeaksFor(g, t, q, i),
         \A q \in hand2 : g.leader[at] \in Under(g, Kids(q[1])),
         NEW n \in Node, g.leader[at] \in Under(g, Kids(n)), NEW o \in Id,
         NEW h, h = Keyed(g, n, o)
  PROVE  Closed(h, t, others, at, hand2)
  <1>1. /\ h.made = g.made /\ h.leader = g.leader /\ h.nodes = g.nodes /\ h.uses = g.uses
        /\ h.pending = g.pending /\ h.memo = {e \in g.memo : e[1] # n} \cup {<<n, o>>}
    BY DEF Keyed, Graph
  <1>2. /\ \A m : Canonical(h, m) = Canonical(g, m)
        /\ \A ids : Under(h, ids) = Under(g, ids)
        /\ Made(h) = Made(g) /\ Classes(h) = Classes(g)
        /\ Dirty(h, others) = Dirty(g, others)
    BY <1>1 DEF Canonical, Find, Under, Made, Classes, Dirty
  <1>3. /\ TermsAreNodes(h, t) /\ Forest(h) /\ NodesCover(h, t) /\ NodesAreTerms(h, t)
        /\ CongruentTerms(h, t, Dirty(h, others))
    BY <1>1, <1>2 DEF Closed, TermsAreNodes, Forest, NodesCover, NodesAreTerms, CongruentTerms,
                      HasForm, Over
  <1>4. UsesAreOver(h, at, hand2)
    BY <1>1, <1>2 DEF Closed, UsesAreOver
  <1>5. UsesCover(h, t, at, hand2)
    <2> SUFFICES ASSUME NEW i \in Made(g), NEW c \in Over(g, t, i)
                 PROVE  \/ \E p \in g.uses[c] : SpeaksFor(g, t, p, i)
                        \/ c = g.leader[at] /\ \E p \in hand2 : SpeaksFor(g, t, p, i)
      BY <1>1, <1>2 DEF UsesCover, Over, SpeaksFor, HasForm
    <2>1. \/ \E p \in g.uses[c] : SpeaksFor(g, t, p, i)
          \/ c = g.leader[at] /\ \E p \in hand : SpeaksFor(g, t, p, i)
      BY DEF Closed, UsesCover
    <2> QED
      BY <2>1
  <1>6. MemoCovers(h, t, Dirty(h, others))
    <2> SUFFICES ASSUME NEW i \in Made(g), Over(g, t, i) \cap Dirty(g, others) = {}
                 PROVE  \E e \in h.memo : e[1] = Canonical(g, t[i]) /\ g.leader[e[2]] = g.leader[i]
      BY <1>1, <1>2 DEF MemoCovers, Over
    <2>1. t[i] \in Node /\ \A j \in Id : g.leader[g.leader[j]] = g.leader[j]
      BY DEF Closed, TermsAreNodes, Forest
    <2>2. Kids(Canonical(g, t[i])) = Over(g, t, i) /\ Kids(t[i]) \subseteq Id
      BY <2>1, FormIsNode DEF Over
    <2>3. Under(g, Over(g, t, i)) \subseteq Over(g, t, i)
      BY <2>1, <2>2 DEF Over, Under
    <2>4. g.leader[at] \in Dirty(g, others)
      BY DEF Dirty, Under
    <2>5. Canonical(g, t[i]) # n
      BY <2>2, <2>3, <2>4
    <2>6. PICK e \in g.memo : e[1] = Canonical(g, t[i]) /\ g.leader[e[2]] = g.leader[i]
      BY DEF Closed, MemoCovers
    <2> QED
      BY <1>1, <2>5, <2>6
  <1> QED
    BY <1>3, <1>4, <1>5, <1>6 DEF Closed

----------------------------------------------------------------------------
(* The invariant.                                                           *)

\* The parents repair has taken out, looked at or not.
Hand == left \cup {<<s.node, s.owner>> : s \in seen}

\* The classes whose parents it has yet to look at, but for those of the graph.
Others == todo \cup (IF phase = "repair" THEN {repairing} ELSE {})

\* What repair has seen has one entry for each form, a form that is canonical yet
\* or is over a class that has since absorbed another, and the hashcons has it.
SeenIsOne == \A s, u \in seen : s.node = u.node => s = u

StillCanonical(g, n) ==
  Canonical(g, n) = n \/ Kids(Canonical(g, n)) \cap Under(g, g.pending) # {}

SeenIsCanonical == \A s \in seen : StillCanonical(graph, s.node)

KeyedFor(g, n, i) == \E e \in g.memo : e[1] = n /\ g.leader[e[2]] = g.leader[i]

SeenIsKeyed == \A s \in seen : KeyedFor(graph, s.node, s.owner)

\* All the parents of the class under repair are in repair's hands, or the class
\* has absorbed another meanwhile and will be repaired again.
HandIsAll(g, at) == g.uses[g.leader[at]] = {} \/ g.leader[at] \in Under(g, g.pending)

RepairsOrder ==
  /\ phase = "repair" => HandIsAll(graph, repairing)
  /\ phase # "repair" => left = {} /\ seen = {}
  /\ phase \notin {"congruence", "repair"} => todo = {}

CInv ==
  /\ Closed(graph, term, Others, repairing, Hand)
  /\ SeenIsOne /\ SeenIsCanonical /\ SeenIsKeyed
  /\ RepairsOrder
  /\ CongruenceRestored

\* The empty graph satisfies it (EGraph::new).
LEMMA InitCloses == Init => CInv
  <1> SUFFICES ASSUME Init PROVE CInv
    OBVIOUS
  <1>1. Made(graph) = {} /\ Classes(graph) = {}
    BY DEF Init, EmptyGraph, Made, Classes
  <1>2. Forest(graph) /\ \A c \in Id : graph.uses[c] = {}
    BY DEF Init, EmptyGraph, Forest
  <1>3. Hand = {}
    BY DEF Init, Hand
  <1>4. Closed(graph, term, Others, repairing, Hand)
    BY <1>1, <1>2, <1>3 DEF Closed, TermsAreNodes, NodesCover, NodesAreTerms, UsesCover,
       UsesAreOver, CongruentTerms, MemoCovers
  <1> QED
    BY <1>1, <1>4 DEF Init, CInv, SeenIsOne, SeenIsCanonical, SeenIsKeyed, RepairsOrder,
       CongruenceRestored

\* Between repairs nothing is in repair's hands.
LEMMA Idle ==
  ASSUME CInv, phase # "repair"
  PROVE  Hand = {} /\ Others = todo /\ left = {} /\ seen = {}
  BY DEF CInv, RepairsOrder, Hand, Others

\* A step outside repair, which leaves the graph closed.
LEMMA IdleKeeps ==
  ASSUME CInv, phase # "repair", phase' # "repair", UNCHANGED <<left, seen>>,
         Closed(graph', term', todo', repairing', {}),
         phase' # "congruence" => todo' = {},
         CongruenceRestored'
  PROVE  CInv'
  <1>1. left' = {} /\ seen' = {}
    BY Idle
  <1>2. Hand' = {} /\ Others' = todo'
    BY <1>1 DEF Hand, Others
  <1>3. Closed(graph', term', Others', repairing', Hand')
    BY <1>2
  <1>4. SeenIsOne' /\ SeenIsCanonical' /\ SeenIsKeyed'
    BY <1>1 DEF SeenIsOne, SeenIsCanonical, SeenIsKeyed
  <1>5. RepairsOrder'
    BY <1>1 DEF RepairsOrder
  <1> QED
    BY <1>3, <1>4, <1>5 DEF CInv

\* The steps that only look at facts, and the start of rebuild and of its rounds.
LEMMA FactStepCloses ==
  ASSUME CInv, graph \in Graph, graph' \in Graph,
         graph'.made = graph.made, graph'.leader = graph.leader,
         graph'.nodes = graph.nodes, graph'.uses = graph.uses,
         graph'.memo = graph.memo, graph'.pending = graph.pending,
         phase # "repair", phase' \in {"congruence", "facts", "modify"},
         phase' # "congruence" => todo = {},
         UNCHANGED <<term, todo, repairing, left, seen>>
  PROVE  CInv'
  <1>1. Closed(graph, term, todo, repairing, {})
    BY Idle DEF CInv
  <1>2. Dirty(graph, todo) \subseteq Dirty(graph', todo)
    BY DEF Dirty, Under
  <1>3. Closed(graph', term, todo, repairing, {})
    BY <1>1, <1>2, SameCloses
  <1>4. CongruenceRestored'
    BY DEF CongruenceRestored
  <1> QED
    BY <1>3, <1>4, IdleKeeps

----------------------------------------------------------------------------
(* The calls.                                                               *)

\* The end of rebuild restores it, whatever rounds and fuel were left.
LEMMA FinishCloses ==
  ASSUME IInv, CInv, Finish
  PROVE  CInv'
  <1>1. /\ graph.pending = {} /\ todo = {} /\ phase # "repair" /\ phase' = "clean"
        /\ graph' = Reindexed(graph)
        /\ UNCHANGED <<todo, repairing, left, seen, ghosts>>
    BY DEF Finish, Congruent, Pending, CInv, RepairsOrder
  <1>2. Closed(graph, term, {}, repairing, {})
    BY <1>1, Idle DEF CInv
  <1>3. /\ Closed(graph', term, {}, repairing, {})
        /\ \A i, j \in Made(graph') :
             /\ Canonical(graph', term[i]) = Canonical(graph', term[j])
                  => graph'.leader[i] = graph'.leader[j]
             /\ Owners(graph', Canonical(graph', term[i])) = {graph'.leader[i]}
    <2>1. Sound(graph, value)
      BY DEF IInv
    <2> DEFINE h == Reindexed(graph)
    <2>2. /\ Closed(h, term, {}, repairing, {})
          /\ \A i, j \in Made(h) :
               /\ Canonical(h, term[i]) = Canonical(h, term[j]) => h.leader[i] = h.leader[j]
               /\ Owners(h, Canonical(h, term[i])) = {h.leader[i]}
      <3> HIDE DEF h
      <3>1. h = Reindexed(graph)
        BY DEF h
      <3> QED
        BY <1>1, <1>2, <2>1, <3>1, ReindexedCloses
    <2>3. graph' = h
      BY <1>1
    <2> HIDE DEF h
    <2> QED
      BY <2>2, <2>3
  <1>4. CongruenceRestored'
    BY <1>1, <1>3 DEF CongruenceRestored, Find, ghosts
  <1> QED
    BY <1>1, <1>3, <1>4, IdleKeeps DEF ghosts

\* A node the caller adds.
LEMMA AddCloses ==
  ASSUME IInv, CInv, NEW n \in Node, Add(n)
  PROVE  CInv'
  <1>1. /\ Kids(n) \subseteq Classes(graph) /\ n = Normalized(n)
        /\ graph' = Added(graph, n) /\ Remembers(n)
        /\ phase \in {"clean", "dirty"}
        /\ phase' = IF Owners(graph, n) = {} THEN "dirty" ELSE phase
        /\ UNCHANGED <<todo, repairing, left, seen>>
    BY DEF Add, Between, Kids, rebuildVars
  <1>2. HasRoom(graph, n)
    BY BoundsAreFinite, FS_CardinalityType DEF HasRoom, Add, MaxIds, IInv, TypeOK, Graph
  <1>3. todo = {} /\ Closed(graph, term, {}, repairing, {})
    BY <1>1, Idle DEF CInv, RepairsOrder
  <1>4. CASE Owners(graph, n) # {}
    <2>1. graph' = graph /\ phase' = phase
      BY <1>1, <1>4 DEF Added
    <2>2. UNCHANGED term
      BY <1>1, <2>1 DEF Remembers
    <2>3. CongruenceRestored'
      BY <2>1, <2>2 DEF CInv, CongruenceRestored
    <2> QED
      BY <1>1, <1>3, <2>1, <2>2, <2>3, IdleKeeps
  <1>5. CASE Owners(graph, n) = {}
    <2>1. graph \in Graph /\ graph.made \in Nat /\ term \in [Id -> Node \cup {<<>>}]
      BY MadeIds DEF IInv, TypeOK
    <2>2. graph'.made = graph.made + 1
      BY <1>1, <1>5, <2>1 DEF Added, Graph
    <2>3. term' = [term EXCEPT ![graph.made] = n]
      BY <1>1, <2>1, <2>2 DEF Remembers
    <2>4. repairing \in Id
      BY DEF IInv, TypeOK
    <2>5. Closed(graph', term', {}, repairing, {})
      BY <1>1, <1>2, <1>3, <1>5, <2>1, <2>3, <2>4, AddedCloses DEF IInv
    <2>6. CongruenceRestored'
      BY <1>1, <1>5 DEF CongruenceRestored
    <2> QED
      BY <1>1, <1>3, <1>5, <2>5, <2>6, IdleKeeps
  <1> QED
    BY <1>4, <1>5

\* Two classes the caller says are equal.
LEMMA UnionCloses ==
  ASSUME IInv, CInv, NEW a \in Classes(graph), NEW b \in Classes(graph), Union(a, b)
  PROVE  CInv'
  <1>1. /\ graph' = United(graph, a, b, Asserted) /\ value[a] = value[b]
        /\ phase \in {"clean", "dirty"}
        /\ phase' = IF Find(graph, a) = Find(graph, b) THEN phase ELSE "dirty"
        /\ UNCHANGED <<term, todo, repairing, left, seen>>
    BY DEF Union, Between, rebuildVars, ghosts
  <1>2. todo = {} /\ Closed(graph, term, {}, repairing, {})
    BY <1>1, Idle DEF CInv, RepairsOrder
  <1>3. a \in Made(graph) /\ b \in Made(graph) /\ Asserted \in Why /\ repairing \in Id
    BY DEF Classes, Why, IInv, TypeOK
  <1>4. Closed(graph', term, {}, repairing, {})
    BY <1>1, <1>2, <1>3, UnitedCloses DEF IInv
  <1>5. CongruenceRestored'
    <2>1. CASE Find(graph, a) = Find(graph, b)
      <3>1. graph' = graph /\ phase' = phase
        BY <1>1, <2>1 DEF United, Survivor, Absorbed
      <3> QED
        BY <1>1, <3>1 DEF CInv, CongruenceRestored
    <2>2. CASE Find(graph, a) # Find(graph, b)
      BY <1>1, <2>2 DEF CongruenceRestored
    <2> QED
      BY <2>1, <2>2
  <1>6. phase' # "repair" /\ phase # "repair"
    BY <1>1
  <1> QED
    BY <1>1, <1>2, <1>4, <1>5, <1>6, IdleKeeps

\* The literal of a constant, added where it is new, and joined with its class
\* (modify).
LEMMA ModifyCloses ==
  ASSUME IInv, CInv, NEW id \in changed, Modify(id)
  PROVE  CInv'
  <1> DEFINE c == graph.fact[graph.leader[id]]
             lit == LiteralNode(c)
             folds == c # None /\ lit \notin graph.nodes[graph.leader[id]]
             g == Added(graph, lit)
             lands == LandsIn(graph, lit)
             w == Grown(graph, value, lit)
             u == IF Owners(graph, lit) = {} THEN [term EXCEPT ![graph.made] = lit] ELSE term
  <1>1. /\ Sound(graph, value) /\ graph \in Graph /\ id \in Id
        /\ phase = "modify" /\ phase' = "modify"
        /\ folds => HasRoom(graph, lit)
        /\ graph' = IF folds THEN United(g, id, lands, Folded) ELSE graph
        /\ Remembers(lit)
        /\ UNCHANGED <<todo, repairing, left, seen>>
    BY DEF Modify, Find, IInv, TypeOK
  <1>2. todo = {} /\ Closed(graph, term, {}, repairing, {}) /\ repairing \in Id
    BY <1>1, Idle DEF CInv, RepairsOrder, IInv, TypeOK
  <1>3. CASE ~ folds
    <2>1. graph' = graph /\ UNCHANGED term
      BY <1>1, <1>3 DEF Remembers
    <2> QED
      BY <1>1, <1>2, <2>1, FactStepCloses
  <1>4. CASE folds
    <2>1. c \in Number /\ c = value[id]
      BY <1>1, <1>4 DEF Sound, LeadersAgree, FactsAgree, Graph, Known
    <2>2. id \in Made(graph)
      BY <1>1, <1>4, <2>1 DEF Sound, LeadersAgree
    <2>3. /\ lit \in Node /\ Worth(value, lit) = c /\ Kids(lit) = {} /\ lit = Normalized(lit)
          /\ \A k \in DOMAIN lit.kids : lit.kids[k] \in Made(graph)
      BY <2>1, OperatorsDiffer DEF LiteralNode, Node, Worth, Kids, Normalized
    <2> HIDE DEF c, lit
    <2>4. /\ Sound(g, w) /\ lands \in Made(g) /\ w[lands] = c
          /\ id \in Made(g) /\ w[id] = value[id]
      BY <1>1, <1>4, <2>2, <2>3, AddedIsSound
    <2>5. Folded \in Why
      BY DEF Why
    <2>6. graph'.made = g.made
      BY <1>1, <1>4, <2>1, <2>4, <2>5, UnitedIsSound
    <2>7. term' = u
      <3>1. CASE Owners(graph, lit) = {}
        <4>1. graph.made \in Nat /\ g.made = graph.made + 1
          BY <1>1, <3>1, MadeIds DEF Added, Graph
        <4> QED
          BY <1>1, <2>6, <3>1, <4>1 DEF Remembers
      <3>2. CASE Owners(graph, lit) # {}
        BY <1>1, <2>6, <3>2 DEF Remembers, Added
      <3> QED
        BY <3>1, <3>2
    <2>8. Closed(g, u, {}, repairing, {})
      <3>1. CASE Owners(graph, lit) = {}
        <4>1. term \in [Id -> Node \cup {<<>>}] /\ u = [term EXCEPT ![graph.made] = lit]
          BY <3>1 DEF IInv, TypeOK
        <4>2. Kids(lit) \subseteq Classes(graph)
          BY <2>3
        <4> HIDE DEF u
        <4> QED
          BY <1>1, <1>2, <1>4, <2>3, <3>1, <4>1, <4>2, AddedCloses
      <3>2. CASE Owners(graph, lit) # {}
        BY <1>2, <3>2 DEF Added
      <3> QED
        BY <3>1, <3>2
    <2> HIDE DEF g, lands, w, u
    <2>9. Closed(graph', u, {}, repairing, {})
      BY <1>1, <1>2, <1>4, <2>1, <2>4, <2>5, <2>8, UnitedCloses
    <2>10. CongruenceRestored'
      BY <1>1 DEF CongruenceRestored
    <2> QED
      BY <1>1, <1>2, <2>7, <2>9, <2>10, IdleKeeps
  <1> QED
    BY <1>3, <1>4

----------------------------------------------------------------------------
(* restore_congruence and repair.                                           *)

\* The worklist is as dirty as what was pending.
LEMMA TakePendingCloses ==
  ASSUME IInv, CInv, TakePending
  PROVE  CInv'
  <1>1. /\ graph \in Graph /\ graph' = [graph EXCEPT !.pending = {}]
        /\ todo = {} /\ todo' = {graph.leader[i] : i \in graph.pending}
        /\ phase = "congruence" /\ phase' = "congruence"
        /\ UNCHANGED <<term, repairing, left, seen>>
    BY DEF TakePending, IInv, TypeOK, Find, ghosts
  <1>2. /\ graph' \in Graph /\ graph'.made = graph.made /\ graph'.leader = graph.leader
        /\ graph'.nodes = graph.nodes /\ graph'.uses = graph.uses
        /\ graph'.memo = graph.memo /\ graph'.pending = {}
    BY <1>1 DEF Graph
  <1>3. Closed(graph, term, {}, repairing, {})
    BY <1>1, Idle DEF CInv
  <1>4. Dirty(graph, {}) \subseteq Dirty(graph', todo')
    <2> SUFFICES ASSUME NEW q \in graph.pending PROVE graph.leader[q] \in Dirty(graph', todo')
      BY DEF Dirty, Under
    <2>1. q \in Id /\ graph.leader[graph.leader[q]] = graph.leader[q]
      BY <1>1, <1>3 DEF Closed, Forest, Graph
    <2>2. graph.leader[q] \in todo'
      BY <1>1
    <2> QED
      BY <1>2, <2>1, <2>2 DEF Dirty, Under
  <1>5. Closed(graph', term, todo', repairing, {})
    <2>1. graph \in Graph
      BY <1>1
    <2> QED
      BY <1>2, <1>3, <1>4, <2>1, SameCloses
  <1>6. CongruenceRestored'
    BY <1>1 DEF CongruenceRestored
  <1> QED
    BY <1>1, <1>5, <1>6, IdleKeeps

\* The parents repair takes out it has in hand; the keys it drops are of nodes
\* over the class it repairs, which is dirty.
LEMMA BeginRepairCloses ==
  ASSUME IInv, CInv, NEW i \in todo, BeginRepair(i)
  PROVE  CInv'
  <1> DEFINE id == graph.leader[i]
             more == (todo \ {i}) \cup {id}
             h == graph'
             hand == graph.uses[id]
  <1>1. /\ graph \in Graph /\ i \in Id /\ id \in Id
        /\ h = [graph EXCEPT
             !.uses = [graph.uses EXCEPT ![id] = {}],
             !.memo = {e \in graph.memo : \A p \in graph.uses[id] : p[1] # e[1]}]
        /\ phase = "congruence" /\ phase' = "repair" /\ todo' = todo \ {i} /\ repairing' = id
        /\ left' = hand /\ seen' = {} /\ UNCHANGED term
    BY DEF BeginRepair, Find, IInv, TypeOK, ghosts, Graph
  <1>2. /\ h.made = graph.made /\ h.leader = graph.leader /\ h.nodes = graph.nodes
        /\ h.pending = graph.pending
        /\ h.uses = [graph.uses EXCEPT ![id] = {}]
        /\ h.memo = {e \in graph.memo : \A p \in hand : p[1] # e[1]}
        /\ graph.uses \in [Id -> SUBSET (Node \X Id)] /\ graph.memo \in SUBSET (Node \X Id)
    BY <1>1 DEF Graph
  <1>3. Closed(graph, term, todo, repairing, {})
    BY <1>1, Idle DEF CInv
  <1>4. Others' = more /\ Hand' = hand
    BY <1>1 DEF Others, Hand
  <1> HIDE DEF more, h, hand
  <1>5. /\ \A m : Canonical(h, m) = Canonical(graph, m)
        /\ \A ids : Under(h, ids) = Under(graph, ids)
        /\ Made(h) = Made(graph) /\ Classes(h) = Classes(graph)
    BY <1>2 DEF Canonical, Find, Under, Made, Classes
  <1>6. graph.leader[id] = id
    BY <1>1, <1>3 DEF Closed, Forest
  <1>7. Dirty(graph, todo) \subseteq Dirty(h, more) /\ id \in Dirty(graph, todo)
        /\ Dirty(h, more) \subseteq Dirty(graph, todo)
    BY <1>2, <1>6 DEF Dirty, Under, more
  <1>8. /\ TermsAreNodes(h, term) /\ Forest(h) /\ NodesCover(h, term) /\ NodesAreTerms(h, term)
        /\ CongruentTerms(h, term, Dirty(h, more))
    <2>1. Dirty(h, more) = Dirty(graph, todo)
      BY <1>7
    <2> QED
      BY <1>2, <1>3, <1>5, <2>1 DEF Closed, TermsAreNodes, Forest, NodesCover, NodesAreTerms,
                                    CongruentTerms, HasForm, Over
  <1>9. UsesAreOver(h, id, hand)
    <2>1. ASSUME NEW c \in Id, NEW p \in h.uses[c] PROVE c \in Under(h, Kids(p[1]))
      <3>1. p \in graph.uses[c]
        BY <1>1, <1>2, <2>1
      <3> QED
        BY <1>3, <1>5, <3>1 DEF Closed, UsesAreOver
    <2>2. ASSUME NEW p \in hand PROVE h.leader[id] \in Under(h, Kids(p[1]))
      BY <1>1, <1>2, <1>3, <1>5, <1>6, <2>2 DEF Closed, UsesAreOver, hand
    <2> QED
      BY <2>1, <2>2 DEF UsesAreOver
  <1>10. UsesCover(h, term, id, hand)
    <2> SUFFICES ASSUME NEW j \in Made(graph), NEW c \in Over(graph, term, j)
                 PROVE  \/ \E p \in h.uses[c] : SpeaksFor(graph, term, p, j)
                        \/ c = id /\ \E p \in hand : SpeaksFor(graph, term, p, j)
      BY <1>2, <1>5, <1>6 DEF UsesCover, Over, SpeaksFor, HasForm
    <2>1. c \in Id
      <3>1. term[j] \in Node
        BY <1>3 DEF Closed, TermsAreNodes
      <3> QED
        BY <1>1, <3>1, FormIsNode, MadeIds DEF Over, Under
    <2>2. \E p \in graph.uses[c] : SpeaksFor(graph, term, p, j)
      BY <1>3 DEF Closed, UsesCover
    <2> QED
      BY <1>2, <2>1, <2>2 DEF hand
  <1>11. MemoCovers(h, term, Dirty(h, more))
    <2> SUFFICES ASSUME NEW j \in Made(graph), Over(graph, term, j) \cap Dirty(graph, todo) = {}
                 PROVE  \E e \in h.memo : /\ e[1] = Canonical(graph, term[j])
                                          /\ graph.leader[e[2]] = graph.leader[j]
      BY <1>2, <1>5, <1>7 DEF MemoCovers, Over
    <2>1. PICK e \in graph.memo : /\ e[1] = Canonical(graph, term[j])
                                  /\ graph.leader[e[2]] = graph.leader[j]
      BY <1>3 DEF Closed, MemoCovers
    <2>2. ASSUME NEW p \in hand, p[1] = e[1] PROVE FALSE
      <3>1. id \in Under(graph, Kids(p[1]))
        BY <1>1, <1>3 DEF Closed, UsesAreOver, hand
      <3>2. /\ term[j] \in Node /\ Kids(e[1]) = Over(graph, term, j) /\ Kids(term[j]) \subseteq Id
        BY <1>1, <1>3, <2>1, FormIsNode DEF Closed, TermsAreNodes, Over
      <3>3. Under(graph, Over(graph, term, j)) \subseteq Over(graph, term, j)
        BY <1>3, <3>2 DEF Closed, Forest, Over, Under
      <3> QED
        BY <1>7, <2>2, <3>1, <3>2, <3>3
    <2> QED
      BY <1>2, <2>1, <2>2
  <1>12. Closed(h, term, more, id, hand)
    BY <1>8, <1>9, <1>10, <1>11 DEF Closed
  <1>13. HandIsAll(h, id)
    BY <1>1, <1>2, <1>6 DEF HandIsAll
  <1>14. CongruenceRestored'
    BY <1>1 DEF CongruenceRestored
  <1> QED
    BY <1>1, <1>4, <1>12, <1>13, <1>14
    DEF CInv, SeenIsOne, SeenIsCanonical, SeenIsKeyed, RepairsOrder, h

\* A class whose parents have all been looked at is dirty no more: of two terms
\* over it with one form the entries are one, and the hashcons has it (the end of
\* repair).
LEMMA EndRepairCloses ==
  ASSUME IInv, CInv, EndRepair
  PROVE  CInv'
  <1> DEFINE root == graph.leader[repairing]
             put == {<<s.node, s.owner>> : s \in seen}
             h == graph'
  <1>1. /\ graph \in Graph /\ repairing \in Id /\ root \in Id
        /\ h = [graph EXCEPT !.uses = [graph.uses EXCEPT ![root] = @ \cup put]]
        /\ phase = "repair" /\ phase' = "congruence" /\ left = {}
        /\ seen' = {} /\ repairing' = 0 /\ left' = {}
        /\ UNCHANGED <<todo, term>>
    BY DEF EndRepair, Find, IInv, TypeOK, ghosts, Graph
  <1>2. /\ h.made = graph.made /\ h.leader = graph.leader /\ h.nodes = graph.nodes
        /\ h.pending = graph.pending /\ h.memo = graph.memo
        /\ h.uses = [graph.uses EXCEPT ![root] = @ \cup put]
        /\ graph.uses \in [Id -> SUBSET (Node \X Id)]
        /\ \A i \in Made(graph) : i \in Id /\ graph.leader[i] \in Id
    BY <1>1, MadeIds DEF Graph
  <1>3. Others = todo \cup {repairing} /\ Hand = put /\ Others' = todo /\ Hand' = {}
    BY <1>1 DEF Others, Hand
  <1>4. /\ Closed(graph, term, todo \cup {repairing}, repairing, put)
        /\ HandIsAll(graph, repairing)
        /\ SeenIsOne /\ SeenIsCanonical /\ SeenIsKeyed
    BY <1>1, <1>3 DEF CInv, RepairsOrder
  <1>5. \A p \in put : \E s \in seen : p[1] = s.node /\ p[2] = s.owner
    OBVIOUS
  <1> HIDE DEF root, put, h
  <1>6. /\ \A m : Canonical(h, m) = Canonical(graph, m)
        /\ \A ids : Under(h, ids) = Under(graph, ids)
        /\ Made(h) = Made(graph) /\ Classes(h) = Classes(graph)
        /\ Dirty(h, todo) = Dirty(graph, todo)
        /\ Dirty(graph, todo \cup {repairing}) = Dirty(graph, todo) \cup {root}
    BY <1>2 DEF Canonical, Find, Under, Made, Classes, Dirty, root
  <1>7. TermsAreNodes(h, term) /\ Forest(h) /\ NodesCover(h, term) /\ NodesAreTerms(h, term)
    BY <1>2, <1>4, <1>6 DEF Closed, TermsAreNodes, Forest, NodesCover, NodesAreTerms, HasForm
  <1>8. \A i \in Made(graph) : /\ term[i] \in Node /\ Kids(term[i]) \subseteq Id
                               /\ Kids(Canonical(graph, term[i])) = Over(graph, term, i)
                               /\ Over(graph, term, i) \subseteq Id
    <2> TAKE i \in Made(graph)
    <2>1. term[i] \in Node
      BY <1>4 DEF Closed, TermsAreNodes
    <2>2. graph.leader \in [Id -> Id]
      BY <1>1, MadeIds
    <2> QED
      BY <1>1, <2>1, <2>2, FormIsNode DEF Over, Under
  <1>9. UsesCover(h, term, 0, {})
    <2> SUFFICES ASSUME NEW i \in Made(graph), NEW c \in Over(graph, term, i)
                 PROVE  \E p \in h.uses[c] : SpeaksFor(graph, term, p, i)
      BY <1>2, <1>6 DEF UsesCover, Over, SpeaksFor, HasForm
    <2>1. \/ \E p \in graph.uses[c] : SpeaksFor(graph, term, p, i)
          \/ c = root /\ \E p \in put : SpeaksFor(graph, term, p, i)
      BY <1>4 DEF Closed, UsesCover, root
    <2>2. c \in Id
      BY <1>8
    <2> QED
      BY <1>1, <1>2, <2>1, <2>2
  <1>10. UsesAreOver(h, 0, {})
    <2> SUFFICES ASSUME NEW c \in Id, NEW p \in h.uses[c] PROVE c \in Under(h, Kids(p[1]))
      BY DEF UsesAreOver
    <2>1. p \in graph.uses[c] \/ (c = root /\ p \in put)
      BY <1>1, <1>2
    <2> QED
      BY <1>4, <1>6, <2>1 DEF Closed, UsesAreOver, root
  \* What was seen of a settled term over the class.
  <1>11. ASSUME NEW i \in Made(graph), root \in Over(graph, term, i),
                Over(graph, term, i) \cap Dirty(graph, todo) = {}
         PROVE  \E s \in seen : /\ s.node = Canonical(graph, term[i])
                                /\ graph.leader[s.owner] = graph.leader[i]
    <2>1. root \notin Under(graph, graph.pending)
      BY <1>11 DEF Dirty, Under
    <2>2. graph.uses[root] = {}
      BY <1>4, <2>1 DEF HandIsAll, root
    <2>3. PICK p \in put : SpeaksFor(graph, term, p, i)
      BY <1>4, <1>11, <2>2 DEF Closed, UsesCover, root
    <2>4. PICK s \in seen : p[1] = s.node /\ p[2] = s.owner
      BY <1>5
    <2>5. Canonical(graph, s.node) = Canonical(graph, term[i])
      BY <2>3, <2>4 DEF SpeaksFor, HasForm
    <2>6. Kids(Canonical(graph, s.node)) \cap Under(graph, graph.pending) = {}
      <3>1. Under(graph, graph.pending) \subseteq Dirty(graph, todo)
        BY DEF Dirty, Under
      <3>2. Kids(Canonical(graph, s.node)) = Over(graph, term, i)
        BY <1>8, <2>5
      <3> QED
        BY <1>11, <3>1, <3>2
    <2>7. Canonical(graph, s.node) = s.node
      BY <1>4, <2>6 DEF SeenIsCanonical, StillCanonical
    <2> QED
      BY <2>3, <2>4, <2>5, <2>7 DEF SpeaksFor
  <1>12. CongruentTerms(h, term, Dirty(h, todo))
    <2> SUFFICES ASSUME NEW i \in Made(graph), NEW j \in Made(graph),
                        Canonical(graph, term[j]) = Canonical(graph, term[i]),
                        Over(graph, term, i) \cap Dirty(graph, todo) = {}
                 PROVE  graph.leader[i] = graph.leader[j]
      BY <1>2, <1>6 DEF CongruentTerms, HasForm, Over
    <2>1. CASE root \notin Over(graph, term, i)
      BY <1>4, <1>6, <2>1 DEF Closed, CongruentTerms, HasForm
    <2>2. CASE root \in Over(graph, term, i)
      <3>1. Over(graph, term, j) = Over(graph, term, i)
        BY <1>8
      <3>2. PICK s \in seen : /\ s.node = Canonical(graph, term[i])
                              /\ graph.leader[s.owner] = graph.leader[i]
        BY <1>11, <2>2
      <3>3. PICK u \in seen : /\ u.node = Canonical(graph, term[j])
                              /\ graph.leader[u.owner] = graph.leader[j]
        BY <1>11, <2>2, <3>1
      <3>4. s = u
        BY <1>4, <3>2, <3>3 DEF SeenIsOne
      <3> QED
        BY <3>2, <3>3, <3>4
    <2> QED
      BY <2>1, <2>2
  <1>13. MemoCovers(h, term, Dirty(h, todo))
    <2> SUFFICES ASSUME NEW i \in Made(graph), Over(graph, term, i) \cap Dirty(graph, todo) = {}
                 PROVE  \E e \in graph.memo : /\ e[1] = Canonical(graph, term[i])
                                              /\ graph.leader[e[2]] = graph.leader[i]
      BY <1>2, <1>6 DEF MemoCovers, Over
    <2>1. CASE root \notin Over(graph, term, i)
      BY <1>4, <1>6, <2>1 DEF Closed, MemoCovers
    <2>2. CASE root \in Over(graph, term, i)
      <3>1. PICK s \in seen : /\ s.node = Canonical(graph, term[i])
                              /\ graph.leader[s.owner] = graph.leader[i]
        BY <1>11, <2>2
      <3>2. PICK e \in graph.memo : e[1] = s.node /\ graph.leader[e[2]] = graph.leader[s.owner]
        BY <1>4 DEF SeenIsKeyed, KeyedFor
      <3> QED
        BY <3>1, <3>2
    <2> QED
      BY <2>1, <2>2
  <1>14. Closed(h, term, todo, 0, {})
    BY <1>7, <1>9, <1>10, <1>12, <1>13 DEF Closed
  <1>15. CongruenceRestored'
    BY <1>1 DEF CongruenceRestored
  <1> QED
    BY <1>1, <1>3, <1>14, <1>15
    DEF CInv, SeenIsOne, SeenIsCanonical, SeenIsKeyed, RepairsOrder, h

\* A parent of a form not seen yet.
LEMMA NewParentCloses ==
  ASSUME IInv, CInv, NEW p \in left, RepairParent(p),
         NEW node, node = Canonical(graph, p[1]), NEW owner, owner = graph.leader[p[2]],
         NewParent(node, owner, p[1])
  PROVE  CInv'
  <1> DEFINE h == graph'
             new == [node |-> node, owner |-> owner, stored |-> p[1]]
             hand == Hand'
  <1>1. /\ graph \in Graph /\ repairing \in Id /\ p[1] \in Node /\ p[2] \in Id
        /\ phase = "repair" /\ phase' = "repair" /\ left' = left \ {p}
        /\ seen' = seen \cup {new} /\ h = Keyed(graph, node, owner)
        /\ \A s \in seen : s.node # node
        /\ UNCHANGED <<todo, repairing, term>>
    BY DEF RepairParent, NewParent, IInv, TypeOK, ghosts
  <1>2. /\ h.made = graph.made /\ h.leader = graph.leader /\ h.uses = graph.uses
        /\ h.pending = graph.pending /\ h.memo = {e \in graph.memo : e[1] # node} \cup {<<node, owner>>}
        /\ graph.leader \in [Id -> Id] /\ owner \in Id
    BY <1>1 DEF Keyed, Graph
  <1>3. /\ Closed(graph, term, Others, repairing, Hand) /\ repairing \in Others
        /\ HandIsAll(graph, repairing)
        /\ SeenIsOne /\ SeenIsCanonical /\ SeenIsKeyed
        /\ Others' = Others /\ Others \in SUBSET Id
    BY <1>1 DEF CInv, RepairsOrder, Others, IInv, TypeOK
  <1>4. \A i \in Id : graph.leader[graph.leader[i]] = graph.leader[i]
    BY <1>3 DEF Closed, Forest
  <1>5. node \in Node /\ Kids(p[1]) \subseteq Id /\ Kids(node) = Under(graph, Kids(p[1]))
        /\ Canonical(graph, node) = node
    BY <1>1, <1>4, FormIsNode, FormOfForm
  <1>6. p \in Hand /\ <<node, owner>> \in hand /\ \A q \in Hand : q # p => q \in hand
    <2>1. <<new.node, new.owner>> \in {<<s.node, s.owner>> : s \in seen'}
      BY <1>1
    <2>2. \A q \in Hand : q # p => q \in hand
      BY <1>1 DEF Hand
    <2> QED
      BY <2>1, <2>2 DEF Hand
  <1>7. \A q \in hand : q \in Hand \/ q = <<node, owner>>
    BY <1>1 DEF Hand
  <1> HIDE DEF h, hand
  <1>8. graph.leader[repairing] \in Under(graph, Kids(node))
    <2>1. PICK k \in Kids(p[1]) : graph.leader[repairing] = graph.leader[k]
      BY <1>3, <1>6 DEF Closed, UsesAreOver, Under
    <2>2. graph.leader[k] \in Kids(node) /\ graph.leader[graph.leader[k]] = graph.leader[k]
      BY <1>4, <1>5, <2>1 DEF Under
    <2> QED
      BY <2>1, <2>2 DEF Under
  <1>9. \A q \in hand : graph.leader[repairing] \in Under(graph, Kids(q[1]))
    BY <1>3, <1>7, <1>8 DEF Closed, UsesAreOver
  <1>10. ASSUME NEW q \in Hand
         PROVE  \E r \in hand : \A i \in Made(graph) :
                  SpeaksFor(graph, term, q, i) => SpeaksFor(graph, term, r, i)
    <2>1. CASE q # p
      BY <1>6, <2>1
    <2>2. CASE q = p
      <3>1. \A i : SpeaksFor(graph, term, p, i) => SpeaksFor(graph, term, <<node, owner>>, i)
        BY <1>1, <1>4, <1>5 DEF SpeaksFor, HasForm
      <3> QED
        BY <1>6, <2>2, <3>1
    <2> QED
      BY <2>1, <2>2
  <1>11. Closed(h, term, Others, repairing, hand)
    BY <1>1, <1>2, <1>3, <1>5, <1>8, <1>9, <1>10, KeyedCloses
  <1>12. SeenIsOne'
    <2>1. new.node = node
      OBVIOUS
    <2> HIDE DEF new
    <2> QED
      BY <1>1, <1>3, <2>1 DEF SeenIsOne
  <1>13. \A m : StillCanonical(h, m) <=> StillCanonical(graph, m)
    BY <1>2 DEF StillCanonical, Canonical, Find, Under
  <1>14. SeenIsCanonical'
    <2> SUFFICES ASSUME NEW s \in seen' PROVE StillCanonical(graph, s.node)
      BY <1>13 DEF SeenIsCanonical, h
    <2>1. CASE s \in seen
      BY <1>3, <2>1 DEF SeenIsCanonical
    <2>2. CASE s = new
      BY <1>5, <2>2 DEF StillCanonical
    <2> QED
      BY <1>1, <2>1, <2>2
  <1>15. SeenIsKeyed'
    <2> SUFFICES ASSUME NEW s \in seen' PROVE KeyedFor(h, s.node, s.owner)
      BY DEF SeenIsKeyed, h
    <2>1. CASE s \in seen
      <3>1. PICK e \in graph.memo : e[1] = s.node /\ graph.leader[e[2]] = graph.leader[s.owner]
        BY <1>3, <2>1 DEF SeenIsKeyed, KeyedFor
      <3>2. e \in h.memo
        BY <1>1, <1>2, <2>1, <3>1
      <3> QED
        BY <1>2, <3>1, <3>2 DEF KeyedFor
    <2>2. CASE s = new
      <3>1. <<node, owner>> \in h.memo /\ s.node = node /\ s.owner = owner
        BY <1>2, <2>2
      <3> QED
        BY <3>1 DEF KeyedFor
    <2> QED
      BY <1>1, <2>1, <2>2
  <1>16. HandIsAll(h, repairing)
    BY <1>2, <1>3 DEF HandIsAll, Under
  <1>17. CongruenceRestored'
    BY <1>1 DEF CongruenceRestored
  <1>18. Closed(graph', term', Others', repairing', Hand')
    BY <1>1, <1>3, <1>11 DEF h, hand
  <1> QED
    BY <1>1, <1>12, <1>14, <1>15, <1>16, <1>17, <1>18 DEF CInv, RepairsOrder, h

\* A parent of a form seen before: its class and the other's are joined, and one
\* entry speaks for both.
LEMMA CongruentParentCloses ==
  ASSUME IInv, CInv, NEW p \in left, RepairParent(p),
         NEW node, node = Canonical(graph, p[1]), NEW owner, owner = graph.leader[p[2]],
         CongruentParent(node, owner, p[1])
  PROVE  CInv'
  <1> DEFINE h == graph'
             hand == Hand'
  <1>1. /\ Sound(graph, value) /\ graph \in Graph /\ repairing \in Id
        /\ p[1] \in Node /\ p[2] \in Id
        /\ phase = "repair" /\ phase' = "repair" /\ left' = left \ {p}
        /\ UNCHANGED <<todo, repairing, term>>
    BY DEF RepairParent, IInv, TypeOK, ghosts
  <1>2. PICK s \in seen :
          LET g == United(graph, s.owner, owner, Congruence(s.stored, p[1])) IN
          /\ s.node = node
          /\ seen' = (seen \ {s}) \cup {[s EXCEPT !.owner = Find(g, owner)]}
          /\ graph' = Keyed(g, node, Find(g, owner))
    BY DEF CongruentParent
  <1> DEFINE why == Congruence(s.stored, p[1])
             g == United(graph, s.owner, owner, why)
             root == g.leader[owner]
             new == [s EXCEPT !.owner = root]
  <1>3. s.node = node /\ seen' = (seen \ {s}) \cup {new} /\ h = Keyed(g, node, root)
    BY <1>2 DEF Find
  <1>4. /\ s \in [node : Node, owner : Id, stored : Node]
        /\ States(graph, value, s.node, s.owner) /\ States(graph, value, p[1], p[2])
        /\ seen \subseteq [node : Node, owner : Id, stored : Node]
    BY DEF IInv, TypeOK, RepairAgrees
  <1>5. /\ States(graph, value, node, p[2]) /\ p[2] \in Made(graph)
        /\ owner \in Made(graph) /\ s.owner \in Made(graph) /\ value[s.owner] = value[owner]
    <2>1. States(graph, value, node, p[2])
      BY <1>1, <1>4, CanonicalStates
    <2> QED
      BY <1>1, <1>3, <1>4, <2>1 DEF States, Sound, LeadersAgree
  <1>6. why \in Why
    BY <1>1, <1>4 DEF Why, Congruence
  <1>7. /\ Closed(graph, term, Others, repairing, Hand) /\ repairing \in Others
        /\ HandIsAll(graph, repairing)
        /\ SeenIsOne /\ SeenIsCanonical /\ SeenIsKeyed
        /\ Others' = Others /\ Others \in SUBSET Id /\ Hand \in SUBSET (Node \X Id)
    <2>1. Hand \in SUBSET (Node \X Id)
      BY <1>4 DEF Hand, IInv, TypeOK
    <2> QED
      BY <1>1, <2>1 DEF CInv, RepairsOrder, Others, IInv, TypeOK
  <1>8. new = [node |-> node, owner |-> root, stored |-> s.stored]
    <2> HIDE DEF root
    <2>1. [s EXCEPT !.owner = root] = [node |-> s.node, owner |-> root, stored |-> s.stored]
      BY <1>4
    <2> QED
      BY <1>3, <2>1
  <1>9. /\ <<node, s.owner>> \in Hand /\ <<node, root>> \in hand /\ p \in Hand
        /\ \A q \in Hand : q # p /\ q # <<node, s.owner>> => q \in hand
        /\ \A q \in hand : q \in Hand \/ q = <<node, root>>
    <2>1. <<s.node, s.owner>> \in {<<u.node, u.owner>> : u \in seen}
      OBVIOUS
    <2>2. new.node = node /\ new.owner = root
      BY <1>8
    <2> HIDE DEF new
    <2>3. <<new.node, new.owner>> \in {<<u.node, u.owner>> : u \in seen'}
      BY <1>3
    <2>4. ASSUME NEW q \in Hand, q # p, q # <<node, s.owner>> PROVE q \in hand
      <3>1. CASE q \in left
        BY <1>1, <2>4, <3>1 DEF Hand
      <3>2. CASE q \notin left
        <4>1. PICK u \in seen : q = <<u.node, u.owner>>
          BY <3>2 DEF Hand
        <4>2. u \in seen'
          BY <1>3, <2>4, <4>1
        <4> QED
          BY <4>1, <4>2 DEF Hand
      <3> QED
        BY <3>1, <3>2
    <2>5. ASSUME NEW q \in hand PROVE q \in Hand \/ q = <<node, root>>
      <3>1. CASE q \in left'
        BY <1>1, <3>1 DEF Hand
      <3>2. CASE q \notin left'
        <4>1. PICK u \in seen' : q = <<u.node, u.owner>>
          BY <3>2 DEF Hand
        <4>2. u \in seen \/ u = new
          BY <1>3
        <4> QED
          BY <2>2, <4>1, <4>2 DEF Hand
      <3> QED
        BY <3>1, <3>2
    <2> QED
      BY <1>3, <2>1, <2>2, <2>3, <2>4, <2>5 DEF Hand
  <1> HIDE DEF h, hand, why, g, root, new
  <1>10. Closed(g, term, Others, repairing, Hand)
    BY <1>1, <1>5, <1>6, <1>7, UnitedCloses DEF g
  <1>11. /\ g \in Graph /\ g.made = graph.made /\ g.memo = graph.memo
         /\ graph.pending \subseteq g.pending
         /\ \A i \in Id : g.leader[graph.leader[i]] = g.leader[i] /\ g.leader[g.leader[i]] = g.leader[i]
         /\ \A i, j \in Id : graph.leader[i] = graph.leader[j] => g.leader[i] = g.leader[j]
         /\ g.leader[s.owner] = g.leader[owner]
         /\ \A i \in Id :
              \/ g.leader[i] \in Under(g, g.pending)
              \/ g.leader[i] = graph.leader[i] /\ g.uses[g.leader[i]] = graph.uses[graph.leader[i]]
    <2>1. Forest(graph)
      BY <1>7 DEF Closed
    <2>2. g = United(graph, s.owner, owner, why)
      BY DEF g
    <2>3. /\ Sound(graph, value) /\ s.owner \in Made(graph) /\ owner \in Made(graph)
          /\ value[s.owner] = value[owner]
      BY <1>1, <1>5
    <2>4. Merges(graph, g, s.owner, owner)
      BY <1>6, <2>1, <2>2, <2>3, UnitedMoves
    <2> QED
      BY <2>4 DEF Merges
  <1>12. /\ node \in Node /\ Canonical(g, node) = Canonical(g, p[1])
         /\ owner \in Id /\ root \in Id
    <2>1. node \in Node
      BY <1>3, <1>4
    <2>2. owner \in Id /\ root \in Id
      BY <1>5, <1>1, <1>11, MadeIds DEF root
    <2> QED
      BY <1>1, <1>11, <2>1, <2>2, FormOfForm
  <1>13. g.leader[repairing] \in Under(g, Kids(node))
    BY <1>9, <1>10 DEF Closed, UsesAreOver
  <1>14. \A q \in hand : g.leader[repairing] \in Under(g, Kids(q[1]))
    BY <1>9, <1>10, <1>13 DEF Closed, UsesAreOver
  <1>15. ASSUME NEW q \in Hand
         PROVE  \E r \in hand : \A i \in Made(g) :
                  SpeaksFor(g, term, q, i) => SpeaksFor(g, term, r, i)
    <2>1. g.leader[root] = g.leader[owner] /\ g.leader[p[2]] = g.leader[owner]
          /\ g.leader[s.owner] = g.leader[owner]
      BY <1>1, <1>11, <1>12 DEF root
    <2>2. CASE q # p /\ q # <<node, s.owner>>
      BY <1>9, <2>2
    <2>3. CASE q = p
      <3>1. \A i : SpeaksFor(g, term, p, i) => SpeaksFor(g, term, <<node, root>>, i)
        BY <1>12, <2>1 DEF SpeaksFor, HasForm
      <3> QED
        BY <1>9, <2>3, <3>1
    <2>4. CASE q = <<node, s.owner>>
      <3>1. \A i : SpeaksFor(g, term, <<node, s.owner>>, i) => SpeaksFor(g, term, <<node, root>>, i)
        BY <2>1 DEF SpeaksFor, HasForm
      <3> QED
        BY <1>9, <2>4, <3>1
    <2> QED
      BY <2>2, <2>3, <2>4
  <1>16. Closed(h, term, Others, repairing, hand)
    BY <1>3, <1>7, <1>10, <1>11, <1>12, <1>13, <1>14, <1>15, KeyedCloses
  <1>17. /\ h.leader = g.leader /\ h.uses = g.uses /\ h.pending = g.pending
         /\ h.memo = {e \in g.memo : e[1] # node} \cup {<<node, root>>}
    BY <1>3, <1>11 DEF Keyed, Graph
  <1>18. \A u \in seen' : (u \in seen /\ u # s) \/ u = new
    BY <1>3
  <1>19. new.node = node /\ new.owner = root
    BY <1>8
  <1>20. \A u \in seen : u # s => u.node # node
    BY <1>3, <1>7 DEF SeenIsOne
  <1>21. SeenIsOne'
    <2> SUFFICES ASSUME NEW u \in seen', NEW w \in seen', u.node = w.node PROVE u = w
      BY DEF SeenIsOne
    <2> QED
      BY <1>7, <1>18, <1>19, <1>20 DEF SeenIsOne
  \* A form whose arguments' classes stay stays; another is over a class that waits.
  <1>22. ASSUME NEW u \in seen PROVE StillCanonical(g, u.node)
    <2>1. u.node \in Node
      BY <1>4
    <2>2. /\ Kids(u.node) \subseteq Id
          /\ Kids(Canonical(g, u.node)) = Under(g, Kids(u.node))
          /\ Kids(Canonical(graph, u.node)) = Under(graph, Kids(u.node))
      BY <1>1, <1>11, <2>1, FormIsNode
    <2>3. CASE \E k \in Kids(u.node) : g.leader[k] \in Under(g, g.pending)
      BY <2>2, <2>3 DEF StillCanonical, Under
    <2>4. CASE /\ Canonical(graph, u.node) = u.node
               /\ \A k \in Kids(u.node) : g.leader[k] = graph.leader[k]
      <3>1. Canonical(g, u.node) = u.node
        BY <1>1, <1>11, <2>1, <2>4, FormByKids
      <3> QED
        BY <3>1 DEF StillCanonical
    <2>5. CASE Kids(Canonical(graph, u.node)) \cap Under(graph, graph.pending) # {}
      <3>1. PICK k \in Kids(u.node), q \in graph.pending : graph.leader[k] = graph.leader[q]
        BY <2>2, <2>5 DEF Under
      <3>2. q \in Id /\ q \in g.pending
        BY <1>1, <1>11 DEF Graph
      <3>3. g.leader[k] = g.leader[q]
        BY <1>11, <2>2, <3>1, <3>2
      <3>4. g.leader[k] \in Under(g, g.pending)
        BY <3>2, <3>3 DEF Under
      <3> QED
        BY <2>3, <3>4
    <2>6. \A k \in Kids(u.node) : g.leader[k] \in Under(g, g.pending) \/ g.leader[k] = graph.leader[k]
      BY <1>11, <2>2
    <2> QED
      BY <1>7, <2>3, <2>4, <2>5, <2>6 DEF SeenIsCanonical, StillCanonical
  <1>23. SeenIsCanonical'
    <2>1. \A m : StillCanonical(h, m) <=> StillCanonical(g, m)
      BY <1>17 DEF StillCanonical, Canonical, Find, Under
    <2> SUFFICES ASSUME NEW u \in seen' PROVE StillCanonical(g, u.node)
      BY <2>1 DEF SeenIsCanonical, h
    <2> QED
      BY <1>3, <1>18, <1>19, <1>22
  <1>24. SeenIsKeyed'
    <2> SUFFICES ASSUME NEW u \in seen' PROVE KeyedFor(h, u.node, u.owner)
      BY DEF SeenIsKeyed, h
    <2>1. CASE u \in seen /\ u # s
      <3>1. PICK e \in graph.memo : e[1] = u.node /\ graph.leader[e[2]] = graph.leader[u.owner]
        BY <1>7, <2>1 DEF SeenIsKeyed, KeyedFor
      <3>2. e \in h.memo
        BY <1>11, <1>17, <1>20, <2>1, <3>1
      <3>3. e[2] \in Id /\ u.owner \in Id
        BY <1>1, <1>4, <2>1 DEF Graph
      <3> QED
        BY <1>11, <1>17, <3>1, <3>2, <3>3 DEF KeyedFor
    <2>2. CASE u = new
      <3>1. <<node, root>> \in h.memo
        BY <1>17
      <3> QED
        BY <1>19, <2>2, <3>1 DEF KeyedFor
    <2> QED
      BY <1>18, <2>1, <2>2
  <1>25. HandIsAll(h, repairing)
    <2>1. CASE g.leader[repairing] \in Under(g, g.pending)
      BY <1>17, <2>1 DEF HandIsAll, Under
    <2>2. CASE /\ g.leader[repairing] = graph.leader[repairing]
               /\ g.uses[g.leader[repairing]] = graph.uses[graph.leader[repairing]]
      <3>1. CASE graph.uses[graph.leader[repairing]] = {}
        BY <1>17, <2>2, <3>1 DEF HandIsAll
      <3>2. CASE graph.leader[repairing] \in Under(graph, graph.pending)
        <4>1. PICK q \in graph.pending : graph.leader[repairing] = graph.leader[q]
          BY <3>2 DEF Under
        <4>2. q \in Id /\ q \in g.pending
          BY <1>1, <1>11 DEF Graph
        <4>3. g.leader[repairing] = g.leader[q]
          BY <1>1, <1>11, <4>1, <4>2
        <4> QED
          BY <1>17, <4>2, <4>3 DEF HandIsAll, Under
      <3> QED
        BY <1>7, <3>1, <3>2 DEF HandIsAll
    <2> QED
      BY <1>1, <1>11, <2>1, <2>2
  <1>26. CongruenceRestored'
    BY <1>1 DEF CongruenceRestored
  <1>27. Closed(graph', term', Others', repairing', Hand')
    BY <1>1, <1>7, <1>16 DEF h, hand
  <1> QED
    BY <1>1, <1>21, <1>23, <1>24, <1>25, <1>26, <1>27 DEF CInv, RepairsOrder, h

\* Every step of rebuild keeps it.
LEMMA RebuildCloses == IInv /\ IInv' /\ CInv /\ (Rebuild \/ RebuildStep) => CInv'
  <1> SUFFICES ASSUME IInv, IInv', CInv, Rebuild \/ RebuildStep PROVE CInv'
    OBVIOUS
  <1>0. graph \in Graph /\ graph' \in Graph
    BY DEF IInv, TypeOK
  <1>3. CASE Rebuild
    <2>1. /\ graph' = graph /\ phase # "repair" /\ phase' = "congruence"
          /\ UNCHANGED <<term, todo, repairing, left, seen>>
      BY <1>3 DEF Rebuild, Between, ghosts
    <2> QED
      BY <1>0, <2>1, FactStepCloses
  <1>4. CASE TakePending
    BY <1>4, TakePendingCloses
  <1>5. ASSUME NEW i \in todo, BeginRepair(i) PROVE CInv'
    BY <1>5, BeginRepairCloses
  <1>6. ASSUME NEW p \in left, RepairParent(p) PROVE CInv'
    <2>1. \/ NewParent(Canonical(graph, p[1]), graph.leader[p[2]], p[1])
          \/ CongruentParent(Canonical(graph, p[1]), graph.leader[p[2]], p[1])
      BY <1>6 DEF RepairParent, Find
    <2> QED
      BY <1>6, <2>1, NewParentCloses, CongruentParentCloses
  <1>7. CASE EndRepair
    BY <1>7, EndRepairCloses
  <1>8. CASE BeginFacts
    <2>1. /\ graph' = [graph EXCEPT !.learned = {}] /\ phase # "repair" /\ phase' = "facts"
          /\ todo = {} /\ UNCHANGED <<term, todo, repairing, left, seen>>
      BY <1>8 DEF BeginFacts, Congruent, ghosts
    <2>2. /\ graph'.made = graph.made /\ graph'.leader = graph.leader
          /\ graph'.nodes = graph.nodes /\ graph'.uses = graph.uses
          /\ graph'.memo = graph.memo /\ graph'.pending = graph.pending
      BY <1>0, <2>1 DEF Graph
    <2> QED
      BY <1>0, <2>1, <2>2, FactStepCloses
  <1>9. ASSUME NEW order \in SetToSeqs(Untold), PopClass(order) PROVE CInv'
    <2>1. /\ graph' = [graph EXCEPT !.fact = [graph.fact EXCEPT ![Last(queue)]
                                                = Recomputed(graph, Last(queue))]]
          /\ phase = "facts" /\ phase' = "facts"
          /\ UNCHANGED <<term, todo, repairing, left, seen>>
      BY <1>9 DEF PopClass, ghosts
    <2>2. /\ graph'.made = graph.made /\ graph'.leader = graph.leader
          /\ graph'.nodes = graph.nodes /\ graph'.uses = graph.uses
          /\ graph'.memo = graph.memo /\ graph'.pending = graph.pending
      BY <1>0, <2>1 DEF Graph
    <2>3. todo = {}
      BY <2>1 DEF CInv, RepairsOrder
    <2> QED
      BY <1>0, <2>1, <2>2, <2>3, FactStepCloses
  <1>10. CASE EndFacts
    <2>1. /\ graph' = graph /\ phase = "facts" /\ phase' = "modify"
          /\ UNCHANGED <<term, todo, repairing, left, seen>>
      BY <1>10 DEF EndFacts
    <2>2. todo = {}
      BY <2>1 DEF CInv, RepairsOrder
    <2> QED
      BY <1>0, <2>1, <2>2, FactStepCloses
  <1>11. ASSUME NEW i \in changed, Modify(i) PROVE CInv'
    BY <1>11, ModifyCloses
  <1>12. CASE NextRound
    <2>1. /\ graph' = [graph EXCEPT !.learned = {}] \/ graph' = graph
          /\ phase = "modify" /\ phase' = "congruence"
          /\ UNCHANGED <<term, todo, repairing, left, seen>>
      BY <1>12 DEF NextRound
    <2>2. /\ graph'.made = graph.made /\ graph'.leader = graph.leader
          /\ graph'.nodes = graph.nodes /\ graph'.uses = graph.uses
          /\ graph'.memo = graph.memo /\ graph'.pending = graph.pending
      BY <1>0, <2>1 DEF Graph
    <2> QED
      BY <1>0, <2>1, <2>2, FactStepCloses
  <1>13. CASE Finish
    BY <1>13, FinishCloses
  <1> QED
    BY <1>3, <1>4, <1>5, <1>6, <1>7, <1>8, <1>9, <1>10, <1>11, <1>12, <1>13 DEF RebuildStep

\* Every step keeps it.
LEMMA StepCloses == IInv /\ IInv' /\ CInv /\ [Next]_vars => CInv'
  <1> SUFFICES ASSUME IInv, IInv', CInv, [Next]_vars PROVE CInv'
    OBVIOUS
  <1>1. ASSUME NEW node \in Node, Add(node) PROVE CInv'
    BY <1>1, AddCloses
  <1>2. ASSUME NEW a \in Classes(graph), NEW b \in Classes(graph), Union(a, b) PROVE CInv'
    BY <1>2, UnionCloses
  <1>3. CASE Rebuild \/ RebuildStep
    BY <1>3, RebuildCloses
  <1>4. CASE UNCHANGED vars
    <2>1. UNCHANGED <<graph, phase, todo, repairing, left, seen, term>>
      BY <1>4 DEF vars, rebuildVars, ghosts
    <2>2. Hand' = Hand /\ Others' = Others
      BY <2>1 DEF Hand, Others
    <2> QED
      BY <2>1, <2>2 DEF CInv, SeenIsOne, SeenIsCanonical, SeenIsKeyed, RepairsOrder,
                        CongruenceRestored
  <1> QED
    BY <1>1, <1>2, <1>3, <1>4 DEF Next

----------------------------------------------------------------------------
(* The result.                                                              *)

\* After every rebuild, whatever was added and declared equal before it and
\* wherever its facts were given up, two ids whose terms have one form are one
\* class and the hashcons gives it for that form (restore_congruence, repair,
\* reindex).
THEOREM CongruenceIsRestored == Spec => []CongruenceRestored
  <1>1. Init => IInv /\ CInv
    BY InitHolds, InitCloses
  <1>2. IInv /\ CInv /\ [Next]_vars => IInv' /\ CInv'
    BY StepKeeps, StepCloses
  <1>3. CInv => CongruenceRestored
    BY DEF CInv
  <1> QED
    BY <1>1, <1>2, <1>3, PTL DEF Spec
===============================================================================
