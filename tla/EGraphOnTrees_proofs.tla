------------------------ MODULE EGraphOnTrees_proofs ------------------------
(***************************************************************************)
(* The forest of the union-find stands for the leaders of the e-graph, for  *)
(* any operators, numbers and bounds, at every moment of every rebuild and  *)
(* however paths have been halved.                                          *)
(***************************************************************************)
EXTENDS EGraphOnTrees, EGraph_proofs

----------------------------------------------------------------------------
(* Climbing a forest.                                                       *)

\* Where each tree has one leader, at its root, climbing goes by its equation:
\* the function that gives the leaders satisfies it, so that there is one.
LEMMA RootsEquation ==
  ASSUME NEW S, NEW p \in [S -> S], NEW L,
         \A i \in S : L[p[i]] = L[i],
         \A i \in S : p[i] = i => L[i] = i
  PROVE  Roots(p) = [i \in S |-> IF p[i] = i THEN i ELSE Roots(p)[p[i]]]
  <1> DEFINE Good(f) == f = [i \in DOMAIN p |-> IF p[i] = i THEN i ELSE f[p[i]]]
             l == [i \in S |-> L[i]]
  <1>1. Good(l)
    OBVIOUS
  <1>2. Roots(p) = CHOOSE f : Good(f)
    BY DEF Roots
  <1>3. Good(Roots(p))
    <2> HIDE DEF Good, l
    <2> QED
      BY <1>1, <1>2
  <1> QED
    BY <1>3

\* The forest stands for the leaders: a tree holds one class, its root is the
\* leader, and sizes grow on the way up, so that the way ends.
Fits(g, t) ==
  /\ t \in [parents : [Made(g) -> Made(g)], sizes : [Made(g) -> 1 .. MaxIds]]
  /\ \A i \in Made(g) : g.leader[t.parents[i]] = g.leader[i]
  /\ \A i \in Made(g) : t.parents[i] = i <=> g.leader[i] = i
  /\ \A i \in Made(g) : t.parents[i] # i => t.sizes[i] < t.sizes[t.parents[i]]
  /\ \A c \in Classes(g) : t.sizes[c] = Cardinality(Members(g, c))

\* Climbing ends at the leader, whose size is larger than any below it (find).
LEMMA RootsAreLeaders ==
  ASSUME NEW g, NEW t, Fits(g, t)
  PROVE  /\ Roots(t.parents) = [i \in Made(g) |-> g.leader[i]]
         /\ \A i \in Made(g) : g.leader[i] \in Classes(g)
         /\ \A i \in Made(g) : g.leader[i] # i => t.sizes[i] < t.sizes[g.leader[i]]
  <1> DEFINE p == t.parents
             s == t.sizes
             r == Roots(p)
             Ends(i) == /\ r[i] = g.leader[i] /\ g.leader[i] \in Classes(g)
                        /\ g.leader[i] # i => s[i] < s[g.leader[i]]
             bad == {i \in Made(g) : ~ Ends(i)}
             depths == {MaxIds - s[i] : i \in bad}
  <1>1. /\ p \in [Made(g) -> Made(g)] /\ s \in [Made(g) -> 1 .. MaxIds] /\ MaxIds \in Nat
        /\ \A i \in Made(g) : g.leader[p[i]] = g.leader[i]
        /\ \A i \in Made(g) : p[i] = i <=> g.leader[i] = i
        /\ \A i \in Made(g) : p[i] # i => s[i] < s[p[i]]
    BY MaxIdsIsNat DEF Fits
  <1>2. r = [i \in Made(g) |-> IF p[i] = i THEN i ELSE r[p[i]]]
    <2> HIDE DEF p
    <2> QED
      BY <1>1, RootsEquation
  <1> HIDE DEF p, s, r
  <1>3. bad = {}
    <2> SUFFICES ASSUME bad # {} PROVE FALSE
      OBVIOUS
    <2>1. depths \in SUBSET Nat /\ depths # {}
      BY <1>1
    <2>2. PICK x \in depths : \A y \in depths : x <= y
      <3> HIDE DEF depths
      <3> QED
        BY <2>1, NatHasLeast
    <2>3. PICK i \in bad : x = MaxIds - s[i]
      OBVIOUS
    <2>4. i \in Made(g) /\ p[i] \in Made(g) /\ s[i] \in Nat /\ s[p[i]] \in Nat
      BY <1>1
    <2>5. p[i] # i
      BY <1>1, <1>2, <2>4 DEF Classes
    <2>6. Ends(p[i])
      <3>1. MaxIds - s[p[i]] < x
        BY <1>1, <2>3, <2>4, <2>5
      <3>2. p[i] \in bad => MaxIds - s[p[i]] \in depths
        OBVIOUS
      <3>3. MaxIds - s[p[i]] \in depths => x <= MaxIds - s[p[i]]
        <4> HIDE DEF depths
        <4> QED
          BY <2>2
      <3>4. x \in Nat
        <4> HIDE DEF depths
        <4> QED
          BY <2>1, <2>2
      <3>5. p[i] \notin bad
        <4> HIDE DEF depths, bad
        <4> QED
          BY <1>1, <2>4, <3>1, <3>2, <3>3, <3>4
      <3> QED
        BY <2>4, <3>5
    <2>7. r[i] = r[p[i]]
      BY <1>2, <2>4, <2>5
    <2>8. Ends(i)
      BY <1>1, <2>4, <2>5, <2>6, <2>7 DEF Classes
    <2> QED
      BY <2>8
  <1>4. \A i \in Made(g) : Ends(i)
    BY <1>3
  <1>5. r = [i \in Made(g) |-> g.leader[i]]
    BY <1>2, <1>4
  <1> QED
    BY <1>4, <1>5 DEF r, p, s

----------------------------------------------------------------------------
(* What the calls make of a forest that fits.                               *)

\* Whatever path is halved, from wherever (find).
LEMMA HalvedFits ==
  ASSUME NEW g, NEW t, Fits(g, t), NEW i
  PROVE  Fits(g, Found(t, i))
  <1> DEFINE stops == Climbed(t.parents, i)
             p == Halved(t.parents, i)
             h == Found(t, i)
  <1>1. /\ t.parents \in [Made(g) -> Made(g)] /\ t.sizes \in [Made(g) -> 1 .. MaxIds]
        /\ t = [parents |-> t.parents, sizes |-> t.sizes]
        /\ \A j \in Made(g) : g.leader[t.parents[j]] = g.leader[j]
        /\ \A j \in Made(g) : t.parents[j] = j <=> g.leader[j] = j
        /\ \A j \in Made(g) : t.parents[j] # j => t.sizes[j] < t.sizes[t.parents[j]]
        /\ \A j \in Made(g) : t.sizes[j] \in Int
    BY MaxIdsIsNat DEF Fits
  <1>2. p = [j \in Made(g) |-> IF j \in stops THEN t.parents[t.parents[j]] ELSE t.parents[j]]
    BY <1>1 DEF Halved
  <1>3. h = [parents |-> p, sizes |-> t.sizes]
    BY <1>1 DEF Found
  <1> HIDE DEF stops, p, h
  <1>4. p \in [Made(g) -> Made(g)] /\ h \in [parents : [Made(g) -> Made(g)], sizes : [Made(g) -> 1 .. MaxIds]]
    BY <1>1, <1>2, <1>3
  <1>5. ASSUME NEW j \in Made(g)
        PROVE  /\ g.leader[p[j]] = g.leader[j]
               /\ p[j] = j <=> g.leader[j] = j
               /\ p[j] # j => t.sizes[j] < t.sizes[p[j]]
    <2>1. CASE t.parents[j] = j
      BY <1>1, <1>2, <2>1
    <2>2. CASE t.parents[j] # j
      <3> DEFINE k == t.parents[j]
                 l == t.parents[k]
      <3>1. /\ k \in Made(g) /\ l \in Made(g) /\ p[j] \in {k, l}
            /\ t.sizes[j] < t.sizes[k] /\ (l = k \/ t.sizes[k] < t.sizes[l])
            /\ g.leader[k] = g.leader[j] /\ g.leader[l] = g.leader[j] /\ g.leader[j] # j
            /\ t.sizes[j] \in Int /\ t.sizes[k] \in Int /\ t.sizes[l] \in Int
        BY <1>1, <1>2, <2>2
      <3> HIDE DEF k, l
      <3>2. t.sizes[j] < t.sizes[l]
        BY <3>1
      <3> QED
        BY <3>1, <3>2
    <2> QED
      BY <2>1, <2>2
  <1>6. \A c \in Classes(g) : t.sizes[c] = Cardinality(Members(g, c))
    BY DEF Fits
  <1> QED
    BY <1>3, <1>4, <1>5, <1>6 DEF Fits, h

\* Every id hung under its leader (compress_all).
LEMMA CompressedFits ==
  ASSUME NEW g, NEW t, Fits(g, t)
  PROVE  Fits(g, Compressed(t))
  <1> DEFINE p == [i \in Made(g) |-> g.leader[i]]
             h == Compressed(t)
  <1>1. /\ t.sizes \in [Made(g) -> 1 .. MaxIds] /\ t = [parents |-> t.parents, sizes |-> t.sizes]
        /\ \A c \in Classes(g) : t.sizes[c] = Cardinality(Members(g, c))
    BY DEF Fits
  <1>2. /\ Roots(t.parents) = p
        /\ \A i \in Made(g) : g.leader[i] \in Made(g) /\ g.leader[g.leader[i]] = g.leader[i]
        /\ \A i \in Made(g) : g.leader[i] # i => t.sizes[i] < t.sizes[g.leader[i]]
    BY RootsAreLeaders DEF Classes
  <1>3. h = [parents |-> p, sizes |-> t.sizes]
    BY <1>1, <1>2 DEF Compressed
  <1>4. h \in [parents : [Made(g) -> Made(g)], sizes : [Made(g) -> 1 .. MaxIds]]
    BY <1>1, <1>2, <1>3
  <1> HIDE DEF h
  <1> QED
    BY <1>1, <1>2, <1>3, <1>4 DEF Fits, h

\* The ids made so far are finitely many, and so are those of a class.
LEMMA MadeIsFinite ==
  ASSUME NEW g \in Graph
  PROVE  /\ IsFiniteSet(Made(g)) /\ Cardinality(Made(g)) = g.made
         /\ \A c : IsFiniteSet(Members(g, c)) /\ Members(g, c) \subseteq Made(g)
  <1>1. g.made \in Nat
    BY MadeIds
  <1>2. IsFiniteSet(Made(g)) /\ Cardinality(Made(g)) = g.made
    <2>1. Made(g) = 0 .. g.made - 1
      BY DEF Made
    <2>2. 0 \in Int /\ g.made - 1 \in Int
      BY <1>1
    <2>3. /\ IsFiniteSet(0 .. g.made - 1)
          /\ Cardinality(0 .. g.made - 1) =
               IF 0 > g.made - 1 THEN 0 ELSE (g.made - 1) - 0 + 1
      BY <2>2, FS_Interval
    <2>4. (IF 0 > g.made - 1 THEN 0 ELSE (g.made - 1) - 0 + 1) = g.made
      BY <1>1
    <2> QED
      BY <2>1, <2>3, <2>4
  <1>3. \A c : Members(g, c) \in SUBSET Made(g)
    BY DEF Members
  <1> QED
    BY <1>2, <1>3, FS_Subset

\* A new id is a tree and a class of its own (make_set, add).
LEMMA MadeSetFits ==
  ASSUME NEW g, NEW v, Sound(g, v), NEW n \in Node, HasRoom(g, n), Owners(g, n) = {},
         NEW t, Fits(g, t), NEW h, h = Added(g, n)
  PROVE  Fits(h, MadeSet(t)) /\ h.made = g.made + 1 /\ h.history = g.history
  <1> DEFINE id == g.made
             p == [i \in Made(g) \cup {id} |-> IF i = id THEN id ELSE t.parents[i]]
             s == [i \in Made(g) \cup {id} |-> IF i = id THEN 1 ELSE t.sizes[i]]
  <1>1. /\ g \in Graph /\ g.made \in 0 .. MaxIds /\ MaxIds \in Nat
        /\ id \in Nat /\ id < MaxIds /\ id \in Id /\ id \notin Made(g)
    BY MadeIds, MaxIdsIsNat DEF Sound, HasRoom, Made, Id, Graph
  <1>2. h.made = g.made + 1 /\ h.leader = g.leader /\ h.history = g.history
    BY <1>1 DEF Added, Graph
  <1>3. Made(h) = Made(g) \cup {id}
    BY <1>1, <1>2 DEF Made
  <1>4. /\ g.leader[id] = id
        /\ \A i \in Made(g) : g.leader[i] \in Made(g)
    BY <1>1 DEF Sound, LeadersAgree
  <1>5. /\ t.parents \in [Made(g) -> Made(g)] /\ t.sizes \in [Made(g) -> 1 .. MaxIds]
        /\ \A i \in Made(g) : g.leader[t.parents[i]] = g.leader[i]
        /\ \A i \in Made(g) : t.parents[i] = i <=> g.leader[i] = i
        /\ \A i \in Made(g) : t.parents[i] # i => t.sizes[i] < t.sizes[t.parents[i]]
        /\ \A c \in Classes(g) : t.sizes[c] = Cardinality(Members(g, c))
    BY DEF Fits
  <1>6. Cardinality(Ids(t)) = id
    BY <1>1, <1>5, MadeIsFinite DEF Ids
  <1>7. MadeSet(t) = [parents |-> p, sizes |-> s]
    BY <1>5, <1>6 DEF MadeSet, Ids
  <1>8. /\ p \in [Made(h) -> Made(h)] /\ s \in [Made(h) -> 1 .. MaxIds]
    BY <1>1, <1>3, <1>5
  <1>9. ASSUME NEW i \in Made(h)
        PROVE  /\ h.leader[p[i]] = h.leader[i]
               /\ p[i] = i <=> h.leader[i] = i
               /\ p[i] # i => s[i] < s[p[i]]
    BY <1>1, <1>2, <1>3, <1>4, <1>5
  <1>10. ASSUME NEW c \in Classes(h)
         PROVE  s[c] = Cardinality(Members(h, c))
    <2>1. CASE c = id
      <3>1. Members(h, c) = {id}
        BY <1>1, <1>2, <1>3, <1>4, <2>1 DEF Members
      <3> QED
        BY <1>3, <2>1, <3>1, FS_Singleton
    <2>2. CASE c # id
      <3>1. c \in Classes(g) /\ Members(h, c) = Members(g, c)
        BY <1>1, <1>2, <1>3, <1>4, <2>2 DEF Members, Classes
      <3> QED
        BY <1>3, <1>5, <2>2, <3>1 DEF Classes
    <2> QED
      BY <2>1, <2>2
  <1> HIDE DEF p, s
  <1> QED
    BY <1>2, <1>7, <1>8, <1>9, <1>10 DEF Fits

\* Two trees become one where two classes do, and the same root survives
\* (unionfind::union, union).
LEMMA JoinedFits ==
  ASSUME NEW g, NEW v, Sound(g, v), NEW a \in Made(g), NEW b \in Made(g), NEW why,
         Survivor(g, a, b) # Absorbed(g, a, b), NEW h, h = United(g, a, b, why),
         NEW t, Fits(g, t)
  PROVE  Fits(h, Joined(t, g.leader[a], g.leader[b]))
  <1> DEFINE ra == g.leader[a]
             rb == g.leader[b]
             root == Survivor(g, a, b)
             gone == Absorbed(g, a, b)
             f == Found(Found(t, ra), rb)
             p == f.parents
             s == t.sizes
             q == [p EXCEPT ![gone] = root]
             u == [s EXCEPT ![root] = @ + s[gone]]
  <1>1. /\ h.made = g.made
        /\ h.leader = [i \in Id |-> IF g.leader[i] = gone THEN root ELSE g.leader[i]]
        /\ root \in {ra, rb} /\ gone \in {ra, rb} /\ root # gone /\ ra # rb
        /\ root \in Made(g) /\ gone \in Made(g)
        /\ Made(h) = Made(g) /\ Made(g) \subseteq Id /\ MaxIds \in Nat /\ g \in Graph
    <2>1. /\ h.made = g.made /\ h.memo = g.memo /\ h.pending = g.pending \cup {root}
          /\ h.leader = [i \in Id |-> IF g.leader[i] = gone THEN root ELSE g.leader[i]]
          /\ h.nodes = [g.nodes EXCEPT ![root] = @ \cup g.nodes[gone], ![gone] = {}]
          /\ h.uses = [g.uses EXCEPT ![root] = @ \cup g.uses[gone], ![gone] = {}]
          /\ root \in {g.leader[a], g.leader[b]} /\ gone \in {g.leader[a], g.leader[b]}
          /\ root \in Made(g) /\ gone \in Made(g) /\ root \in Id /\ gone \in Id
      BY UnitedParts
    <2>2. g \in Graph /\ Made(g) \subseteq Id /\ MaxIds \in Nat
      BY MadeIds, MaxIdsIsNat DEF Sound
    <2>3. Made(h) = Made(g)
      BY <2>1 DEF Made
    <2> HIDE DEF root, gone, ra, rb
    <2> QED
      BY <2>1, <2>2, <2>3 DEF root, gone, ra, rb
  <1>2. /\ s \in [Made(g) -> 1 .. MaxIds] /\ t = [parents |-> t.parents, sizes |-> s]
    BY DEF Fits
  <1>3. Fits(g, Found(t, ra))
    BY HalvedFits
  <1>4. Fits(g, f)
    BY <1>3, HalvedFits
  <1>5. p = Halved(Halved(t.parents, ra), rb) /\ f.sizes = s
    BY <1>2 DEF Found
  <1>6. /\ p \in [Made(g) -> Made(g)]
        /\ \A i \in Made(g) : g.leader[p[i]] = g.leader[i]
        /\ \A i \in Made(g) : p[i] = i <=> g.leader[i] = i
        /\ \A i \in Made(g) : p[i] # i => s[i] < s[p[i]]
        /\ \A c \in Classes(g) : s[c] = Cardinality(Members(g, c))
    <2> HIDE DEF f
    <2> QED
      BY <1>4, <1>5 DEF Fits
  <1>7. /\ Roots(p) = [i \in Made(g) |-> g.leader[i]]
        /\ ra \in Classes(g) /\ rb \in Classes(g)
    <2> HIDE DEF f
    <2> QED
      BY <1>4, RootsAreLeaders
  <1>8. Joined(t, ra, rb) = [parents |-> q, sizes |-> u]
    <2>1. Roots(p)[ra] = ra /\ Roots(p)[rb] = rb
      BY <1>7 DEF Classes
    <2>2. s[ra] = Cardinality(Members(g, ra)) /\ s[rb] = Cardinality(Members(g, rb))
      BY <1>6, <1>7
    <2>3. KeptRoot(s, ra, rb) = root
      BY <2>2 DEF KeptRoot, Survivor, Find
    <2>4. gone = IF root = ra THEN rb ELSE ra
      BY DEF Absorbed, Find
    <2> HIDE DEF f, root, gone
    <2> QED
      BY <1>1, <1>5, <2>1, <2>3, <2>4 DEF Joined
  <1> HIDE DEF f, p, s, root, gone, ra, rb
  <1>9. /\ root \in Classes(g) /\ gone \in Classes(g)
        /\ g.leader[root] = root /\ g.leader[gone] = gone
    BY <1>1, <1>7 DEF Classes
  <1>10. /\ Cardinality(Members(g, root) \cup Members(g, gone)) = s[root] + s[gone]
         /\ s[root] + s[gone] \in 1 .. MaxIds
    <2>1. /\ IsFiniteSet(Members(g, root)) /\ IsFiniteSet(Members(g, gone))
          /\ Members(g, root) \cup Members(g, gone) \in SUBSET Made(g)
          /\ IsFiniteSet(Made(g)) /\ Cardinality(Made(g)) = g.made
      BY <1>1, MadeIsFinite
    <2>2. Members(g, root) \cap Members(g, gone) = {}
      BY <1>1 DEF Members
    <2>3. Cardinality(Members(g, root) \cup Members(g, gone))
            = Cardinality(Members(g, root)) + Cardinality(Members(g, gone))
                - Cardinality(Members(g, root) \cap Members(g, gone))
      BY <2>1, FS_Union
    <2>4. Cardinality(Members(g, root) \cap Members(g, gone)) = 0
      BY <2>2, FS_EmptySet
    <2>5. Cardinality(Members(g, root) \cup Members(g, gone)) <= g.made
      BY <2>1, FS_Subset
    <2>6. g.made <= MaxIds /\ g.made \in Nat
      BY <1>1 DEF Graph
    <2>7. /\ s[root] = Cardinality(Members(g, root)) /\ s[gone] = Cardinality(Members(g, gone))
          /\ s[root] \in 1 .. MaxIds /\ s[gone] \in 1 .. MaxIds
      BY <1>1, <1>2, <1>6, <1>9
    <2> QED
      BY <1>1, <2>3, <2>4, <2>5, <2>6, <2>7
  <1>11. q \in [Made(h) -> Made(h)] /\ u \in [Made(h) -> 1 .. MaxIds]
    BY <1>1, <1>2, <1>6, <1>10
  <1>12. ASSUME NEW i \in Made(h)
         PROVE  /\ h.leader[q[i]] = h.leader[i]
                /\ q[i] = i <=> h.leader[i] = i
                /\ q[i] # i => u[i] < u[q[i]]
    <2>1. i \in Made(g) /\ i \in Id /\ p[i] \in Made(g) /\ p[i] \in Id /\ root \in Id
      BY <1>1, <1>6
    <2>2. CASE i = gone
      BY <1>1, <1>2, <1>6, <1>9, <2>1, <2>2
    <2>3. CASE i # gone
      <3>1. q[i] = p[i]
        BY <1>6, <2>1, <2>3
      <3>2. p[i] # i => s[i] < s[p[i]] /\ i # root
        BY <1>6, <1>9, <2>1
      <3>3. s[p[i]] <= u[p[i]] /\ (i # root => u[i] = s[i])
        BY <1>1, <1>2, <2>1, <2>3
      <3>4. s[i] \in Int /\ s[p[i]] \in Int /\ u[p[i]] \in Int
        BY <1>1, <1>2, <1>11, <2>1
      <3>5. q[i] # i => u[i] < u[q[i]]
        <4> HIDE DEF q, u
        <4> QED
          BY <3>1, <3>2, <3>3, <3>4
      <3>6. h.leader[q[i]] = h.leader[i] /\ (q[i] = i <=> h.leader[i] = i)
        BY <1>1, <1>6, <1>9, <2>1, <2>3, <3>1
      <3> QED
        BY <3>5, <3>6
    <2> QED
      BY <2>2, <2>3
  <1>13. ASSUME NEW c \in Classes(h)
         PROVE  u[c] = Cardinality(Members(h, c))
    <2>1. c \in Made(g) /\ c \in Id /\ c # gone /\ h.leader[c] = c
      BY <1>1, <1>9 DEF Classes
    <2>2. CASE c = root
      <3>1. Members(h, c) = Members(g, root) \cup Members(g, gone)
        BY <1>1, <2>2 DEF Members
      <3> QED
        BY <1>1, <1>2, <1>10, <2>2, <3>1
    <2>3. CASE c # root
      <3>1. Members(h, c) = Members(g, c) /\ c \in Classes(g)
        BY <1>1, <2>1, <2>3 DEF Members, Classes
      <3> QED
        BY <1>2, <1>6, <2>1, <2>3, <3>1
    <2> QED
      BY <2>2, <2>3
  <1> HIDE DEF q, u
  <1> QED
    BY <1>8, <1>11, <1>12, <1>13 DEF Fits, ra, rb

\* The tree after a call of add, and after one of union.
LEMMA AddedTree ==
  ASSUME NEW g, NEW v, Sound(g, v), NEW n \in Node, HasRoom(g, n), NEW t, Fits(g, t),
         NEW h, h = Added(g, n)
  PROVE  Fits(h, IF h.made = g.made THEN t ELSE MadeSet(t)) /\ h.history = g.history
  <1>1. CASE Owners(g, n) = {}
    <2>1. Fits(h, MadeSet(t)) /\ h.made = g.made + 1 /\ h.history = g.history
      BY <1>1, MadeSetFits
    <2>2. g.made \in Nat
      BY MadeIds DEF Sound
    <2> QED
      BY <2>1, <2>2
  <1>2. CASE Owners(g, n) # {}
    BY <1>2 DEF Added
  <1> QED
    BY <1>1, <1>2

LEMMA UnitedTree ==
  ASSUME NEW g, NEW v, Sound(g, v), NEW a \in Made(g), NEW b \in Made(g), NEW why \in Why,
         NEW t, Fits(g, t), NEW h, h = United(g, a, b, why)
  PROVE  /\ h.made = g.made
         /\ Fits(h, IF h.history = g.history THEN t
                    ELSE Joined(t, Last(h.history).ids[1], Last(h.history).ids[2]))
  <1>1. CASE Survivor(g, a, b) = Absorbed(g, a, b)
    BY <1>1 DEF United
  <1>2. CASE Survivor(g, a, b) # Absorbed(g, a, b)
    <2> DEFINE record == Recorded(g, a, b, why)
               S == [ids : Id \X Id, why : Why]
    <2>1. Fits(h, Joined(t, g.leader[a], g.leader[b]))
      BY <1>2, JoinedFits
    <2>2. h.made = g.made
      BY DEF United, Sound, Graph
    <2>3. h.history = Append(g.history, record)
      BY <1>2 DEF United, Sound, Graph
    <2>4. g.history \in Seq(S)
      BY DEF Sound, Graph
    <2>5. record = [ids |-> <<g.leader[a], g.leader[b]>>, why |-> why]
      BY DEF Recorded, Find
    <2> HIDE DEF record
    <2>6. h.history # g.history /\ Last(h.history) = record
      <3>1. record \in S
        <4>1. g.leader[a] \in Id /\ g.leader[b] \in Id
          BY MadeIds DEF Sound
        <4> QED
          BY <2>5, <4>1
      <3> HIDE DEF S
      <3>2. Len(Append(g.history, record)) = Len(g.history) + 1 /\ Len(g.history) \in Nat
        BY <2>4, <3>1
      <3>3. Append(g.history, record)[Len(g.history) + 1] = record
        BY <2>4, <3>1
      <3> QED
        BY <2>3, <3>2, <3>3 DEF Last
    <2> QED
      BY <2>1, <2>2, <2>5, <2>6
  <1> QED
    BY <1>1, <1>2

----------------------------------------------------------------------------
(* Each step keeps the forest fitting.                                      *)

TreeInv == Fits(graph, tree)

\* What the calls of a step make of the tree fits, and so it does compressed.
LEMMA FollowingFits ==
  ASSUME TreeFollows,
         Fits(graph', LET grown == IF graph'.made = graph.made THEN tree ELSE MadeSet(tree)
                      IN  IF graph'.history = graph.history THEN grown
                          ELSE Joined(grown, Last(graph'.history).ids[1],
                                      Last(graph'.history).ids[2]))
  PROVE  TreeInv'
  BY CompressedFits DEF TreeFollows, TreeInv

\* Fitting is about leaders: a step without add and union leaves it alone.
LEMMA SameLeaders ==
  ASSUME TreeInv, TreeFollows, graph'.made = graph.made, graph'.leader = graph.leader,
         graph'.history = graph.history
  PROVE  TreeInv'
  <1>1. Made(graph') = Made(graph)
    BY DEF Made
  <1>2. Classes(graph') = Classes(graph) /\ \A c : Members(graph', c) = Members(graph, c)
    BY <1>1 DEF Classes, Members
  <1>3. Fits(graph', tree)
    BY <1>1, <1>2 DEF TreeInv, Fits
  <1> QED
    BY <1>3, FollowingFits

\* add (make_set).
LEMMA AddFits ==
  ASSUME IInv, TreeInv, TreeFollows, NEW n \in Node, Add(n)
  PROVE  TreeInv'
  <1>1. HasRoom(graph, n)
    BY BoundsAreFinite, FS_CardinalityType DEF HasRoom, Add, MaxIds, IInv, TypeOK, Graph
  <1>2. graph' = Added(graph, n) /\ Sound(graph, value)
    BY DEF Add, IInv
  <1>3. /\ Fits(graph', IF graph'.made = graph.made THEN tree ELSE MadeSet(tree))
        /\ graph'.history = graph.history
    BY <1>1, <1>2, AddedTree DEF TreeInv
  <1> QED
    BY <1>3, FollowingFits

\* union, by a caller.
LEMMA UnionFits ==
  ASSUME IInv, TreeInv, TreeFollows, NEW a \in Classes(graph), NEW b \in Classes(graph),
         Union(a, b)
  PROVE  TreeInv'
  <1>1. /\ graph' = United(graph, a, b, Asserted) /\ Sound(graph, value)
        /\ a \in Made(graph) /\ b \in Made(graph)
    BY DEF Union, IInv, Classes
  <1>2. /\ graph'.made = graph.made
        /\ Fits(graph', IF graph'.history = graph.history THEN tree
                        ELSE Joined(tree, Last(graph'.history).ids[1],
                                    Last(graph'.history).ids[2]))
    BY <1>1, UnitedTree DEF TreeInv, Why
  <1> QED
    BY <1>2, FollowingFits

\* repair: a parent is congruent to one before it, or to none.
LEMMA RepairParentFits ==
  ASSUME IInv, TreeInv, TreeFollows, NEW p \in left, RepairParent(p)
  PROVE  TreeInv'
  <1> DEFINE node == Canonical(graph, p[1])
             owner == Find(graph, p[2])
  <1>1. /\ Sound(graph, value) /\ graph \in Graph
        /\ NewParent(node, owner, p[1]) \/ CongruentParent(node, owner, p[1])
    BY DEF RepairParent, IInv, TypeOK
  <1>2. owner \in Made(graph)
    BY <1>1 DEF IInv, RepairAgrees, States, Sound, LeadersAgree, Find
  <1> HIDE DEF node, owner
  <1>3. CASE NewParent(node, owner, p[1])
    <2>1. graph' = Keyed(graph, node, owner)
      BY <1>3 DEF NewParent
    <2>2. /\ graph'.made = graph.made /\ graph'.leader = graph.leader
          /\ graph'.history = graph.history
      BY <1>1, <2>1 DEF Keyed, Graph
    <2> QED
      BY <2>2, SameLeaders
  <1>4. CASE CongruentParent(node, owner, p[1])
    <2>1. PICK s \in seen :
            LET g == United(graph, s.owner, owner, Congruence(s.stored, p[1])) IN
            graph' = Keyed(g, node, Find(g, owner))
      BY <1>4 DEF CongruentParent
    <2> DEFINE why == Congruence(s.stored, p[1])
               g == United(graph, s.owner, owner, why)
    <2>2. s.owner \in Made(graph)
      BY <2>1 DEF IInv, RepairAgrees, States
    <2>3. why \in Why
      <3>1. p[1] \in Node /\ s.stored \in Node
        BY <2>1 DEF IInv, TypeOK
      <3> QED
        BY <3>1 DEF Why, Congruence
    <2> HIDE DEF why
    <2>4. /\ g.made = graph.made
          /\ Fits(g, IF g.history = graph.history THEN tree
                     ELSE Joined(tree, Last(g.history).ids[1], Last(g.history).ids[2]))
      BY <1>1, <1>2, <2>2, <2>3, UnitedTree DEF TreeInv
    <2>5. graph' = Keyed(g, node, Find(g, owner))
      BY <2>1 DEF why
    <2>6. /\ g.made = graph'.made /\ g.leader = graph'.leader /\ g.history = graph'.history
      <3>1. DOMAIN g = DOMAIN graph
        BY DEF United
      <3> HIDE DEF g
      <3>2. {"made", "leader", "history"} \subseteq DOMAIN graph
        BY <1>1 DEF Graph
      <3> QED
        BY <2>5, <3>1, <3>2 DEF Keyed
    <2> HIDE DEF g
    <2>7. Made(graph') = Made(g)
      BY <2>6 DEF Made
    <2>8. Classes(graph') = Classes(g) /\ \A c : Members(graph', c) = Members(g, c)
      BY <2>6, <2>7 DEF Classes, Members
    <2>9. \A t : Fits(g, t) => Fits(graph', t)
      BY <2>6, <2>7, <2>8 DEF Fits
    <2> QED
      BY <2>4, <2>6, <2>9, FollowingFits
  <1> QED
    BY <1>1, <1>3, <1>4

\* modify: a literal is added, if it is not there, and joined.
LEMMA ModifyFits ==
  ASSUME IInv, TreeInv, TreeFollows, NEW id \in changed, Modify(id)
  PROVE  TreeInv'
  <1> DEFINE c == graph.fact[graph.leader[id]]
             lit == LiteralNode(c)
             folds == c # None /\ lit \notin graph.nodes[graph.leader[id]]
             g == Added(graph, lit)
             lands == LandsIn(graph, lit)
  <1>1. /\ Sound(graph, value) /\ graph \in Graph /\ id \in Id
        /\ folds => HasRoom(graph, lit)
        /\ graph' = IF folds THEN United(g, id, lands, Folded) ELSE graph
    BY DEF Modify, Find, IInv, TypeOK
  <1>2. CASE ~ folds
    BY <1>1, <1>2, SameLeaders
  <1>3. CASE folds
    <2>1. c \in Number /\ c = value[id]
      BY <1>1, <1>3 DEF Sound, LeadersAgree, FactsAgree, Graph, Known
    <2>2. id \in Made(graph)
      BY <1>1, <1>3, <2>1 DEF Sound, LeadersAgree
    <2>3. lit \in Node /\ \A k \in DOMAIN lit.kids : lit.kids[k] \in Made(graph)
      BY <2>1 DEF LiteralNode, Node
    <2> HIDE DEF c, lit
    <2> DEFINE w == Grown(graph, value, lit)
               t == IF g.made = graph.made THEN tree ELSE MadeSet(tree)
    <2>4. Sound(g, w) /\ lands \in Made(g) /\ id \in Made(g)
      BY <1>1, <1>3, <2>2, <2>3, AddedIsSound
    <2>5. Fits(g, t) /\ g.history = graph.history
      BY <1>1, <1>3, <2>3, AddedTree DEF TreeInv
    <2>6. Folded \in Why
      BY DEF Why
    <2>7. graph' = United(g, id, lands, Folded)
      BY <1>1, <1>3
    <2> HIDE DEF g, lands, w, t
    <2>8. /\ graph'.made = g.made
          /\ Fits(graph', IF graph'.history = g.history THEN t
                          ELSE Joined(t, Last(graph'.history).ids[1],
                                      Last(graph'.history).ids[2]))
      BY <2>4, <2>5, <2>7, <2>6, UnitedTree
    <2>9. t = IF graph'.made = graph.made THEN tree ELSE MadeSet(tree)
      BY <2>8 DEF t
    <2> QED
      BY <2>5, <2>8, <2>9, FollowingFits
  <1> QED
    BY <1>2, <1>3

\* The other steps of rebuild join nothing and add nothing.
LEMMA QuietSteps ==
  ASSUME graph \in Graph,
         \/ Rebuild \/ TakePending \/ (\E i \in todo : BeginRepair(i)) \/ EndRepair
         \/ BeginFacts \/ (\E order \in SetToSeqs(Untold) : PopClass(order)) \/ EndFacts \/ NextRound \/ Finish
  PROVE  /\ graph'.made = graph.made /\ graph'.leader = graph.leader
         /\ graph'.history = graph.history
  <1>1. CASE Rebuild \/ EndFacts
    BY <1>1 DEF Rebuild, EndFacts
  <1>2. CASE TakePending \/ BeginFacts
    BY <1>2 DEF TakePending, BeginFacts, Graph
  <1>3. ASSUME NEW i \in todo, BeginRepair(i)
        PROVE  /\ graph'.made = graph.made /\ graph'.leader = graph.leader
               /\ graph'.history = graph.history
    BY <1>3 DEF BeginRepair, Graph
  <1>4. CASE EndRepair
    BY <1>4 DEF EndRepair, Graph
  <1>5. ASSUME NEW order, PopClass(order)
        PROVE  /\ graph'.made = graph.made /\ graph'.leader = graph.leader
               /\ graph'.history = graph.history
    BY <1>5 DEF PopClass, Graph
  <1>6. CASE NextRound
    BY <1>6 DEF NextRound, Graph
  <1>7. CASE Finish
    BY <1>7 DEF Finish, Reindexed, Graph
  <1> QED
    BY <1>1, <1>2, <1>3, <1>4, <1>5, <1>6, <1>7

LEMMA TreeStepKeeps == IInv /\ TreeInv /\ [TNext]_allVars => IInv' /\ TreeInv'
  <1> SUFFICES ASSUME IInv, TreeInv, [TNext]_allVars PROVE IInv' /\ TreeInv'
    OBVIOUS
  <1>1. IInv'
    BY StepKeeps DEF TNext, FindMut, allVars
  <1>2. CASE UNCHANGED allVars
    BY <1>1, <1>2 DEF allVars, vars, TreeInv
  <1>3. ASSUME NEW i \in Ids(tree), FindMut(i) PROVE TreeInv'
    BY <1>3, HalvedFits DEF FindMut, vars, TreeInv
  <1>4. CASE Next /\ TreeFollows
    <2>1. ASSUME NEW n \in Node, Add(n) PROVE TreeInv'
      BY <1>4, <2>1, AddFits
    <2>2. ASSUME NEW a \in Classes(graph), NEW b \in Classes(graph), Union(a, b) PROVE TreeInv'
      BY <1>4, <2>2, UnionFits
    <2>3. ASSUME NEW p \in left, RepairParent(p) PROVE TreeInv'
      BY <1>4, <2>3, RepairParentFits
    <2>4. ASSUME NEW i \in changed, Modify(i) PROVE TreeInv'
      BY <1>4, <2>4, ModifyFits
    <2>5. CASE \/ Rebuild \/ TakePending \/ (\E i \in todo : BeginRepair(i)) \/ EndRepair
               \/ BeginFacts \/ (\E order \in SetToSeqs(Untold) : PopClass(order)) \/ EndFacts \/ NextRound \/ Finish
      <3>1. graph \in Graph
        BY DEF IInv, TypeOK
      <3> QED
        BY <1>1, <1>4, <2>5, <3>1, QuietSteps, SameLeaders
    <2> QED
      BY <1>1, <1>4, <2>1, <2>2, <2>3, <2>4, <2>5 DEF Next, RebuildStep
  <1> QED
    BY <1>1, <1>2, <1>3, <1>4 DEF TNext

\* The empty forest stands for the empty graph (UnionFind::new).
LEMMA EmptyFits == TInit => IInv /\ TreeInv
  <1> SUFFICES ASSUME TInit PROVE IInv /\ TreeInv
    OBVIOUS
  <1>1. IInv
    BY InitHolds DEF TInit
  <1>2. Made(graph) = {}
    BY DEF TInit, Init, EmptyGraph, Made
  <1>3. tree = [parents |-> [i \in {} |-> 0], sizes |-> [i \in {} |-> 0]]
    BY DEF TInit, Empty
  <1> QED
    BY <1>1, <1>2, <1>3 DEF TreeInv, Fits, Classes

----------------------------------------------------------------------------
(* The results.                                                             *)

\* The e-graph with its forest is the e-graph: whatever is proved of EGraph
\* holds of it, and the forest's calls hold up no step.
THEOREM OnTreesIsAnEGraph == TSpec => Spec
  <1>1. TInit => Init
    BY DEF TInit
  <1>2. [TNext]_allVars => [Next]_vars
    BY DEF TNext, FindMut, allVars
  <1> QED
    BY <1>1, <1>2, PTL DEF TSpec, Spec

\* At every moment of every rebuild, whatever was added and joined and however
\* often paths were halved on the way, climbing the forest from an id ends, at
\* the leader of its class, and the size kept at a root, which decides who
\* survives the next union, is the number of its ids (find, union,
\* compress_all).
THEOREM TreesStayAgreed == TSpec => []TreesAgree
  <1>1. IInv /\ TreeInv => TreesAgree
    <2> SUFFICES ASSUME TreeInv PROVE TreesAgree
      OBVIOUS
    <2>1. Roots(tree.parents) = [i \in Made(graph) |-> graph.leader[i]]
      BY RootsAreLeaders DEF TreeInv
    <2>2. Ids(tree) = Made(graph)
      BY DEF TreeInv, Fits, Ids
    <2> QED
      BY <2>1, <2>2 DEF TreesAgree, TreeInv, Fits, Find
  <1> QED
    BY EmptyFits, TreeStepKeeps, <1>1, PTL DEF TSpec
=============================================================================
