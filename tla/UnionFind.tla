------------------------------ MODULE UnionFind ------------------------------
(***************************************************************************)
(* The union-find of src/unionfind.rs: a forest of parent pointers, climbed *)
(* by find, which halves the path on its way, and joined by size.  A tree   *)
(* is the pair of vectors of the struct, both indexed from zero.            *)
(***************************************************************************)
EXTENDS Naturals, FiniteSets

Empty == [parents |-> [i \in {} |-> 0], sizes |-> [i \in {} |-> 0]]

Ids(tree) == DOMAIN tree.parents

MadeSet(tree) ==
  LET id == Cardinality(Ids(tree)) IN
  [parents |-> [i \in Ids(tree) \cup {id} |->
                   IF i = id THEN id ELSE tree.parents[i]],
   sizes |-> [i \in Ids(tree) \cup {id} |->
                   IF i = id THEN 1 ELSE tree.sizes[i]]]

\* find_immutable, for every id at once.
Roots(parents) ==
  LET root[i \in DOMAIN parents] ==
        IF parents[i] = i THEN i ELSE root[parents[i]]
  IN  root

\* The ids at which find stops to halve the path above i.
Climbed(parents, i) ==
  LET climb[j \in DOMAIN parents] ==
        IF parents[j] = j THEN {} ELSE {j} \cup climb[parents[parents[j]]]
  IN  climb[i]

\* What find leaves behind.  The vector is read before it is written at each
\* stop, and a stop lies above the one before, so all of them read the old one.
Halved(parents, i) ==
  LET stops == Climbed(parents, i) IN
  [j \in DOMAIN parents |-> IF j \in stops THEN parents[parents[j]] ELSE parents[j]]

Found(tree, i) == [tree EXCEPT !.parents = Halved(tree.parents, i)]

(* Mutant of KeptRoot: of two equal sets the second keeps its root. *)
KeptRootSecond(sizes, ra, rb) == IF sizes[ra] <= sizes[rb] THEN rb ELSE ra

\* The larger set keeps its root, and of two equal ones the first.
KeptRoot(sizes, ra, rb) == IF sizes[ra] < sizes[rb] THEN rb ELSE ra

Joined(tree, a, b) ==
  LET p     == Halved(Halved(tree.parents, a), b)
      ra    == Roots(p)[a]
      rb    == Roots(p)[b]
      root  == KeptRoot(tree.sizes, ra, rb)
      child == IF root = ra THEN rb ELSE ra
  IN  IF ra = rb
      THEN [tree EXCEPT !.parents = p]
      ELSE [parents |-> [p EXCEPT ![child] = root],
            sizes   |-> [tree.sizes EXCEPT ![root] = @ + tree.sizes[child]]]

Compressed(tree) == [tree EXCEPT !.parents = Roots(@)]
==============================================================================
