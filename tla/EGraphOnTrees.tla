---------------------------- MODULE EGraphOnTrees ----------------------------
(***************************************************************************)
(* The e-graph together with the union-find it keeps.  EGraph names the     *)
(* leader of each class; here the forest of src/unionfind.rs is driven by   *)
(* the calls the e-graph makes of it, and has to agree.                     *)
(***************************************************************************)
EXTENDS EGraph, UnionFind

VARIABLE tree

allVars == <<vars, tree>>

\* make_set of the id that was added, union of the two classes that were
\* joined, and compress_all at the end of rebuild.
TreeFollows ==
  LET grown  == IF graph'.made = graph.made THEN tree ELSE MadeSet(tree)
      joined == IF graph'.history = graph.history
                THEN grown
                ELSE Joined(grown, Last(graph'.history).ids[1], Last(graph'.history).ids[2])
  IN  tree' = IF ~ Between /\ phase' = "clean" THEN Compressed(joined) ELSE joined

\* find_mut, a call of its own and all through rebuild: of any id, at any time.
FindMut(i) ==
  /\ Found(tree, i) # tree
  /\ tree' = Found(tree, i)
  /\ UNCHANGED vars

TInit == Init /\ tree = Empty

TNext ==
  \/ Next /\ TreeFollows
  \/ \E i \in Ids(tree) : FindMut(i)

\* The steps of rebuild follow one another: it is one call.
TSpec == TInit /\ [][TNext]_allVars /\ WF_allVars(RebuildStep /\ TreeFollows)

\* At every moment climbing the forest from an id ends at the leader of its
\* class, halved or not, and the size kept at a root, which decides who
\* survives a union, is the number of ids below it (find, union, compress_all).
TreesAgree ==
  /\ Ids(tree) = Made(graph)
  /\ \A i \in Ids(tree) : Roots(tree.parents)[i] = Find(graph, i)
  /\ \A c \in Classes(graph) : tree.sizes[c] = Cardinality(Members(graph, c))
==============================================================================
