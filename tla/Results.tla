-------------------------------- MODULE Results --------------------------------
(***************************************************************************)
(* What is taken from the graph a run of saturation ends with: the cheapest  *)
(* term of a class, the cheapest with sharing (optimize of src/lib.rs), and    *)
(* why two terms are equal.                                                  *)
(***************************************************************************)
EXTENDS Saturation, Extraction, Explanations

\* Extraction finds the cheapest term of every class that has a finite one, and
\* the term it builds costs what it says (solve, build_into, tree_cost).
ExtractionIsCheapest ==
  step = "done" =>
    \A model \in Models :
      LET best  == Selection(graph, model, {})
          least == Cheapest(graph, model)
      IN  /\ DOMAIN best = DOMAIN least
          /\ \A k \in DOMAIN best :
               /\ best[k].cost = least[k]
               /\ CanBuild(graph, best, k)
               /\ TreeCost(graph, model, best, k) = least[k]

\* Extraction with sharing returns a term, although what it prices at nothing
\* may lead in circles, and never one dearer than the cheapest tree (extract.rs:319-321).
SharingNeverCosts ==
  step = "done" =>
    \A model \in Models :
      LET tree   == Selection(graph, model, {})
          shared == SharedSelection(graph, model, root)
      IN  /\ CanBuild(graph, shared, root)
          /\ DagCost(graph, model, shared, root) <= DagCost(graph, model, tree, root)

\* Any two terms of one class have an explanation, a chain of the unions that
\* were recorded from the one to the other, and no others have one (explain).
EqualIsExplained ==
  step = "done" =>
    \A i, j \in Made(graph) :
      /\ Find(graph, i) = Find(graph, j) <=> Connected(graph, i, j)
      /\ Connected(graph, i, j) => Leads(graph, Explain(graph, i, j), i, j)
===============================================================================
